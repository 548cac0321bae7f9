----------------------------- MODULE ListService -----------------------------
(***************************************************************************)
(* What FilterListStore.Get promises its callers, without a word about     *)
(* flights, slots, attempts, cache entries or files: a call starts, may    *)
(* see its context end, and returns content that is as recent as its       *)
(* source claims it to be.                                                 *)
(***************************************************************************)
EXTENDS Integers

CONSTANTS Urls, Callers, MaxVersion,
  NoCall   \* the call of an idle caller; its field busy is FALSE

VARIABLES
  server,  \* server[u]: version the origin of u serves
  call,    \* call[c]: the call in progress, [busy, url, mode, ended, low]
  answer   \* answer[c]: outcome of the last call

vars == <<server, call, answer>>

Sources == {"none", "error", "broken", "network", "cache", "stale"}
Answers == [src : Sources, ver : 0 .. MaxVersion, confirmed : BOOLEAN]

Init ==
  /\ server = [u \in Urls |-> 1]
  /\ call = [c \in Callers |-> NoCall]
  /\ \A c \in Callers : answer[c].src = "none"

Publish(u) ==
  /\ server[u] < MaxVersion
  /\ server' = [server EXCEPT ![u] = @ + 1]
  /\ UNCHANGED <<call, answer>>

Begin(c, u, m) ==
  /\ ~call[c].busy
  /\ call' = [call EXCEPT ![c] = [busy |-> TRUE, url |-> u, mode |-> m,
                                  ended |-> FALSE, low |-> server[u]]]
  /\ answer' = [answer EXCEPT ![c] = [src |-> "none", ver |-> 0,
                                      confirmed |-> FALSE]]
  /\ UNCHANGED server

EndContext(c) ==
  /\ call[c].busy
  /\ call' = [call EXCEPT ![c].ended = TRUE]
  /\ UNCHANGED <<server, answer>>

\* A failure carries no content.  Content the server vouched for during the
\* call is at least what it served when the call began.  Content it did not
\* vouch for came out of the cache, and in ModeDefault a stale copy is never
\* the answer to a call whose own context has ended.  ModeCacheOnly never
\* carries the server's word.
Keeps(c, a) ==
  LET k == call[c] IN
  /\ a.src \in {"error", "broken"} => a.ver = 0 /\ ~a.confirmed
  /\ a.src \in {"network", "cache", "stale"} => a.ver \in 1 .. server[k.url]
  /\ a.src = "network" => a.confirmed
  /\ a.confirmed => a.ver >= k.low /\ k.mode # "cacheOnly" /\ a.src # "stale"
  /\ a.src = "stale" /\ k.mode = "default" => ~k.ended

\* Any answer that keeps the promises will do.
Return(c) ==
  /\ call[c].busy
  /\ call' = [call EXCEPT ![c] = NoCall]
  /\ answer'[c] \in Answers /\ answer'[c].src # "none"
  /\ Keeps(c, answer'[c])
  /\ answer' = [answer EXCEPT ![c] = answer'[c]]
  /\ UNCHANGED server

\* Every step of a caller shows in its call.
Next ==
  \/ \E u \in Urls : Publish(u)
  \/ \E c \in {d \in Callers : call'[d] # call[d]} :
       \/ \E u \in Urls, m \in {"default", "preferCache", "cacheOnly"} :
            Begin(c, u, m)
       \/ EndContext(c) \/ Return(c)

Spec == Init /\ [][Next]_vars
=============================================================================
