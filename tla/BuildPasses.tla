----------------------------- MODULE BuildPasses -----------------------------
(***************************************************************************)
(* internal/app/filter.go: one filter build, that is the ladder of passes  *)
(* that runBuildPasses drives and the lists that populateFilter reads in   *)
(* each pass, all of them at once.                                         *)
(*                                                                         *)
(* A list stands for one stream, a root list or an include.  What a stream *)
(* can come to is what filterliststore.Get, the reader it returns and the  *)
(* error switch of AddURL (internal/filter) allow in the mode of the pass; *)
(* FilterListStore models how Get gets there.  An include that is refused  *)
(* (too deep, or not to be resolved) is a stream without copy that fails.  *)
(***************************************************************************)
EXTENDS Naturals, Sequences

CONSTANT Lists   \* the URLs of the enabled lists and of their includes

VARIABLES
  cached,   \* the lists with a copy in the disk cache, readable or not
  fresh,    \* those of them whose copy has not expired
  expired,  \* filterBuildTimeout has passed
  aborted,  \* StopProxy has cancelled the build
  pass,     \* number of the current pass
  mode,     \* its fetch mode
  got,      \* got[l]: what became of l in the current pass
  result    \* how runBuildPasses returned

vars == <<cached, fresh, expired, aborted, pass, mode, got, result>>

\* Faulty: the last pass still downloads what is not cached.
passModesOnline == <<"default", "preferCache", "preferCache">>

passModes == <<"default", "preferCache", "cacheOnly">>

\* What AddURL has of a stream: all of its rules; those before a line that is
\* too long or before the cap on the size; those before the stream broke; or
\* none, as the body was empty, as there is a copy but neither it nor the
\* network can be read, or as Get failed without one or with its context.
Served == {"whole", "cut"}
Nothing == {"empty", "unread", "failed"}
Outcomes == {"pending", "truncated"} \cup Served \cup Nothing
Results == {"between", "running", "accepted", "aborted", "error"}

Init ==
  /\ cached \in SUBSET Lists
  /\ fresh \in SUBSET cached
  /\ expired = FALSE
  /\ aborted = FALSE
  /\ pass = 1
  /\ mode = "default"
  /\ got = [l \in Lists |-> "pending"]
  /\ result = "between"
-----------------------------------------------------------------------------
(* The deadline and the user. *)

Expire ==
  /\ ~expired /\ result \in {"between", "running"}
  /\ expired' = TRUE
  /\ UNCHANGED <<cached, fresh, aborted, pass, mode, got, result>>

Abort ==
  /\ ~aborted /\ result \in {"between", "running"}
  /\ aborted' = TRUE
  /\ UNCHANGED <<cached, fresh, expired, pass, mode, got, result>>

\* The context of the fetches ends with the deadline and with the abort.
Ended == expired \/ aborted
-----------------------------------------------------------------------------
(* One stream: Get and the scan of its reader, in AddURL. *)

\* Get serves a copy from the cache without consulting the context.
FromCache(l) ==
  \/ mode = "default" /\ l \in fresh
  \/ mode # "default" /\ l \in cached
ReadCache(l) ==
  /\ FromCache(l)
  /\ \E o \in Served : got' = [got EXCEPT ![l] = o]
  /\ UNCHANGED <<cached, fresh>>

\* The network is also asked for a list whose copy could not be read.
UsesNetwork == mode # "cacheOnly"

\* A complete download, which caching may keep, or a 304 to the stale copy.  A
\* list is read to its end, and cached, past a line that is too long.
Download(l) ==
  /\ UsesNetwork
  /\ ~Ended
  /\ \E o \in Served : got' = [got EXCEPT ![l] = o]
  /\ \/ cached' = cached \cup {l} /\ fresh' = fresh \cup {l}
     \/ UNCHANGED <<cached, fresh>>

\* A body without content is not cached, and nothing stands in for it.
DownloadEmpty(l) ==
  /\ UsesNetwork
  /\ ~Ended
  /\ got' = [got EXCEPT ![l] = "empty"]
  /\ UNCHANGED <<cached, fresh>>

\* The network cannot deliver; the expired copy stands in for it.
ServeStale(l) ==
  /\ UsesNetwork
  /\ l \in cached
  /\ ~Ended
  /\ \E o \in Served : got' = [got EXCEPT ![l] = o]
  /\ UNCHANGED <<cached, fresh>>

\* The stream breaks: the body, by itself or because the context ends, or the
\* file of a fresh or revalidated copy, which is not read into memory first.
Truncate(l) ==
  /\ UsesNetwork
  /\ got' = [got EXCEPT ![l] = "truncated"]
  /\ UNCHANGED <<cached, fresh>>

\* Get fails: no copy and no network, or the context ended, in which case a
\* copy that was not served yet does not help.
Fail(l) ==
  /\ ~FromCache(l)
  /\ UsesNetwork => l \notin cached \/ Ended
  /\ got' = [got EXCEPT ![l] = "failed"]
  /\ UNCHANGED <<cached, fresh>>

\* Get fails although there is a copy: it cannot be read, or not opened.
FailUnread(l) ==
  /\ l \in cached
  /\ got' = [got EXCEPT ![l] = "unread"]
  /\ UNCHANGED <<cached, fresh>>

ServeList(l) ==
  /\ result = "running" /\ got[l] = "pending"
  /\ \/ ReadCache(l) \/ Download(l) \/ DownloadEmpty(l) \/ ServeStale(l)
     \/ Truncate(l) \/ Fail(l) \/ FailUnread(l)
  /\ UNCHANGED <<expired, aborted, pass, mode, result>>
-----------------------------------------------------------------------------
(* runBuildPasses. *)

BeginPass ==
  /\ result = "between"
  /\ \/ /\ aborted
        /\ result' = "aborted"
        /\ UNCHANGED <<mode, got>>
     \/ /\ ~aborted
        /\ mode' = IF expired THEN "cacheOnly" ELSE passModes[pass]
        /\ got' = [l \in Lists |-> "pending"]
        /\ result' = "running"
  /\ UNCHANGED <<cached, fresh, expired, aborted, pass>>

\* The filter or the asset engine of a pass cannot be constructed.
BreakPass ==
  /\ result = "running"
  /\ got = [l \in Lists |-> "pending"]
  /\ result' = IF aborted THEN "aborted" ELSE "error"
  /\ UNCHANGED <<cached, fresh, expired, aborted, pass, mode, got>>

Truncated == \E l \in Lists : got[l] = "truncated"
Failed == \E l \in Lists : got[l] \in Nothing

\* Faulty: only a pass without network counts as cut off.
deadlineCutOffLate == Failed /\ expired /\ mode = "cacheOnly"

deadlineCutOff == Failed /\ expired /\ mode # "cacheOnly"
Rebuild == Truncated \/ deadlineCutOff

\* Faulty: the ladder is not descended.
NextPassSame == result' = "between" /\ UNCHANGED pass
NextPass == result' = "between" /\ pass' = pass + 1

EndPass ==
  /\ result = "running"
  /\ \A l \in Lists : got[l] # "pending"
  /\ \/ /\ aborted
        /\ result' = "aborted"
        /\ UNCHANGED pass
     \/ /\ ~aborted
        /\ Rebuild => pass = Len(passModes)
        /\ result' = "accepted"
        /\ UNCHANGED pass
     \/ /\ ~aborted
        /\ Rebuild
        /\ pass < Len(passModes)
        /\ NextPass
  /\ UNCHANGED <<cached, fresh, expired, aborted, mode, got>>

Returned == result \in {"accepted", "aborted", "error"} /\ UNCHANGED vars

Steps == BeginPass \/ BreakPass \/ EndPass \/ \E l \in Lists : ServeList(l)

Next == Expire \/ Abort \/ Steps \/ Returned

Spec == Init /\ [][Next]_vars

\* Streams end (FilterListStore, GetTerminates) and the loop runs on.
FairSpec == Spec /\ WF_vars(Steps)
-----------------------------------------------------------------------------
(* Properties *)

\* Every variable stays within its type.
TypeOK ==
  /\ cached \subseteq Lists
  /\ fresh \subseteq cached
  /\ expired \in BOOLEAN
  /\ aborted \in BOOLEAN
  /\ pass \in 1 .. Len(passModes)
  /\ mode \in {"default", "preferCache", "cacheOnly"}
  /\ got \in [Lists -> Outcomes]
  /\ result \in Results

\* The filter that is accepted holds no list whose stream broke half way:
\* truncation always leads to another pass and the last pass cannot be
\* truncated, so the branch that accepts it is the insurance its comment says it
\* is.  Lists that AddURL itself cuts, at a line that is too long or at the cap
\* on the size, are accepted: another pass would cut them at the same place.
AcceptedNotTruncated == result = "accepted" => ~Truncated

\* A list that has a copy in the cache is in the accepted filter, even if the
\* deadline cut it off before the copy was consulted: the passes recover it.
\* Two lists are excepted: one whose copy cannot be read, and one whose server
\* has answered with an empty body, for which no pass goes back to the copy.
CachedListsServed ==
  result = "accepted" =>
    \A l \in cached : got[l] \in Served \cup {"empty", "unread"}

\* The build comes to an end.
BuildReturns == <>(result \in {"accepted", "aborted", "error"})
=============================================================================
