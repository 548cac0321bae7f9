-------------------------- MODULE BuildPasses_proofs --------------------------
(***************************************************************************)
(* Proofs about BuildPasses, for any set of lists, finite or not.          *)
(*                                                                         *)
(* A stream breaks only where it is not read from memory, and a filter is  *)
(* accepted with something left to rebuild only in the last pass, in which *)
(* every stream is.                                                        *)
(***************************************************************************)
EXTENDS BuildPasses, TLAPS

\* The last pass reads from the cache alone.
LastPassOffline ==
  result \in {"running", "accepted"} /\ pass = 3 => mode = "cacheOnly"

\* Without network no stream breaks, and a list with a copy that can be read
\* does not fail.
OfflineServesCopies ==
  mode = "cacheOnly" =>
    \A l \in Lists : /\ got[l] # "truncated"
                     /\ got[l] = "failed" => l \notin cached

\* A list with a copy fails only because the context has ended.
CutOffOnly ==
  result \in {"running", "accepted"} =>
    \A l \in Lists : got[l] = "failed" /\ l \in cached => Ended

\* What runBuildPasses knows of the pass it accepts.
AcceptedPass ==
  result = "accepted" =>
    /\ ~aborted
    /\ \A l \in Lists : got[l] # "pending"
    /\ Rebuild => pass = 3

IInv ==
  /\ TypeOK
  /\ LastPassOffline
  /\ OfflineServesCopies
  /\ CutOffOnly
  /\ AcceptedPass
-----------------------------------------------------------------------------
\* The ladder has three passes and ends without network.
LEMMA Ladder ==
  /\ Len(passModes) = 3
  /\ passModes[1] = "default"
  /\ passModes[2] = "preferCache"
  /\ passModes[3] = "cacheOnly"
  BY DEF passModes

\* What serving one stream leaves behind: only its own outcome changes, only
\* its own copy can be new, and then the stream was served.
LEMMA OneStream ==
  ASSUME TypeOK, NEW l \in Lists, ServeList(l)
  PROVE  \E o \in Outcomes \ {"pending"} :
           /\ got' = [got EXCEPT ![l] = o]
           /\ cached \subseteq cached' /\ cached' \subseteq cached \cup {l}
           /\ fresh' \subseteq cached'
           /\ o \notin Served => cached' = cached
           /\ o = "truncated" => mode # "cacheOnly"
           /\ o = "failed" /\ l \in cached => Ended /\ mode # "cacheOnly"
<1>1. CASE ReadCache(l)
  <2>1. PICK o \in Served : got' = [got EXCEPT ![l] = o]
    BY <1>1 DEF ReadCache
  <2>2. o \in Outcomes \ {"pending"}
    BY <2>1 DEF Outcomes, Served, Nothing
  <2>3. QED
    BY <1>1, <2>1, <2>2 DEF ReadCache, TypeOK, Served
<1>2. CASE Download(l)
  <2>1. PICK o \in Served : got' = [got EXCEPT ![l] = o]
    BY <1>2 DEF Download
  <2>2. o \in Outcomes \ {"pending"}
    BY <2>1 DEF Outcomes, Served, Nothing
  <2>3. QED
    BY <1>2, <2>1, <2>2 DEF Download, TypeOK, Served
<1>3. CASE ServeStale(l)
  <2>1. PICK o \in Served : got' = [got EXCEPT ![l] = o]
    BY <1>3 DEF ServeStale
  <2>2. o \in Outcomes \ {"pending"}
    BY <2>1 DEF Outcomes, Served, Nothing
  <2>3. QED
    BY <1>3, <2>1, <2>2 DEF ServeStale, TypeOK, Served
<1>4. CASE Truncate(l)
  <2>1. "truncated" \in Outcomes \ {"pending"} /\ "truncated" \notin Served
    BY DEF Outcomes, Served, Nothing
  <2>2. got' = [got EXCEPT ![l] = "truncated"] /\ cached' = cached /\ fresh' = fresh
        /\ mode # "cacheOnly"
    BY <1>4 DEF Truncate, UsesNetwork
  <2>3. QED
    BY <2>1, <2>2 DEF TypeOK
<1>5. CASE Fail(l)
  BY <1>5 DEF Fail, UsesNetwork, FromCache, TypeOK, Outcomes, Nothing, Served
<1>6. CASE DownloadEmpty(l)
  <2>1. "empty" \in Outcomes \ {"pending"} /\ "empty" \notin Served
    BY DEF Outcomes, Served, Nothing
  <2>2. got' = [got EXCEPT ![l] = "empty"] /\ cached' = cached /\ fresh' = fresh
    BY <1>6 DEF DownloadEmpty
  <2>3. QED
    BY <2>1, <2>2 DEF TypeOK
<1>7. CASE FailUnread(l)
  <2>1. "unread" \in Outcomes \ {"pending"} /\ "unread" \notin Served
    BY DEF Outcomes, Served, Nothing
  <2>2. got' = [got EXCEPT ![l] = "unread"] /\ cached' = cached /\ fresh' = fresh
    BY <1>7 DEF FailUnread
  <2>3. QED
    BY <2>1, <2>2 DEF TypeOK
<1>8. QED
  BY <1>1, <1>2, <1>3, <1>4, <1>5, <1>6, <1>7 DEF ServeList

LEMMA Starts == Init => IInv
<1> SUFFICES ASSUME Init PROVE IInv
  OBVIOUS
<1>1. TypeOK
  <2>1. cached \subseteq Lists /\ fresh \subseteq cached
    BY DEF Init
  <2>2. pass \in 1 .. Len(passModes)
    BY Ladder DEF Init
  <2>3. got \in [Lists -> Outcomes] /\ result \in Results
    BY DEF Init, Outcomes, Results
  <2>4. QED
    BY <2>1, <2>2, <2>3 DEF Init, TypeOK
<1>2. LastPassOffline /\ OfflineServesCopies /\ CutOffOnly /\ AcceptedPass
  BY DEF Init, LastPassOffline, OfflineServesCopies, CutOffOnly, AcceptedPass
<1>3. QED
  BY <1>1, <1>2 DEF IInv

LEMMA ServeListStep ==
  ASSUME IInv, NEW l \in Lists, ServeList(l)
  PROVE  IInv'
<1>1. TypeOK /\ UNCHANGED <<expired, aborted, pass, mode, result>>
      /\ result = "running"
  BY DEF IInv, ServeList
<1>2. PICK o \in Outcomes \ {"pending"} :
        /\ got' = [got EXCEPT ![l] = o]
        /\ cached \subseteq cached' /\ cached' \subseteq cached \cup {l}
        /\ fresh' \subseteq cached'
        /\ o \notin Served => cached' = cached
        /\ o = "truncated" => mode # "cacheOnly"
        /\ o = "failed" /\ l \in cached => Ended /\ mode # "cacheOnly"
  BY <1>1, OneStream
<1>3. /\ got'[l] = o
      /\ \A m \in Lists \ {l} : got'[m] = got[m] /\ (m \in cached' <=> m \in cached)
  BY <1>1, <1>2 DEF TypeOK
<1>4. TypeOK'
  BY <1>1, <1>2 DEF TypeOK, Outcomes
<1>5. LastPassOffline'
  BY <1>1 DEF IInv, LastPassOffline
<1>6. OfflineServesCopies'
  BY <1>1, <1>2, <1>3 DEF IInv, OfflineServesCopies, Served
<1>7. CutOffOnly'
  BY <1>1, <1>2, <1>3 DEF IInv, CutOffOnly, Ended, Served
<1>8. AcceptedPass'
  BY <1>1 DEF AcceptedPass
<1>9. QED
  BY <1>4, <1>5, <1>6, <1>7, <1>8 DEF IInv

LEMMA BeginPassStep ==
  ASSUME IInv, BeginPass
  PROVE  IInv'
<1>1. CASE aborted
  BY <1>1 DEF BeginPass, IInv, TypeOK, Results, LastPassOffline,
     OfflineServesCopies, CutOffOnly, AcceptedPass
<1>2. CASE ~aborted
  <2>1. TypeOK'
    BY <1>2, Ladder DEF BeginPass, IInv, TypeOK, Results, Outcomes
  <2>2. LastPassOffline'
    BY <1>2, Ladder DEF BeginPass, LastPassOffline
  <2>3. \A l \in Lists : got'[l] = "pending"
    BY <1>2 DEF BeginPass
  <2>4. OfflineServesCopies' /\ CutOffOnly'
    BY <2>3 DEF OfflineServesCopies, CutOffOnly
  <2>5. AcceptedPass'
    BY <1>2 DEF BeginPass, AcceptedPass
  <2>6. QED
    BY <2>1, <2>2, <2>4, <2>5 DEF IInv
<1>3. QED
  BY <1>1, <1>2

LEMMA EndPassStep ==
  ASSUME IInv, EndPass
  PROVE  IInv'
<1>1. TypeOK'
  BY Ladder DEF EndPass, NextPass, IInv, TypeOK, Results
<1>2. LastPassOffline'
  BY DEF EndPass, NextPass, IInv, LastPassOffline
<1>3. OfflineServesCopies'
  BY DEF EndPass, IInv, OfflineServesCopies
<1>4. CutOffOnly'
  BY DEF EndPass, NextPass, IInv, CutOffOnly, Ended
<1>5. AcceptedPass'
  BY Ladder DEF EndPass, NextPass, AcceptedPass, Rebuild, Truncated,
     deadlineCutOff, Failed
<1>6. QED
  BY <1>1, <1>2, <1>3, <1>4, <1>5 DEF IInv

LEMMA Inductive == IInv /\ [Next]_vars => IInv'
<1> SUFFICES ASSUME IInv, [Next]_vars PROVE IInv'
  OBVIOUS
<1> USE DEF IInv
<1>1. CASE Expire
  BY <1>1 DEF Expire, TypeOK, LastPassOffline, OfflineServesCopies,
     CutOffOnly, AcceptedPass, Ended
<1>2. CASE Abort
  BY <1>2 DEF Abort, TypeOK, LastPassOffline, OfflineServesCopies,
     CutOffOnly, AcceptedPass, Ended
<1>3. CASE BeginPass
  BY <1>3, BeginPassStep
<1>4. CASE BreakPass
  BY <1>4 DEF BreakPass, TypeOK, Results, LastPassOffline,
     OfflineServesCopies, CutOffOnly, AcceptedPass
<1>5. CASE EndPass
  BY <1>5, EndPassStep
<1>6. ASSUME NEW l \in Lists, ServeList(l) PROVE IInv'
  BY <1>6, ServeListStep
<1>7. CASE UNCHANGED vars
  BY <1>7 DEF vars, TypeOK, LastPassOffline, OfflineServesCopies,
     CutOffOnly, AcceptedPass, Ended, Rebuild, Truncated, Failed,
     deadlineCutOff
<1>8. QED
  BY <1>1, <1>2, <1>3, <1>4, <1>5, <1>6, <1>7 DEF Next, Steps, Returned

LEMMA Invariance == Spec => []IInv
  BY Starts, Inductive, PTL DEF Spec
-----------------------------------------------------------------------------
\* Every variable stays within its type: in particular the ladder is never
\* descended past its last pass.
THEOREM TypeCorrect == Spec => []TypeOK
<1>1. IInv => TypeOK
  BY DEF IInv
<1>2. QED
  BY <1>1, Invariance, PTL

\* runBuildPasses never accepts a filter with a list whose stream broke half
\* way: a pass in which one did is followed by another, and the last pass reads
\* from memory.  (Lists that the parser cuts by design do not break.)
THEOREM NoBrokenStreams == Spec => []AcceptedNotTruncated
<1>1. IInv => AcceptedNotTruncated
  BY DEF IInv, AcceptedNotTruncated, AcceptedPass, Rebuild, LastPassOffline,
     OfflineServesCopies, Truncated
<1>2. QED
  BY <1>1, Invariance, PTL

\* A list with a copy in the cache is served in the filter that is accepted,
\* however the deadline fell: had it failed, the pass was cut off and another
\* followed, or the pass was the last one and needed no network.  What remains
\* is an empty body in place of the list, and a copy that cannot be read.
THEOREM CopiesServed == Spec => []CachedListsServed
<1>1. ASSUME IInv, result = "accepted", NEW l \in cached
      PROVE  got[l] \in Served \cup {"empty", "unread"}
  <2>1. l \in Lists /\ got[l] \in Outcomes /\ got[l] # "pending" /\ ~aborted
    BY <1>1 DEF IInv, TypeOK, AcceptedPass
  <2>2. got[l] # "truncated"
    BY <1>1, <2>1 DEF IInv, AcceptedPass, Rebuild, LastPassOffline,
       OfflineServesCopies, Truncated
  <2>3. got[l] # "failed"
    <3>1. SUFFICES ASSUME got[l] = "failed" PROVE FALSE
      OBVIOUS
    <3>2. expired
      BY <1>1, <2>1, <3>1 DEF IInv, CutOffOnly, Ended
    <3>3. mode # "cacheOnly"
      BY <1>1, <2>1, <3>1 DEF IInv, OfflineServesCopies
    <3>4. Rebuild
      BY <2>1, <3>1, <3>2, <3>3 DEF Rebuild, deadlineCutOff, Failed, Nothing
    <3>5. QED
      BY <1>1, <3>3, <3>4 DEF IInv, AcceptedPass, LastPassOffline
  <2>4. QED
    BY <2>1, <2>2, <2>3 DEF Outcomes, Nothing
<1>2. IInv => CachedListsServed
  BY <1>1 DEF CachedListsServed
<1>3. QED
  BY <1>2, Invariance, PTL
=============================================================================
