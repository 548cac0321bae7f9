---------------------------- MODULE Window_proofs ----------------------------
(***************************************************************************)
(* Machine-checked proofs about the window, for all texts, libraries,      *)
(* applications and urls, and any number of acts and events: its views     *)
(* catch up with what they show, and what is saved catches up with it.     *)
(***************************************************************************)
EXTENDS Window, SequenceTheorems, TLAPS

-----------------------------------------------------------------------------
(* The counters: types. *)

Counts == [install : Nat, served : Nat, hits : Nat]
Kinds == {"local", "filter", "stats"}
Answers == [done : BOOLEAN, value : Counts]

CountersTyped ==
  /\ view \in {"InjectionCounter", "LocalResourcesSummary"}
  /\ stats \in Counts /\ saved \in Counts
  /\ engineOn \in BOOLEAN /\ records \in Seq(Nat) /\ saves \in Seq(Counts)
  /\ resetting \in {"no", "zeroed", "emit", "answer", "failed"}
  /\ unsent \in Seq(Kinds) /\ news \in Seq(Kinds)
  /\ mounted \in BOOLEAN /\ seen \in Counts /\ delay \in BOOLEAN
  /\ loads \in Seq(Answers)
  /\ events \in 0 .. MaxEvents /\ stats.hits <= events
  /\ stale \in BOOLEAN /\ kept \in Counts
  /\ raced \in BOOLEAN /\ forgot \in BOOLEAN

\* What the view shows of v is as it is.
Current(v) ==
  /\ v.served = stats.served
  /\ view = "LocalResourcesSummary" => v.hits = stats.hits

\* The view does not look at every event.
Heeds(event) == view = "LocalResourcesSummary" \/ event # "filter"

\* Something will make the view load again.
Coming ==
  \/ resetting # "no" \/ delay
  \/ \E i \in DOMAIN unsent : Heeds(unsent[i])
  \/ \E i \in DOMAIN news : Heeds(news[i])

\* What it shows, or what the last load brings, is as it is, unless more is
\* to come.
Tracked ==
  mounted /\ ~stale =>
    \/ Coming
    \/ loads = <<>> /\ Current(seen)
    \/ /\ loads # <<>>
       /\ ~loads[Len(loads)].done \/ Current(loads[Len(loads)].value)

AtMost(v, w) == v.install <= w.install /\ v.served <= w.served /\ v.hits <= w.hits

\* v is what a stopped proxy may leave in config.json.
Right(v) ==
  /\ kept.served <= v.served /\ v.served <= stats.served
  /\ kept.hits <= v.hits /\ v.hits <= stats.hits
  /\ ~forgot => kept.install <= v.install /\ v.install <= stats.install

\* A snapshot that was taken since the proxy stopped.
Since(v) == v = None \/ (AtMost(kept, v) /\ AtMost(v, stats))

\* Since the proxy has stopped every save holds what was counted before, and so
\* does what the last of them wrote; a reset that has zeroed the counters finds
\* none under way, or has raced.
LastSave ==
  ~engineOn /\ ~raced =>
    /\ AtMost(kept, stats)
    /\ resetting = "zeroed" => saves # <<>> \/ (kept.served = 0 /\ kept.hits = 0)
    /\ resetting # "zeroed" =>
         /\ \A i \in DOMAIN saves : Since(saves[i])
         /\ saves = <<>> => Right(saved)

CountersInv == CountersTyped /\ Tracked /\ LastSave
-----------------------------------------------------------------------------
(* Sequences. *)

LEMMA RemoveAtFacts ==
  ASSUME NEW S, NEW s \in Seq(S), NEW i \in DOMAIN s
  PROVE  /\ RemoveAt(s, i) \in Seq(S)
         /\ Len(RemoveAt(s, i)) = Len(s) - 1
         /\ \A j \in 1 .. Len(s) - 1 :
              RemoveAt(s, i)[j] = IF j < i THEN s[j] ELSE s[j + 1]
<1> DEFINE a == SubSeq(s, 1, i - 1)
           b == SubSeq(s, i + 1, Len(s))
<1>1. Len(s) \in Nat /\ i \in 1 .. Len(s) /\ \A j \in 1 .. Len(s) : s[j] \in S
  <2>1. Len(s) \in Nat /\ DOMAIN s = 1 .. Len(s)
    BY LenProperties
  <2>2. \A j \in 1 .. Len(s) : s[j] \in S
    BY ElementOfSeq
  <2>3. QED
    BY <2>1, <2>2
<1>2. /\ a \in Seq(S) /\ Len(a) = i - 1
      /\ \A j \in 1 .. i - 1 : a[j] = s[j]
  BY <1>1, SubSeqProperties
<1>3. /\ b \in Seq(S) /\ Len(b) = Len(s) - i
      /\ \A j \in 1 .. Len(s) - i : b[j] = s[i + j]
  BY <1>1, SubSeqProperties
<1> HIDE DEF a, b
<1>4. /\ a \o b \in Seq(S)
      /\ Len(a \o b) = Len(a) + Len(b)
      /\ \A j \in 1 .. Len(a) + Len(b) :
           (a \o b)[j] = IF j <= Len(a) THEN a[j] ELSE b[j - Len(a)]
  BY <1>2, <1>3, ConcatProperties
<1>5. RemoveAt(s, i) = a \o b
  BY DEF RemoveAt, a, b
<1>6. ASSUME NEW j \in 1 .. Len(s) - 1
      PROVE  (a \o b)[j] = IF j < i THEN s[j] ELSE s[j + 1]
  <2>1. CASE j < i
    <3>1. j \in 1 .. i - 1 /\ j <= Len(a) /\ j \in 1 .. Len(a) + Len(b)
      BY <1>1, <1>2, <1>3, <2>1
    <3>2. QED
      BY <1>2, <1>4, <2>1, <3>1
  <2>2. CASE ~(j < i)
    <3>1. /\ ~(j <= Len(a)) /\ j \in 1 .. Len(a) + Len(b)
          /\ j - Len(a) \in 1 .. Len(s) - i /\ i + (j - Len(a)) = j + 1
      BY <1>1, <1>2, <1>3, <2>2
    <3>2. QED
      BY <1>3, <1>4, <2>2, <3>1
  <2>3. QED
    BY <2>1, <2>2
<1>7. Len(a \o b) = Len(s) - 1
  BY <1>1, <1>2, <1>3, <1>4
<1>8. QED
  BY <1>4, <1>5, <1>6, <1>7

LEMMA AppendFacts ==
  ASSUME NEW S, NEW s \in Seq(S), NEW e \in S
  PROVE  /\ Append(s, e) \in Seq(S) /\ Append(s, e) # <<>>
         /\ Len(Append(s, e)) = Len(s) + 1
         /\ \A j \in 1 .. Len(s) : Append(s, e)[j] = s[j]
         /\ Append(s, e)[Len(s) + 1] = e
BY AppendProperties
\* Where the element at q is after that at i has been removed.
After(i, q) == IF q < i THEN q ELSE q - 1

LEMMA AppendShape ==
  ASSUME NEW S, NEW s \in Seq(S), NEW e \in S
  PROVE  /\ Append(s, e) \in Seq(S)
         /\ Len(s) + 1 \in DOMAIN Append(s, e) /\ Append(s, e)[Len(s) + 1] = e
         /\ \A q \in DOMAIN s : /\ q \in DOMAIN Append(s, e) /\ Append(s, e)[q] = s[q]
                                /\ q < Len(s) + 1
         /\ \A p \in DOMAIN Append(s, e) : p \in DOMAIN s \/ p = Len(s) + 1
<1>1. DOMAIN s = 1 .. Len(s) /\ Len(s) \in Nat
  BY LenProperties
<1>2. Append(s, e) \in Seq(S) /\ Len(Append(s, e)) = Len(s) + 1
  BY AppendFacts
<1>3. DOMAIN Append(s, e) = 1 .. Len(s) + 1
  BY <1>2, LenProperties
<1>4. QED
  BY <1>1, <1>2, <1>3, AppendFacts

LEMMA ExceptShape ==
  ASSUME NEW S, NEW s \in Seq(S), NEW i \in DOMAIN s, NEW e \in S
  PROVE  /\ [s EXCEPT ![i] = e] \in Seq(S)
         /\ DOMAIN [s EXCEPT ![i] = e] = DOMAIN s
         /\ [s EXCEPT ![i] = e][i] = e
         /\ \A q \in DOMAIN s : q # i => [s EXCEPT ![i] = e][q] = s[q]
<1>1. DOMAIN s = 1 .. Len(s)
  BY LenProperties
<1>2. QED
  BY <1>1, ExceptSeq

LEMMA RemoveShape ==
  ASSUME NEW S, NEW s \in Seq(S), NEW i \in DOMAIN s, NEW e \in S, NEW t,
         t \in {RemoveAt(s, i), Append(RemoveAt(s, i), e)}
  PROVE  /\ t \in Seq(S)
         /\ \A q \in DOMAIN s : q # i =>
              After(i, q) \in DOMAIN t /\ t[After(i, q)] = s[q] /\ After(i, q) < Len(s)
         /\ \A p \in DOMAIN t :
              \/ \E q \in DOMAIN s : q # i /\ p = After(i, q)
              \/ p = Len(s) /\ t = Append(RemoveAt(s, i), e) /\ t[p] = e
         /\ t = Append(RemoveAt(s, i), e) => Len(s) \in DOMAIN t /\ t[Len(s)] = e
         /\ RemoveAt(s, i) # Append(RemoveAt(s, i), e)
         /\ \A q, r \in DOMAIN s : q # i /\ r # i => (After(i, q) < After(i, r) <=> q < r)
<1> DEFINE n == Len(s)
           u == RemoveAt(s, i)
<1>1. DOMAIN s = 1 .. n /\ n \in Nat /\ i \in 1 .. n
  BY LenProperties
<1>2. /\ u \in Seq(S) /\ Len(u) = n - 1
      /\ \A j \in 1 .. n - 1 : u[j] = IF j < i THEN s[j] ELSE s[j + 1]
  BY RemoveAtFacts
<1>3. DOMAIN u = 1 .. n - 1
  BY <1>2, LenProperties
<1>4. /\ Append(u, e) \in Seq(S) /\ n \in DOMAIN Append(u, e) /\ Append(u, e)[n] = e
      /\ \A j \in 1 .. n - 1 : j \in DOMAIN Append(u, e) /\ Append(u, e)[j] = u[j]
      /\ \A j \in DOMAIN Append(u, e) : j \in 1 .. n - 1 \/ j = n
  <2>1. Len(u) + 1 = n
    BY <1>1, <1>2
  <2>2. QED
    BY <1>2, <1>3, <2>1, AppendShape
<1> HIDE DEF n, u
<1>5. /\ t \in Seq(S)
      /\ \A j \in 1 .. n - 1 : j \in DOMAIN t /\ t[j] = u[j]
      /\ \A j \in DOMAIN t : j \in 1 .. n - 1 \/ (j = n /\ t = Append(u, e))
  BY <1>2, <1>3, <1>4 DEF u
<1>6. ASSUME NEW q \in 1 .. n, q # i
      PROVE  /\ After(i, q) \in 1 .. n - 1
             /\ u[After(i, q)] = s[q]
  <2>1. CASE q < i
    <3>1. q \in 1 .. n - 1
      BY <1>1, <2>1
    <3>2. QED
      BY <1>2, <2>1, <3>1 DEF After
  <2>2. CASE ~(q < i)
    <3>1. q - 1 \in 1 .. n - 1 /\ ~(q - 1 < i) /\ (q - 1) + 1 = q
      BY <1>1, <1>6, <2>2
    <3>2. QED
      BY <1>2, <2>2, <3>1 DEF After
  <2>3. QED
    BY <2>1, <2>2
<1>7. ASSUME NEW p \in 1 .. n - 1
      PROVE  \E q \in 1 .. n : q # i /\ p = After(i, q)
  <2>1. CASE p < i
    BY <1>1, <2>1 DEF After
  <2>2. CASE ~(p < i)
    <3>1. p + 1 \in 1 .. n /\ p + 1 # i /\ After(i, p + 1) = p
      BY <1>1, <2>2 DEF After
    <3>2. QED
      BY <3>1
  <2>3. QED
    BY <2>1, <2>2
<1>8. ASSUME NEW q \in 1 .. n, NEW r \in 1 .. n, q # i, r # i
      PROVE  After(i, q) < After(i, r) <=> q < r
  BY <1>1, <1>8 DEF After
<1>9. \A q \in DOMAIN s : q # i =>
        After(i, q) \in DOMAIN t /\ t[After(i, q)] = s[q] /\ After(i, q) < n
  <2>1. \A j \in 1 .. n - 1 : j < n
    BY <1>1
  <2>2. QED
    BY <1>1, <1>5, <1>6, <2>1
<1>10. \A p \in DOMAIN t :
         \/ \E q \in DOMAIN s : q # i /\ p = After(i, q)
         \/ p = n /\ t = Append(u, e) /\ t[p] = e
  BY <1>1, <1>4, <1>5, <1>7
<1>11. t = Append(u, e) => n \in DOMAIN t /\ t[n] = e
  BY <1>4
<1>12. u # Append(u, e)
  <2>1. ~(n \in 1 .. n - 1)
    BY <1>1
  <2>2. QED
    BY <1>3, <1>4, <2>1
<1>13. QED
  BY <1>1, <1>5, <1>8, <1>9, <1>10, <1>11, <1>12 DEF n, u
-----------------------------------------------------------------------------
(* The counters: what the steps do. *)

LEMMA CountersValues ==
  /\ MaxEvents \in Nat /\ StatsSaveInterval \in Nat
  /\ Zero \in Counts /\ None \in Counts
  /\ Zero.served = 0 /\ Zero.hits = 0 /\ None # Zero
BY CountersAssumption DEF Zero, None, Counts

LEMMA CountersNumbers ==
  ASSUME CountersTyped
  PROVE  stats.hits \in Nat /\ events \in Nat /\ stats.hits <= events
BY CountersValues DEF CountersTyped, Counts

LEMMA RecordEffect ==
  ASSUME CountersTyped, Record
  PROVE  /\ events' = events + 1 /\ events' \in 0 .. MaxEvents
         /\ stats' \in Counts /\ stats'.hits = stats.hits /\ AtMost(stats, stats')
         /\ records' \in Seq(Nat) /\ saves' \in Seq(Counts)
         /\ saves' = saves \/ saves' = Append(saves, None)
         /\ unsent' = Append(unsent, "local") /\ unsent' \in Seq(Kinds)
         /\ UNCHANGED <<view, saved, engineOn, resetting, news, kept, raced, forgot,
                        windowOfCounters>>
<1>1. stats' = [stats EXCEPT !.install = @ + 1, !.served = @ + 1]
  BY DEF Record
<1>2. stats' \in Counts /\ stats'.hits = stats.hits /\ AtMost(stats, stats')
  <2>1. /\ stats \in Counts /\ stats.install \in Nat /\ stats.served \in Nat
        /\ stats.hits \in Nat
    BY DEF CountersTyped, Counts
  <2>2. stats.install + 1 \in Nat /\ stats.served + 1 \in Nat
    BY <2>1
  <2>3. stats' = [stats EXCEPT !.install = stats.install + 1,
                               !.served = stats.served + 1]
    BY <1>1, <2>1 DEF Counts
  <2>4. /\ stats'.install = stats.install + 1 /\ stats'.served = stats.served + 1
        /\ stats'.hits = stats.hits
    BY <2>1, <2>3 DEF Counts
  <2>5. AtMost(stats, stats')
    BY <2>1, <2>4 DEF AtMost
  <2>6. QED
    BY <2>1, <2>2, <2>3, <2>5 DEF Counts
<1>3. Append(saves, None) \in Seq(Counts) /\ Append(unsent, "local") \in Seq(Kinds)
  BY CountersValues, AppendFacts DEF CountersTyped, Kinds
<1>4. /\ saves' \in Seq(Counts) /\ records' \in Seq(Nat)
      /\ saves' = saves \/ saves' = Append(saves, None)
  <2>1. PICK e \in DOMAIN records :
          /\ records' = [records EXCEPT ![e] = records[e] + 1]
          /\ saves' = IF (records[e] + 1) % StatsSaveInterval = 0
                      THEN Append(saves, None) ELSE saves
    BY DEF Record
  <2>2. records \in Seq(Nat) /\ e \in 1 .. Len(records)
    BY LenProperties DEF CountersTyped
  <2>3. records[e] \in Nat
    BY <2>2, ElementOfSeq
  <2>4. records[e] + 1 \in Nat
    BY <2>3
  <2>5. records' \in Seq(Nat)
    BY <2>1, <2>2, <2>4, ExceptSeq
  <2>6. saves' = saves \/ saves' = Append(saves, None)
    BY <2>1
  <2>7. QED
    BY <1>3, <2>5, <2>6 DEF CountersTyped
<1>5. events' = events + 1 /\ events' \in 0 .. MaxEvents
  BY CountersValues DEF Record, Happen, CountersTyped
<1>6. /\ unsent' = Append(unsent, "local")
      /\ UNCHANGED <<view, saved, engineOn, resetting, news, kept, raced, forgot,
                     windowOfCounters>>
  BY DEF Record
<1>7. QED
  BY <1>2, <1>3, <1>4, <1>5, <1>6

LEMMA HitEffect ==
  ASSUME CountersTyped, RecordFilterHit
  PROVE  /\ events' = events + 1 /\ events' \in 0 .. MaxEvents
         /\ stats' \in Counts /\ stats'.served = stats.served
         /\ stats'.hits = stats.hits + 1 /\ AtMost(stats, stats')
         /\ unsent' = Append(unsent, "filter") /\ unsent' \in Seq(Kinds)
         /\ UNCHANGED <<view, saved, engineOn, records, saves, resetting, news,
                        kept, raced, forgot, windowOfCounters>>
<1>1. stats' = [stats EXCEPT !.hits = @ + 1]
  BY DEF RecordFilterHit
<1>2. /\ stats' \in Counts /\ stats'.served = stats.served
      /\ stats'.hits = stats.hits + 1 /\ AtMost(stats, stats')
  <2>1. /\ stats \in Counts /\ stats.hits \in Nat
        /\ stats.install \in Nat /\ stats.served \in Nat
    BY DEF CountersTyped, Counts
  <2>2. stats.hits + 1 \in Nat
    BY <2>1
  <2>3. stats' = [stats EXCEPT !.hits = stats.hits + 1]
    BY <1>1, <2>1 DEF Counts
  <2>4. /\ stats'.install = stats.install /\ stats'.served = stats.served
        /\ stats'.hits = stats.hits + 1
    BY <2>1, <2>3 DEF Counts
  <2>5. AtMost(stats, stats')
    BY <2>1, <2>4 DEF AtMost
  <2>6. QED
    BY <2>1, <2>2, <2>3, <2>4, <2>5 DEF Counts
<1>3. Append(unsent, "filter") \in Seq(Kinds)
  BY AppendFacts DEF CountersTyped, Kinds
<1>4. QED
  BY <1>2, <1>3, CountersValues DEF RecordFilterHit, Happen, CountersTyped

LEMMA EmitEffect ==
  ASSUME CountersTyped, EmitFilterAction
  PROVE  /\ unsent' \in Seq(Kinds) /\ news' \in Seq(Kinds)
         /\ \A i \in DOMAIN unsent : \/ \E j \in DOMAIN unsent' : unsent'[j] = unsent[i]
                                     \/ \E j \in DOMAIN news' : news'[j] = unsent[i]
         /\ \A i \in DOMAIN news : i \in DOMAIN news' /\ news'[i] = news[i]
         /\ UNCHANGED <<view, stats, saved, engineOn, records, saves, resetting,
                        events, kept, raced, forgot, windowOfCounters>>
<1>1. PICK i \in DOMAIN unsent :
        unsent' = RemoveAt(unsent, i) /\ news' = Append(news, unsent[i])
  BY DEF EmitFilterAction
<1>2. /\ unsent \in Seq(Kinds) /\ news \in Seq(Kinds) /\ unsent[i] \in Kinds
      /\ DOMAIN unsent = 1 .. Len(unsent) /\ DOMAIN news = 1 .. Len(news)
      /\ Len(unsent) \in Nat /\ Len(news) \in Nat
  BY LenProperties, ElementOfSeq DEF CountersTyped
<1>3. /\ unsent' \in Seq(Kinds) /\ Len(unsent') = Len(unsent) - 1
      /\ \A j \in 1 .. Len(unsent) - 1 :
           unsent'[j] = IF j < i THEN unsent[j] ELSE unsent[j + 1]
  BY <1>1, <1>2, RemoveAtFacts
<1>4. /\ news' \in Seq(Kinds) /\ Len(news') = Len(news) + 1
      /\ \A j \in 1 .. Len(news) : news'[j] = news[j]
      /\ news'[Len(news) + 1] = unsent[i]
  BY <1>1, <1>2, AppendFacts
<1>5. /\ DOMAIN unsent' = 1 .. Len(unsent) - 1
      /\ DOMAIN news' = 1 .. Len(news) + 1
  BY <1>3, <1>4, LenProperties
<1>6. ASSUME NEW k \in DOMAIN unsent
      PROVE  \/ \E j \in DOMAIN unsent' : unsent'[j] = unsent[k]
             \/ \E j \in DOMAIN news' : news'[j] = unsent[k]
  <2>1. CASE k = i
    <3>1. Len(news) + 1 \in DOMAIN news'
      BY <1>2, <1>5
    <3>2. QED
      BY <1>4, <2>1, <3>1
  <2>2. CASE k < i
    <3>1. k \in 1 .. Len(unsent) - 1
      BY <1>2, <2>2
    <3>2. QED
      BY <1>3, <1>5, <2>2, <3>1
  <2>3. CASE k > i
    <3>1. k - 1 \in 1 .. Len(unsent) - 1 /\ ~(k - 1 < i) /\ (k - 1) + 1 = k
      BY <1>2, <2>3
    <3>2. unsent'[k - 1] = unsent[k]
      BY <1>3, <3>1
    <3>3. QED
      BY <1>5, <3>1, <3>2
  <2>4. QED
    BY <1>2, <2>1, <2>2, <2>3
<1>7. \A k \in DOMAIN news : k \in DOMAIN news' /\ news'[k] = news[k]
  BY <1>2, <1>4, <1>5
<1>8. UNCHANGED <<view, stats, saved, engineOn, records, saves, resetting, events,
                  kept, raced, forgot, windowOfCounters>>
  BY DEF EmitFilterAction
<1>9. QED
  BY <1>3, <1>4, <1>6, <1>7, <1>8

LEMMA SaveEffect ==
  ASSUME CountersTyped, SaveStatsNow
  PROVE  /\ saves' \in Seq(Counts) /\ saved' \in Counts
         /\ raced' \in BOOLEAN /\ forgot' \in BOOLEAN
         /\ \E i \in DOMAIN saves :
              \/ /\ saves[i] = None /\ saves' # <<>>
                 /\ \A j \in DOMAIN saves' :
                      j \in DOMAIN saves /\ saves'[j] \in {stats, saves[j]}
                 /\ forgot' = FALSE /\ UNCHANGED <<saved, raced>>
              \/ /\ saves[i] # None /\ saved' = saves[i]
                 /\ \A j \in DOMAIN saves' :
                      \E k \in DOMAIN saves : saves'[j] = saves[k]
                 /\ raced' = (raced \/ resetting = "zeroed") /\ UNCHANGED forgot
         /\ UNCHANGED <<view, stats, engineOn, records, resetting, unsent, news,
                        events, kept, windowOfCounters>>
<1>1. PICK i \in DOMAIN saves :
       \/ /\ saves[i] = None
          /\ saves' = [saves EXCEPT ![i] = stats] /\ forgot' = FALSE
          /\ UNCHANGED <<saved, raced>>
       \/ /\ saves[i] # None
          /\ saved' = saves[i] /\ saves' = RemoveAt(saves, i)
          /\ raced' = (raced \/ resetting = "zeroed") /\ UNCHANGED forgot
  BY DEF SaveStatsNow
<1>2. /\ saves \in Seq(Counts) /\ i \in 1 .. Len(saves) /\ saves[i] \in Counts
      /\ stats \in Counts /\ saved \in Counts
      /\ raced \in BOOLEAN /\ forgot \in BOOLEAN
  BY LenProperties, ElementOfSeq DEF CountersTyped
<1>3. CASE saves[i] = None
  <2>1. /\ [saves EXCEPT ![i] = stats] \in Seq(Counts)
        /\ DOMAIN [saves EXCEPT ![i] = stats] = DOMAIN saves
        /\ [saves EXCEPT ![i] = stats][i] = stats
        /\ \A q \in DOMAIN saves : q # i => [saves EXCEPT ![i] = stats][q] = saves[q]
    BY <1>2, ExceptShape
  <2>2. saves' = [saves EXCEPT ![i] = stats] /\ i \in DOMAIN saves'
    BY <1>1, <1>3, <2>1
  <2>3. saves' # <<>>
    BY <2>2
  <2>4. QED
    BY <1>1, <1>2, <1>3, <2>1, <2>2, <2>3 DEF SaveStatsNow
<1>4. CASE saves[i] # None
  <2>1. /\ RemoveAt(saves, i) \in Seq(Counts)
        /\ \A p \in DOMAIN RemoveAt(saves, i) :
             \E q \in DOMAIN saves : RemoveAt(saves, i)[p] = saves[q]
    <3> DEFINE t == RemoveAt(saves, i)
    <3>1. /\ t \in Seq(Counts) /\ t # Append(RemoveAt(saves, i), None)
          /\ \A q \in DOMAIN saves : q # i =>
               After(i, q) \in DOMAIN t /\ t[After(i, q)] = saves[q]
          /\ \A p \in DOMAIN t :
               \/ \E q \in DOMAIN saves : q # i /\ p = After(i, q)
               \/ p = Len(saves) /\ t = Append(RemoveAt(saves, i), None) /\ t[p] = None
      BY <1>1, <1>2, CountersValues, RemoveShape
    <3> HIDE DEF t
    <3>2. \A p \in DOMAIN t : \E q \in DOMAIN saves : t[p] = saves[q]
      BY <3>1 DEF t
    <3>3. QED
      BY <3>1, <3>2 DEF t
  <2>2. saves' = RemoveAt(saves, i)
    BY <1>1, <1>4
  <2>3. QED
    BY <1>1, <1>2, <1>4, <2>1, <2>2 DEF SaveStatsNow
<1>5. QED
  BY <1>3, <1>4

LEMMA ResetEffect ==
  ASSUME CountersTyped, ResetStats
  PROVE  /\ stats' \in Counts /\ saved' \in Counts /\ events' \in 0 .. MaxEvents
         /\ events <= events' /\ news' \in Seq(Kinds)
         /\ kept' \in Counts /\ raced' \in BOOLEAN /\ forgot' \in BOOLEAN
         /\ \/ /\ resetting = "no" /\ resetting' = "zeroed"
               /\ stats'.served = 0 /\ stats'.hits = 0 /\ stats'.install = stats.install
               /\ kept'.served = 0 /\ kept'.hits = 0 /\ kept'.install = kept.install
               /\ UNCHANGED <<saved, news, raced, forgot>>
            \/ /\ resetting = "zeroed" /\ resetting' \in {"emit", "failed"}
               /\ saved' = Zero /\ raced' = (raced \/ saves # <<>>) /\ forgot' = TRUE
               /\ UNCHANGED <<stats, news, kept>>
            \/ /\ resetting = "emit" /\ resetting' = "answer"
               /\ UNCHANGED <<stats, saved, kept, raced, forgot>>
         /\ UNCHANGED <<view, engineOn, records, saves, unsent, windowOfCounters>>
<1>1. /\ stats \in Counts /\ saved \in Counts /\ events \in 0 .. MaxEvents
      /\ news \in Seq(Kinds) /\ raced \in BOOLEAN /\ forgot \in BOOLEAN
      /\ kept \in Counts /\ MaxEvents \in Nat
  BY CountersValues DEF CountersTyped
<1>2. CASE /\ resetting = "no" /\ Happen
           /\ stats' = [stats EXCEPT !.served = 0, !.hits = 0]
           /\ kept' = [kept EXCEPT !.served = 0, !.hits = 0]
           /\ resetting' = "zeroed" /\ UNCHANGED <<saved, news, raced, forgot>>
  <2>1. /\ stats' \in Counts /\ stats'.served = 0 /\ stats'.hits = 0
        /\ stats'.install = stats.install
        /\ kept' \in Counts /\ kept'.served = 0 /\ kept'.hits = 0
        /\ kept'.install = kept.install
    BY <1>1, <1>2 DEF Counts
  <2>2. events' \in 0 .. MaxEvents /\ events <= events'
    BY <1>1, <1>2 DEF Happen
  <2>3. QED
    BY <1>1, <1>2, <2>1, <2>2 DEF ResetStats
<1>3. CASE /\ resetting = "zeroed" /\ UNCHANGED <<stats, news, events, kept>>
           /\ saved' = Zero /\ resetting' \in {"emit", "failed"}
           /\ raced' = (raced \/ saves # <<>>) /\ forgot' = TRUE
  BY <1>1, <1>3, CountersValues DEF ResetStats
<1>4. CASE /\ resetting = "emit" /\ resetting' = "answer"
           /\ news' = Append(news, "stats")
           /\ UNCHANGED <<stats, saved, events, kept, raced, forgot>>
  <2>1. Append(news, "stats") \in Seq(Kinds)
    BY <1>1, AppendFacts DEF Kinds
  <2>2. QED
    BY <1>1, <1>4, <2>1 DEF ResetStats
<1>5. QED
  BY <1>2, <1>3, <1>4 DEF ResetStats

\* A load is under way, and its answer will be of the moment it is made.
Loads ==
  /\ loads' \in Seq(Answers) /\ loads' # <<>>
  /\ loads'[Len(loads')].done = FALSE

LEMMA LoadEffect == CountersTyped /\ Load => Loads
<1> SUFFICES ASSUME CountersTyped, Load PROVE Loads
  OBVIOUS
<1> DEFINE l == [done |-> FALSE, value |-> Zero]
<1>1. l \in Answers /\ l.done = FALSE
  BY CountersValues DEF Answers
<1>2. loads \in Seq(Answers) /\ loads' = Append(loads, l)
  BY DEF CountersTyped, Load
<1> HIDE DEF l
<1>3. QED
  BY <1>1, <1>2, AppendFacts DEF Loads

LEMMA HearEffect ==
  ASSUME CountersTyped, HearEvent
  PROVE  /\ news' \in Seq(Kinds) /\ delay' \in BOOLEAN /\ loads' \in Seq(Answers)
         /\ \A i \in DOMAIN news : i = 1 \/ \E j \in DOMAIN news' : news'[j] = news[i]
         /\ mounted =>
              \/ Loads
              \/ delay' = TRUE
              \/ ~Heeds(news[1]) /\ UNCHANGED <<delay, loads>>
         /\ UNCHANGED <<view, stats, saved, engineOn, records, saves, resetting,
                        unsent, mounted, seen, events, stale, kept, raced,
                        forgot>>
<1>1. /\ news \in Seq(Kinds) /\ news # <<>> /\ news' = Tail(news)
      /\ loads \in Seq(Answers) /\ delay \in BOOLEAN
      /\ Len(news) \in Nat /\ DOMAIN news = 1 .. Len(news)
  BY LenProperties DEF CountersTyped, HearEvent
<1>2. /\ news' \in Seq(Kinds) /\ Len(news') = Len(news) - 1
      /\ \A i \in 1 .. Len(news') : news'[i] = news[i + 1]
  BY <1>1, HeadTailProperties
<1>3. DOMAIN news' = 1 .. Len(news) - 1
  BY <1>2, LenProperties
<1>4. ASSUME NEW i \in DOMAIN news
      PROVE  i = 1 \/ \E j \in DOMAIN news' : news'[j] = news[i]
  <2>1. CASE i # 1
    <3>1. i - 1 \in DOMAIN news' /\ news'[i - 1] = news[(i - 1) + 1] /\ (i - 1) + 1 = i
      BY <1>1, <1>2, <1>3, <2>1
    <3>2. QED
      BY <3>1
  <2>2. QED
    BY <2>1
<1>5. CASE ~mounted
  BY <1>1, <1>2, <1>4, <1>5 DEF HearEvent
<1>6. CASE mounted /\ view = "InjectionCounter" /\ CounterHears(news[1])
  BY <1>1, <1>2, <1>4, <1>6, LoadEffect DEF HearEvent, CounterHears, Heeds, Loads
<1>7. CASE mounted /\ view = "LocalResourcesSummary" /\ SummaryHears(news[1])
  BY <1>1, <1>2, <1>4, <1>7, LoadEffect DEF HearEvent, SummaryHears, ScheduleLoad, Loads
<1>8. QED
  BY <1>5, <1>6, <1>7 DEF HearEvent

\* A question is answered as things are, or an answer is shown.
LEMMA AnsweredEffect ==
  ASSUME CountersTyped, Answered
  PROVE  /\ loads # <<>> /\ loads' \in Seq(Answers) /\ seen' \in Counts
         /\ stale' \in BOOLEAN /\ (stale => stale')
         /\ \/ /\ UNCHANGED <<seen, stale>>
               /\ loads' # <<>>
               /\ \/ loads'[Len(loads')] = loads[Len(loads)]
                  \/ loads'[Len(loads')].value = stats
            \/ /\ loads' = <<>> /\ seen' = loads[Len(loads)].value
               /\ loads[Len(loads)].done
            \/ loads' # <<>> /\ loads'[Len(loads')] = loads[Len(loads)]
            \/ stale'
         /\ UNCHANGED <<view, stats, saved, engineOn, records, saves, resetting,
                        unsent, news, mounted, delay, events, kept, raced, forgot>>
<1>1. PICK i \in DOMAIN loads :
       \/ /\ ~loads[i].done
          /\ loads' = [loads EXCEPT ![i] = [done |-> TRUE, value |-> stats]]
          /\ UNCHANGED <<seen, stale>>
       \/ /\ loads[i].done
          /\ seen' = loads[i].value /\ loads' = RemoveAt(loads, i)
          /\ stale' = (stale \/ i > 1)
  BY DEF Answered
<1>2. /\ loads \in Seq(Answers) /\ i \in 1 .. Len(loads) /\ Len(loads) \in Nat
      /\ loads[i] \in Answers /\ loads[i].value \in Counts
      /\ stats \in Counts /\ seen \in Counts /\ stale \in BOOLEAN
  <2>1. /\ loads \in Seq(Answers) /\ stats \in Counts /\ seen \in Counts
        /\ stale \in BOOLEAN
    BY DEF CountersTyped
  <2>2. i \in 1 .. Len(loads) /\ Len(loads) \in Nat
    BY <2>1, LenProperties
  <2>3. loads[i] \in Answers
    BY <2>1, <2>2, ElementOfSeq
  <2>4. QED
    BY <2>1, <2>2, <2>3 DEF Answers
<1>3. /\ loads # <<>>
      /\ UNCHANGED <<view, stats, saved, engineOn, records, saves, resetting,
                     unsent, news, mounted, delay, events, kept, raced, forgot>>
  BY <1>2 DEF Answered
<1>4. CASE ~loads[i].done
  <2> DEFINE l == [done |-> TRUE, value |-> stats]
  <2>1. l \in Answers /\ l.value = stats
    BY <1>2 DEF Answers
  <2>2. loads' = [loads EXCEPT ![i] = l] /\ UNCHANGED <<seen, stale>>
    BY <1>1, <1>4
  <2> HIDE DEF l
  <2>3. /\ loads' \in Seq(Answers) /\ Len(loads') = Len(loads)
        /\ \A j \in 1 .. Len(loads) : loads'[j] = IF j = i THEN l ELSE loads[j]
    BY <1>2, <2>1, <2>2, ExceptSeq
  <2>4. Len(loads) \in 1 .. Len(loads)
    BY <1>2
  <2>5. loads' # <<>>
    BY <1>2, <2>3, EmptySeq
  <2>6. QED
    BY <1>2, <1>3, <2>1, <2>2, <2>3, <2>4, <2>5
<1>5. CASE loads[i].done
  <2>1. /\ seen' = loads[i].value /\ loads' = RemoveAt(loads, i)
        /\ stale' = (stale \/ i > 1)
    BY <1>1, <1>5
  <2>2. /\ loads' \in Seq(Answers) /\ Len(loads') = Len(loads) - 1
        /\ \A j \in 1 .. Len(loads) - 1 :
             loads'[j] = IF j < i THEN loads[j] ELSE loads[j + 1]
    BY <1>2, <2>1, RemoveAtFacts
  <2>3. CASE i > 1
    BY <1>2, <1>3, <2>1, <2>2, <2>3
  <2>4. CASE i = 1 /\ Len(loads) = 1
    <3>1. loads' = <<>>
      BY <2>2, <2>4, EmptySeq
    <3>2. QED
      BY <1>2, <1>3, <1>5, <2>1, <2>2, <2>4, <3>1
  <2>5. CASE i = 1 /\ Len(loads) > 1
    <3>1. Len(loads) - 1 \in 1 .. Len(loads) - 1 /\ ~(Len(loads) - 1 < i)
          /\ (Len(loads) - 1) + 1 = Len(loads)
      BY <1>2, <2>5
    <3>2. loads'[Len(loads')] = loads[Len(loads)]
      BY <2>2, <3>1
    <3>3. loads' # <<>>
      BY <1>2, <2>2, <2>5, EmptySeq
    <3>4. QED
      BY <1>2, <1>3, <2>1, <2>2, <3>2, <3>3
  <2>6. i > 1 \/ (i = 1 /\ Len(loads) = 1) \/ (i = 1 /\ Len(loads) > 1)
    <3> DEFINE n == Len(loads)
    <3>1. n \in Nat /\ i \in 1 .. n
      BY <1>2
    <3> HIDE DEF n
    <3>2. i > 1 \/ (i = 1 /\ n = 1) \/ (i = 1 /\ n > 1)
      BY <3>1
    <3>3. QED
      BY <3>2 DEF n
  <2>7. QED
    BY <2>3, <2>4, <2>5, <2>6
<1>6. QED
  BY <1>4, <1>5

LEMMA StopEffect ==
  ASSUME CountersTyped, StopEngine
  PROVE  /\ engineOn = TRUE /\ engineOn' = FALSE /\ events' \in 0 .. MaxEvents
         /\ events <= events' /\ saves' \in Seq(Counts) /\ saves' # <<>>
         /\ kept' = stats /\ raced' \in BOOLEAN
         /\ ~raced' => \A i \in DOMAIN saves' : saves'[i] = None
         /\ UNCHANGED <<view, stats, saved, records, resetting, unsent, news, forgot,
                        windowOfCounters>>
<1>1. /\ saves' = Append(saves, None) /\ saves \in Seq(Counts) /\ None \in Counts
      /\ raced' = \E i \in DOMAIN saves : saves[i] # None
  BY CountersValues DEF StopEngine, Flush, CountersTyped
<1>2. saves' \in Seq(Counts) /\ saves' # <<>>
  BY <1>1, AppendFacts
<1>3. /\ saves'[Len(saves) + 1] = None
      /\ \A q \in DOMAIN saves : saves'[q] = saves[q]
      /\ \A p \in DOMAIN saves' : p \in DOMAIN saves \/ p = Len(saves) + 1
  BY <1>1, AppendShape
<1>4. events' \in 0 .. MaxEvents /\ events <= events'
  BY CountersValues DEF StopEngine, Happen, CountersTyped
<1>5. ~raced' => \A i \in DOMAIN saves' : saves'[i] = None
  BY <1>1, <1>3
<1>6. QED
  BY <1>1, <1>2, <1>4, <1>5 DEF StopEngine, CountersTyped
-----------------------------------------------------------------------------
(* The counters: types and saves. *)

LEMMA CountersTypedStep == CountersTyped /\ CountersNext => CountersTyped'
<1> SUFFICES ASSUME CountersTyped, CountersNext PROVE CountersTyped'
  OBVIOUS
<1>1. CASE Record
  <2>1. stats'.hits <= events'
    <3>1. stats'.hits = stats.hits /\ events' = events + 1
      BY <1>1, RecordEffect
    <3>2. QED
      BY <3>1, CountersNumbers
  <2>2. QED
    BY <1>1, <2>1, RecordEffect DEF CountersTyped, windowOfCounters
<1>2. CASE RecordFilterHit
  <2>1. stats'.hits <= events'
    <3>1. stats'.hits = stats.hits + 1 /\ events' = events + 1
      BY <1>2, HitEffect
    <3>2. QED
      BY <3>1, CountersNumbers
  <2>2. QED
    BY <1>2, <2>1, HitEffect DEF CountersTyped, windowOfCounters
<1>3. CASE EmitFilterAction
  BY <1>3, EmitEffect DEF CountersTyped, windowOfCounters
<1>4. CASE SaveStatsNow
  BY <1>4, SaveEffect DEF CountersTyped, windowOfCounters
<1>5. CASE StartEngine
  <2>1. Append(records, 0) \in Seq(Nat)
    BY AppendFacts DEF CountersTyped
  <2>2. QED
    BY <1>5, <2>1, CountersValues DEF StartEngine, Happen, CountersTyped,
       windowOfCounters, Counts
<1>6. CASE StopEngine
  <2>1. stats'.hits <= events'
    <3>1. stats' = stats /\ events <= events' /\ events' \in 0 .. MaxEvents
      BY <1>6, StopEffect
    <3>2. QED
      BY <3>1, CountersNumbers, CountersValues
  <2>2. QED
    BY <1>6, <2>1, StopEffect DEF CountersTyped, windowOfCounters
<1>7. CASE ResetStats
  <2>1. stats'.hits <= events'
    <3>1. stats'.hits = 0 \/ stats' = stats
      BY <1>7, ResetEffect
    <3>2. events <= events' /\ events' \in 0 .. MaxEvents
      BY <1>7, ResetEffect
    <3>3. QED
      BY <3>1, <3>2, CountersNumbers, CountersValues
  <2>2. resetting' \in {"no", "zeroed", "emit", "answer", "failed"}
    BY <1>7, ResetEffect
  <2>3. QED
    BY <1>7, <2>1, <2>2, ResetEffect DEF CountersTyped, windowOfCounters
<1>8. CASE HearEvent
  BY <1>8, HearEffect DEF CountersTyped
<1>9. CASE ResetReturns
  <2>1. loads' \in Seq(Answers)
    BY <1>9, LoadEffect DEF ResetReturns, Loads, CountersTyped
  <2>2. stale' \in BOOLEAN
    BY <1>9 DEF ResetReturns, CountersTyped
  <2>3. QED
    BY <1>9, <2>1, <2>2 DEF ResetReturns, CountersTyped
<1>10. CASE DelayEnds
  BY <1>10, LoadEffect DEF DelayEnds, Loads, CountersTyped
<1>11. CASE Answered
  BY <1>11, AnsweredEffect DEF CountersTyped
<1>12. CASE MountView
  <2>1. events' \in 0 .. MaxEvents /\ events <= events'
    BY <1>12, CountersValues DEF MountView, Happen, CountersTyped
  <2>2. stats'.hits <= events'
    BY <1>12, <2>1, CountersNumbers, CountersValues DEF MountView
  <2>3. QED
    BY <1>12, <2>1, <2>2, LoadEffect DEF MountView, Loads, CountersTyped
<1>13. CASE UnmountView
  <2>1. events' \in 0 .. MaxEvents /\ events <= events'
    BY <1>13, CountersValues DEF UnmountView, Happen, CountersTyped
  <2>2. stats'.hits <= events'
    BY <1>13, <2>1, CountersNumbers, CountersValues DEF UnmountView
  <2>3. <<>> \in Seq(Answers)
    BY EmptySeq
  <2>4. QED
    BY <1>13, <2>1, <2>2, <2>3, CountersValues DEF UnmountView, CountersTyped
<1>14. QED
  BY <1>1, <1>2, <1>3, <1>4, <1>5, <1>6, <1>7, <1>8, <1>9, <1>10, <1>11, <1>12,
     <1>13 DEF CountersNext

\* The order of the counters.
LEMMA AtMostFacts ==
  ASSUME NEW u \in Counts, NEW v \in Counts, NEW w \in Counts
  PROVE  /\ AtMost(u, u)
         /\ AtMost(u, v) /\ AtMost(v, w) => AtMost(u, w)
BY DEF AtMost, Counts

\* The steps that leave the counters and their saves alone.
LEMMA LastSaveKept ==
  ASSUME LastSave, UNCHANGED <<stats, saved, engineOn, saves, kept, raced, forgot>>,
         resetting' = "zeroed" <=> resetting = "zeroed"
  PROVE  LastSave'
BY DEF LastSave, Right, Since, AtMost

\* One more request: what is saved, or is about to be, stays within bounds.
LEMMA LastSaveCounts ==
  ASSUME CountersTyped, LastSave, stats' \in Counts, AtMost(stats, stats'),
         saves' = saves \/ saves' = Append(saves, None),
         UNCHANGED <<saved, engineOn, resetting, kept, raced, forgot>>
  PROVE  LastSave'
<1> SUFFICES ASSUME ~engineOn, ~raced
             PROVE  /\ AtMost(kept, stats)'
                    /\ resetting = "zeroed" =>
                         saves' # <<>> \/ (kept.served = 0 /\ kept.hits = 0)
                    /\ resetting # "zeroed" =>
                         /\ \A i \in DOMAIN saves' : Since(saves[i])'
                         /\ saves' = <<>> => Right(saved)'
  BY DEF LastSave
<1>1. /\ stats \in Counts /\ kept \in Counts /\ saved \in Counts
      /\ saves \in Seq(Counts) /\ None \in Counts
  BY CountersValues DEF CountersTyped
<1>2. AtMost(kept, stats)'
  BY <1>1, AtMostFacts DEF LastSave, AtMost
<1>3. saves' # <<>> \/ saves' = saves
  BY <1>1, AppendFacts
<1>4. ASSUME resetting # "zeroed", NEW i \in DOMAIN saves' PROVE Since(saves[i])'
  <2>1. (i \in DOMAIN saves /\ saves'[i] = saves[i]) \/ saves'[i] = None
    <3>1. CASE saves' = saves
      BY <1>4, <3>1
    <3>2. CASE saves' = Append(saves, None)
      <4>1. /\ saves'[Len(saves) + 1] = None
            /\ \A q \in DOMAIN saves : saves'[q] = saves[q]
            /\ \A p \in DOMAIN saves' : p \in DOMAIN saves \/ p = Len(saves) + 1
        BY <1>1, <3>2, AppendShape
      <4>2. QED
        BY <1>4, <4>1
    <3>3. QED
      BY <3>1, <3>2
  <2>2. CASE saves'[i] = None
    BY <2>2 DEF Since
  <2>3. CASE i \in DOMAIN saves /\ saves'[i] = saves[i]
    <3> DEFINE v == saves[i]
    <3>1. v \in Counts /\ Since(v)
      <4>1. i \in 1 .. Len(saves)
        BY <1>1, <2>3, LenProperties
      <4>2. v \in Counts
        BY <1>1, <4>1, ElementOfSeq
      <4>3. QED
        BY <1>4, <2>3, <4>2 DEF LastSave
    <3> HIDE DEF v
    <3>2. v = None \/ (AtMost(kept, v) /\ AtMost(v, stats'))
      BY <1>1, <3>1, AtMostFacts DEF Since
    <3>3. QED
      BY <2>3, <3>2 DEF Since, AtMost, v
  <2>4. QED
    BY <2>1, <2>2, <2>3
<1>5. ASSUME resetting # "zeroed", saves' = <<>> PROVE Right(saved)'
  <2>1. Right(saved)
    BY <1>3, <1>5 DEF LastSave
  <2>2. QED
    BY <1>1, <2>1 DEF Right, AtMost, Counts
<1>6. QED
  BY <1>2, <1>3, <1>4, <1>5 DEF LastSave

LEMMA LastSaveSaves ==
  ASSUME CountersTyped, LastSave, SaveStatsNow
  PROVE  LastSave'
<1>1. /\ stats \in Counts /\ kept \in Counts /\ raced \in BOOLEAN
      /\ UNCHANGED <<stats, engineOn, resetting, kept>>
  BY SaveEffect DEF CountersTyped
<1>2. PICK i \in DOMAIN saves :
         \/ /\ saves[i] = None /\ saves' # <<>>
            /\ \A j \in DOMAIN saves' :
                 j \in DOMAIN saves /\ saves'[j] \in {stats, saves[j]}
            /\ forgot' = FALSE /\ UNCHANGED <<saved, raced>>
         \/ /\ saves[i] # None /\ saved' = saves[i]
            /\ \A j \in DOMAIN saves' :
                 \E k \in DOMAIN saves : saves'[j] = saves[k]
            /\ raced' = (raced \/ resetting = "zeroed") /\ UNCHANGED forgot
  BY SaveEffect
<1>3. CASE engineOn \/ raced'
  <2>1. engineOn' \/ raced'
    BY <1>1, <1>3
  <2>2. QED
    BY <2>1 DEF LastSave
<1>4. CASE ~engineOn /\ ~raced'
  <2>1. ~raced /\ AtMost(kept, stats)
    <3>1. raced' = raced \/ raced' = (raced \/ resetting = "zeroed")
      BY <1>2
    <3>2. ~raced
      BY <1>4, <3>1
    <3>3. QED
      BY <1>4, <3>2 DEF LastSave
  <2>2. Since(stats)
    BY <1>1, <2>1, AtMostFacts DEF Since
  <2>3. CASE /\ saves[i] = None /\ saves' # <<>>
             /\ \A j \in DOMAIN saves' :
                  j \in DOMAIN saves /\ saves'[j] \in {stats, saves[j]}
    <3>1. resetting # "zeroed" => \A j \in DOMAIN saves' : Since(saves'[j])
      BY <1>4, <2>1, <2>2, <2>3 DEF LastSave
    <3>2. QED
      BY <1>1, <2>1, <2>3, <3>1 DEF LastSave, Since, AtMost
  <2>4. CASE /\ saves[i] # None /\ saved' = saves[i]
             /\ \A j \in DOMAIN saves' :
                  \E k \in DOMAIN saves : saves'[j] = saves[k]
             /\ raced' = (raced \/ resetting = "zeroed")
    <3>1. resetting # "zeroed"
      BY <1>4, <2>4
    <3>2. /\ \A k \in DOMAIN saves : Since(saves[k])
          /\ AtMost(kept, saves[i]) /\ AtMost(saves[i], stats)
      BY <1>4, <2>1, <2>4, <3>1 DEF LastSave, Since
    <3>3. Right(saved)'
      BY <1>1, <2>4, <3>2 DEF Right, AtMost
    <3>4. \A j \in DOMAIN saves' : Since(saves'[j])
      BY <2>4, <3>2
    <3>5. QED
      BY <1>1, <2>1, <3>1, <3>3, <3>4 DEF LastSave, Since, AtMost
  <2>5. QED
    BY <1>2, <2>3, <2>4
<1>5. QED
  BY <1>3, <1>4

LEMMA LastSaveStep == CountersTyped /\ LastSave /\ CountersNext => LastSave'
<1> SUFFICES ASSUME CountersTyped, LastSave, CountersNext PROVE LastSave'
  OBVIOUS
<1>1. CASE Record \/ RecordFilterHit
  BY <1>1, RecordEffect, HitEffect, LastSaveCounts
<1>2. CASE SaveStatsNow
  BY <1>2, LastSaveSaves
<1>3. CASE StartEngine
  BY <1>3 DEF StartEngine, LastSave
<1>4. CASE StopEngine
  <2>1. /\ saves' # <<>> /\ kept' = stats /\ stats' = stats /\ stats \in Counts
        /\ ~raced' => \A i \in DOMAIN saves' : saves'[i] = None
    BY <1>4, StopEffect DEF CountersTyped
  <2>2. AtMost(kept', stats')
    BY <2>1, AtMostFacts
  <2>3. QED
    <3>1. ~raced' => \A i \in DOMAIN saves' : Since(saves[i])'
      BY <2>1 DEF Since
    <3>2. AtMost(kept, stats)'
      BY <2>2 DEF AtMost
    <3>3. QED
      BY <2>1, <3>1, <3>2 DEF LastSave
<1>5. CASE ResetStats
  <2>1. CASE resetting = "no"
    <3>1. /\ resetting' = "zeroed" /\ kept'.served = 0 /\ kept'.hits = 0
          /\ kept'.install = kept.install /\ stats'.install = stats.install
          /\ stats'.served = 0 /\ stats'.hits = 0
          /\ UNCHANGED <<engineOn, raced>>
      BY <1>5, <2>1, ResetEffect
    <3>2. ~engineOn /\ ~raced => AtMost(kept, stats)'
      BY <3>1 DEF LastSave, AtMost
    <3>3. QED
      BY <3>1, <3>2 DEF LastSave
  <2>2. CASE resetting = "zeroed"
    <3>1. /\ resetting' # "zeroed" /\ saved' = Zero
          /\ raced' = (raced \/ saves # <<>>) /\ forgot' = TRUE
          /\ UNCHANGED <<stats, kept, engineOn, saves>>
      BY <1>5, <2>2, ResetEffect
    <3>2. /\ Zero.served = 0 /\ Zero.hits = 0
          /\ stats.served \in Nat /\ stats.hits \in Nat
      BY CountersValues DEF CountersTyped, Counts
    <3>3. CASE engineOn \/ raced'
      BY <3>1, <3>3 DEF LastSave
    <3>4. CASE ~engineOn /\ ~raced'
      <4>1. ~raced /\ saves = <<>>
        BY <3>1, <3>4
      <4>2. AtMost(kept, stats) /\ kept.served = 0 /\ kept.hits = 0
        BY <2>2, <3>4, <4>1 DEF LastSave
      <4>3. Right(saved)'
        BY <3>1, <3>2, <4>2 DEF Right
      <4>4. DOMAIN saves = {}
        BY <4>1
      <4>5. QED
        BY <3>1, <4>2, <4>3, <4>4 DEF LastSave, AtMost
    <3>5. QED
      BY <3>3, <3>4
  <2>3. CASE resetting = "emit"
    BY <1>5, <2>3, ResetEffect, LastSaveKept
  <2>4. QED
    BY <1>5, <2>1, <2>2, <2>3, ResetEffect
<1>6. CASE EmitFilterAction
  BY <1>6, EmitEffect, LastSaveKept
<1>7. CASE HearEvent
  BY <1>7, HearEffect, LastSaveKept
<1>8. CASE Answered
  BY <1>8, AnsweredEffect, LastSaveKept
<1>9. CASE ResetReturns \/ DelayEnds \/ MountView \/ UnmountView
  BY <1>9, LastSaveKept DEF ResetReturns, DelayEnds, MountView, UnmountView
<1>10. QED
  BY <1>1, <1>2, <1>3, <1>4, <1>5, <1>6, <1>7, <1>8, <1>9 DEF CountersNext
-----------------------------------------------------------------------------
(* The counters: what the view shows. *)

LEMMA LoadTracks == Loads => Tracked'
BY DEF Loads, Tracked

LEMMA TrackedKept ==
  ASSUME Tracked, Coming => Coming',
         UNCHANGED <<view, mounted, seen, loads, stale>>,
         stats'.served = stats.served,
         view = "LocalResourcesSummary" => stats'.hits = stats.hits
  PROVE  Tracked'
BY DEF Tracked, Current

LEMMA TrackedStep == CountersTyped /\ Tracked /\ CountersNext => Tracked'
<1> SUFFICES ASSUME CountersTyped, Tracked, CountersNext PROVE Tracked'
  OBVIOUS
<1> USE DEF windowOfCounters
<1>1. CASE Record \/ RecordFilterHit
  <2>1. PICK e \in {"local", "filter"} : unsent' = Append(unsent, e) /\ (Record => e = "local")
    BY <1>1, RecordEffect, HitEffect
  <2>2. /\ unsent \in Seq(Kinds) /\ e \in Kinds
        /\ DOMAIN unsent = 1 .. Len(unsent) /\ Len(unsent) \in Nat
    BY LenProperties DEF CountersTyped, Kinds
  <2>3. /\ unsent' \in Seq(Kinds) /\ Len(unsent') = Len(unsent) + 1
        /\ \A j \in 1 .. Len(unsent) : unsent'[j] = unsent[j]
        /\ unsent'[Len(unsent) + 1] = e
    BY <2>1, <2>2, AppendFacts
  <2>4. DOMAIN unsent' = 1 .. Len(unsent) + 1
    BY <2>3, LenProperties
  <2>5. Len(unsent) + 1 \in DOMAIN unsent' /\ \A j \in DOMAIN unsent : j \in DOMAIN unsent'
    BY <2>2, <2>4
  <2>6. /\ UNCHANGED <<view, mounted, seen, loads, stale, resetting, delay, news>>
        /\ RecordFilterHit => stats'.served = stats.served
    BY <1>1, RecordEffect, HitEffect
  <2>7. CASE Record \/ view = "LocalResourcesSummary"
    <3>1. Heeds(e)'
      BY <2>1, <2>6, <2>7 DEF Heeds
    <3>2. Coming'
      BY <2>3, <2>5, <3>1 DEF Coming, Heeds
    <3>3. QED
      BY <3>2 DEF Tracked
  <2>8. CASE RecordFilterHit /\ view # "LocalResourcesSummary"
    <3>1. Coming => Coming'
      BY <2>2, <2>3, <2>5, <2>6 DEF Coming, Heeds
    <3>2. QED
      BY <2>6, <2>8, <3>1, TrackedKept
  <2>9. QED
    BY <1>1, <2>7, <2>8
<1>2. CASE EmitFilterAction
  <2>1. /\ \A i \in DOMAIN unsent : \/ \E j \in DOMAIN unsent' : unsent'[j] = unsent[i]
                                   \/ \E j \in DOMAIN news' : news'[j] = unsent[i]
        /\ \A i \in DOMAIN news : i \in DOMAIN news' /\ news'[i] = news[i]
        /\ UNCHANGED <<view, stats, resetting, mounted, seen, loads, stale, delay>>
    BY <1>2, EmitEffect
  <2>2. Coming => Coming'
    BY <2>1 DEF Coming, Heeds
  <2>3. QED
    BY <2>1, <2>2, TrackedKept
<1>3. CASE SaveStatsNow
  BY <1>3, SaveEffect, TrackedKept DEF Coming, Heeds
<1>4. CASE StartEngine
  BY <1>4, TrackedKept DEF StartEngine, Coming, Heeds
<1>5. CASE StopEngine
  BY <1>5, StopEffect, TrackedKept DEF Coming, Heeds
<1>6. CASE ResetStats
  <2>1. resetting' # "no"
    BY <1>6, ResetEffect
  <2>2. QED
    BY <2>1 DEF Tracked, Coming
<1>7. CASE HearEvent
  <2>1. CASE Loads
    BY <2>1, LoadTracks
  <2>2. CASE delay' = TRUE
    BY <2>2 DEF Tracked, Coming
  <2>3. CASE ~mounted
    BY <1>7, <2>3, HearEffect DEF Tracked
  <2>4. CASE ~Heeds(news[1]) /\ UNCHANGED <<delay, loads>>
    <3>1. /\ \A i \in DOMAIN news : i = 1 \/ \E j \in DOMAIN news' : news'[j] = news[i]
          /\ UNCHANGED <<view, stats, resetting, unsent, mounted, seen, stale>>
      BY <1>7, HearEffect
    <3>2. Coming => Coming'
      BY <2>4, <3>1 DEF Coming, Heeds
    <3>3. QED
      BY <2>4, <3>1, <3>2, TrackedKept
  <2>5. QED
    BY <1>7, <2>1, <2>2, <2>3, <2>4, HearEffect
<1>8. CASE ResetReturns
  <2>1. CASE resetting = "answer" /\ mounted
    BY <1>8, <2>1, LoadEffect, LoadTracks DEF ResetReturns
  <2>2. CASE ~mounted \/ resetting = "failed"
    BY <1>8, <2>2 DEF ResetReturns, Tracked
  <2>3. QED
    BY <1>8, <2>1, <2>2 DEF ResetReturns
<1>9. CASE DelayEnds
  BY <1>9, LoadEffect, LoadTracks DEF DelayEnds
<1>10. CASE Answered
  <2>1. /\ loads # <<>>
        /\ stale => stale'
        /\ \/ /\ UNCHANGED <<seen, stale>>
              /\ loads' # <<>>
              /\ \/ loads'[Len(loads')] = loads[Len(loads)]
                 \/ loads'[Len(loads')].value = stats
           \/ /\ loads' = <<>> /\ seen' = loads[Len(loads)].value
              /\ loads[Len(loads)].done
           \/ loads' # <<>> /\ loads'[Len(loads')] = loads[Len(loads)]
           \/ stale'
        /\ UNCHANGED <<view, stats, resetting, unsent, news, mounted, delay>>
    BY <1>10, AnsweredEffect
  <2>2. Coming => Coming'
    BY <2>1 DEF Coming, Heeds
  <2>3. CASE stale' \/ ~mounted'
    BY <2>3 DEF Tracked
  <2>4. CASE mounted' /\ ~stale'
    <3>1. mounted /\ ~stale
      BY <2>1, <2>4
    <3>2. Coming \/ ~loads[Len(loads)].done \/ Current(loads[Len(loads)].value)
      BY <2>1, <3>1 DEF Tracked
    <3>3. CASE Coming
      BY <2>2, <3>3 DEF Tracked
    <3>4. CASE loads' # <<>> /\ loads'[Len(loads')] = loads[Len(loads)]
      BY <2>1, <2>2, <3>2, <3>4 DEF Tracked, Current
    <3>5. CASE loads' # <<>> /\ loads'[Len(loads')].value = stats
      BY <2>1, <3>5 DEF Tracked, Current
    <3>6. CASE /\ loads' = <<>> /\ seen' = loads[Len(loads)].value
               /\ loads[Len(loads)].done
      BY <2>1, <2>2, <3>2, <3>6 DEF Tracked, Current
    <3>7. QED
      BY <2>1, <2>4, <3>4, <3>5, <3>6
  <2>5. QED
    BY <2>3, <2>4
<1>11. CASE MountView
  BY <1>11, LoadEffect, LoadTracks DEF MountView
<1>12. CASE UnmountView
  BY <1>12 DEF UnmountView, Tracked
<1>13. QED
  BY <1>1, <1>2, <1>3, <1>4, <1>5, <1>6, <1>7, <1>8, <1>9, <1>10, <1>11, <1>12
     DEF CountersNext
-----------------------------------------------------------------------------
(* The counters: theorems. *)

LEMMA CountersInvInit == NoStatsYet /\
    view \in {"InjectionCounter", "LocalResourcesSummary"} => CountersInv
<1> SUFFICES ASSUME NoStatsYet,
                    view \in {"InjectionCounter", "LocalResourcesSummary"}
             PROVE  CountersInv
  OBVIOUS
<1> USE DEF NoStatsYet
<1>1. CountersTyped
  <2>1. /\ <<>> \in Seq(Counts) /\ <<>> \in Seq(Kinds) /\ <<>> \in Seq(Answers)
        /\ <<>> \in Seq(Nat)
    BY EmptySeq
  <2>2. stats.hits <= events /\ events \in 0 .. MaxEvents
    <3>1. events = 0 /\ stats.hits = 0 /\ MaxEvents \in Nat
      BY CountersValues
    <3>2. QED
      BY <3>1
  <2>3. QED
    BY <2>1, <2>2, CountersValues DEF CountersTyped
<1>2. Tracked
  BY DEF Tracked
<1>3. LastSave
  <2>1. kept = Zero /\ stats = Zero /\ saved = Zero /\ saves = <<>> /\ Zero \in Counts
    BY CountersValues
  <2>2. AtMost(Zero, Zero) /\ DOMAIN saves = {}
    BY <2>1, AtMostFacts
  <2>3. Right(saved)
    BY <2>1, <2>2 DEF Right, AtMost
  <2>4. QED
    BY <2>1, <2>2, <2>3 DEF LastSave
<1>4. QED
  BY <1>1, <1>2, <1>3 DEF CountersInv

LEMMA CountersInvariance == Spec => []CountersInv
<1>1. Init => CountersInv
  BY CountersInvInit DEF Init, NoCounters, CountersInit
<1>2. CountersInv /\ [Next]_vars => CountersInv'
  <2> SUFFICES ASSUME CountersInv, [Next]_vars PROVE CountersInv'
    OBVIOUS
  <2>1. CASE CountersNext
    BY <2>1, CountersTypedStep, TrackedStep, LastSaveStep DEF CountersInv
  <2>2. CASE UNCHANGED counterVars
    BY <2>2 DEF CountersInv, CountersTyped, Tracked, LastSave, counterVars,
       Coming, Current, Heeds, Right, Since, AtMost
  <2>3. QED
    BY <2>1, <2>2 DEF Next, vars
<1>3. QED
  BY <1>1, <1>2, PTL DEF Spec

\* However bursts of requests, resets and answers overlap, a view of the
\* counters at rest shows them as they are (InjectionCounter,
\* LocalResourcesSummary).
THEOREM CountersAreShown == Spec => []CountersCatchUp
<1>1. CountersInv => CountersCatchUp
  <2> SUFFICES ASSUME CountersInv, mounted, loads = <<>>, ~delay, news = <<>>,
                      unsent = <<>>, resetting = "no", ~stale
               PROVE  /\ seen.served = stats.served
                      /\ view = "LocalResourcesSummary" => seen.hits = stats.hits
    BY DEF CountersCatchUp
  <2>1. ~Coming
    BY DEF Coming
  <2>2. Current(seen)
    BY <2>1 DEF CountersInv, Tracked
  <2>3. QED
    BY <2>2 DEF Current
<1>2. QED
  BY <1>1, CountersInvariance, PTL

\* What was counted before the proxy stopped is saved, by Engine.Flush or by a
\* later save of a hijacked connection.  Excepted is a reset that crosses a save,
\* and a save whose snapshot is older than the stop.
THEOREM CountersAreSaved == Spec => []CountersSaved
<1>1. CountersInv => CountersSaved
  BY DEF CountersInv, LastSave, Right, CountersSaved
<1>2. QED
  BY <1>1, CountersInvariance, PTL
-----------------------------------------------------------------------------
(* The page of the filter lists: its invariant. *)

RowsType == [checked : States, busy : BOOLEAN, deleting : BOOLEAN, mount : Nat]
Contents == [Urls -> States]
AskTypes ==
  [do : {"toggle", "remove", "add", "import", "fetch"}, url : Urls \union {""},
   value : States \union Contents, visit : Nat, mount : Nat,
   state : {"sent", "done", "failed"}]

PageTyped ==
  /\ lists \in Contents /\ filterLists \in Contents /\ visit \in Nat
  /\ row \in [Urls -> RowsType] /\ custom \in BOOLEAN /\ confused \in BOOLEAN
  /\ asked \in Seq(AskTypes)
  /\ \A i \in DOMAIN asked :
       /\ asked[i].visit <= visit
       /\ IF asked[i].do = "fetch" THEN asked[i].value \in Contents
          ELSE asked[i].url \in Urls /\ asked[i].value \in States
       /\ asked[i].do = "toggle" => asked[i].value \in {"on", "off"}
       /\ asked[i].do = "remove" => asked[i].value = "absent"

\* The lock of the configuration serves the calls as they were made.
Ordered ==
  \A i, j \in DOMAIN asked :
    i < j /\ asked[i].state = "sent" => asked[j].state = "sent"

\* This visit fetches what an earlier one still has to write.
IsFetch(i) == asked[i].do = "fetch" /\ asked[i].visit = visit
EarlierWrites ==
  \A i \in DOMAIN asked :
    asked[i].do # "fetch" /\ asked[i].visit # visit /\ asked[i].state = "sent"
    => \E j \in DOMAIN asked : i < j /\ IsFetch(j)

\* What is shown is what the configuration says, or the last fetch brings it,
\* or a write that has been done makes the page fetch.
Newest(m) == IsFetch(m) /\ \A j \in DOMAIN asked : IsFetch(j) => j <= m
Owed ==
  \E i \in DOMAIN asked :
    asked[i].do # "fetch" /\ asked[i].visit = visit /\ asked[i].state = "done"
Fetched ==
  ~confused =>
    \/ Owed
    \/ (\A i \in DOMAIN asked : ~IsFetch(i)) /\ filterLists = lists
    \/ \E m \in DOMAIN asked :
         Newest(m) /\ (asked[m].state = "sent" \/ asked[m].value = lists)

\* The lists that were fetched have a row each.
Listed ==
  /\ custom => \A u \in Urls : row[u].checked = "absent" <=> filterLists[u] = "absent"
  /\ ~custom => \A u \in Urls : row[u].checked = "absent"

\* A row stands where its list does; while it is being switched its switch is
\* the only one under way, and decides.
IsToggle(i, u) == asked[i].do = "toggle" /\ asked[i].url = u
Settled(u) == (\A i \in DOMAIN asked : ~IsToggle(i, u)) /\ lists[u] \in {"absent", row[u].checked}
Switching(u) ==
  /\ row[u].busy
  /\ \E i \in DOMAIN asked :
       /\ IsToggle(i, u) /\ \A j \in DOMAIN asked : IsToggle(j, u) => j = i
       /\ asked[i].visit = visit /\ asked[i].mount = row[u].mount
       /\ asked[i].value = row[u].checked
       /\ \/ asked[i].state = "sent"
          \/ asked[i].state = "done" /\ lists[u] \in {"absent", row[u].checked}
RowsRight ==
  ~confused => \A u \in Urls : row[u].checked # "absent" => Settled(u) \/ Switching(u)

PageInv == PageTyped /\ Ordered /\ EarlierWrites /\ Fetched /\ Listed /\ RowsRight
-----------------------------------------------------------------------------
(* The page of the filter lists: what the steps do. *)

\* The calls that are under way, and what was asked for in them.
LEMMA AskedFacts ==
  ASSUME PageTyped, NEW i \in DOMAIN asked
  PROVE  /\ asked[i] \in AskTypes
         /\ asked[i].do \in {"toggle", "remove", "add", "import", "fetch"}
         /\ asked[i].state \in {"sent", "done", "failed"}
         /\ asked[i].visit \in Nat /\ asked[i].mount \in Nat
         /\ asked[i] = [do |-> asked[i].do, url |-> asked[i].url, value |-> asked[i].value,
                        visit |-> asked[i].visit, mount |-> asked[i].mount,
                        state |-> asked[i].state]
<1>1. asked[i] \in AskTypes
  <2>1. asked \in Seq(AskTypes)
    BY DEF PageTyped
  <2>2. QED
    BY <2>1, LenProperties, ElementOfSeq
<1>2. QED
  BY <1>1 DEF AskTypes

LEMMA NewCalls ==
  ASSUME PageTyped
  PROVE  /\ Nothing \in Contents
         /\ \A n \in Nat : Fetch(n) \in AskTypes
         /\ \A u \in Urls, do \in {"toggle", "remove", "add", "import"}, v \in States :
              Ask(do, u, v) \in AskTypes
<1>1. Nothing \in Contents
  BY DEF Nothing, Contents, States
<1>2. \A u \in Urls : row[u].mount \in Nat
  BY DEF PageTyped, RowsType
<1>3. visit \in Nat
  BY DEF PageTyped
<1>4. ASSUME NEW n \in Nat PROVE Fetch(n) \in AskTypes
  BY <1>1 DEF Fetch, AskTypes
<1>5. ASSUME NEW u \in Urls, NEW do \in {"toggle", "remove", "add", "import"}, NEW v \in States
      PROVE  Ask(do, u, v) \in AskTypes
  BY <1>2, <1>3 DEF Ask, AskTypes
<1>6. QED
  BY <1>1, <1>4, <1>5

\* The configuration serves the call at i.
Served(i) ==
  /\ DOMAIN asked' = DOMAIN asked /\ i \in DOMAIN asked
  /\ \A j \in DOMAIN asked : j # i => asked'[j] = asked[j]
  /\ asked[i].state = "sent" /\ asked'[i].state \in {"done", "failed"}
  /\ \A j \in DOMAIN asked : j < i => asked[j].state # "sent"
  /\ asked'[i].do = asked[i].do /\ asked'[i].url = asked[i].url
  /\ asked'[i].visit = asked[i].visit /\ asked'[i].mount = asked[i].mount
  /\ UNCHANGED <<proxied, visit, custom, filterLists, row, adding, importing>>

ServedFetch(i) ==
  /\ asked[i].do = "fetch" /\ asked'[i].state = "done" /\ asked'[i].value = lists
  /\ UNCHANGED <<lists, confused>>

ServedWrite(i) ==
  /\ asked[i].do # "fetch" /\ asked'[i].value = asked[i].value
  /\ \/ confused'
     \/ /\ asked'[i].state = "done" /\ UNCHANGED confused
        /\ asked[i].do \in {"add", "import"} => row[asked[i].url].checked = "absent"
        /\ lists' = (IF asked[i].do # "toggle" \/ lists[asked[i].url] # "absent"
                     THEN [lists EXCEPT ![asked[i].url] = asked[i].value] ELSE lists)
     \/ asked[i].do \in {"add", "import"} /\ UNCHANGED <<lists, confused>>

LEMMA ServeEffect ==
  ASSUME PageTyped, NEW i \in DOMAIN asked, ConfigServes(i)
  PROVE  /\ Served(i) /\ (ServedFetch(i) \/ ServedWrite(i))
         /\ asked' \in Seq(AskTypes) /\ lists' \in Contents /\ confused' \in BOOLEAN
<1>1. /\ asked[i] \in AskTypes /\ asked[i].state = "sent"
      /\ asked[i] = [do |-> asked[i].do, url |-> asked[i].url, value |-> asked[i].value,
                     visit |-> asked[i].visit, mount |-> asked[i].mount, state |-> asked[i].state]
      /\ asked \in Seq(AskTypes) /\ lists \in Contents /\ confused \in BOOLEAN
  BY AskedFacts DEF ConfigServes, PageTyped
<1>2. \A j \in DOMAIN asked : j < i => asked[j].state # "sent"
  <2>1. DOMAIN asked = 1 .. Len(asked) /\ Len(asked) \in Nat
    BY <1>1, LenProperties
  <2>2. \A j \in DOMAIN asked : j < i => j \in 1 .. i - 1
    BY <2>1
  <2>3. QED
    BY <2>2 DEF ConfigServes
<1> DEFINE With(v, s) == [do |-> asked[i].do, url |-> asked[i].url, value |-> v,
                          visit |-> asked[i].visit, mount |-> asked[i].mount, state |-> s]
<1>3. ASSUME NEW v \in States \union Contents, NEW s \in {"done", "failed"},
             asked' = [asked EXCEPT ![i] = With(v, s)],
             UNCHANGED <<proxied, visit, custom, filterLists, row, adding, importing>>
      PROVE  Served(i) /\ asked'[i] = With(v, s) /\ asked' \in Seq(AskTypes)
  <2>1. With(v, s) \in AskTypes
    BY <1>1 DEF AskTypes
  <2> HIDE DEF With
  <2>2. /\ asked' \in Seq(AskTypes) /\ DOMAIN asked' = DOMAIN asked
        /\ asked'[i] = With(v, s) /\ \A j \in DOMAIN asked : j # i => asked'[j] = asked[j]
    BY <1>1, <1>3, <2>1, ExceptShape
  <2>3. QED
    BY <1>1, <1>2, <1>3, <2>2 DEF Served, With
<1>4. UNCHANGED <<proxied, visit, custom, filterLists, row, adding, importing>>
  BY DEF ConfigServes
<1>5. CASE /\ asked[i].do = "fetch"
           /\ asked' = [asked EXCEPT ![i].state = "done", ![i].value = lists]
           /\ UNCHANGED <<lists, confused>>
  <2>1. asked' = [asked EXCEPT ![i] = With(lists, "done")]
    <3>1. [asked[i] EXCEPT !.state = "done", !.value = lists] = With(lists, "done")
      <4>1. [asked[i] EXCEPT !.state = "done"] = With(asked[i].value, "done")
        BY <1>1
      <4>2. [With(asked[i].value, "done") EXCEPT !.value = lists] = With(lists, "done")
        OBVIOUS
      <4>3. [asked[i] EXCEPT !.state = "done", !.value = lists]
            = [[asked[i] EXCEPT !.state = "done"] EXCEPT !.value = lists]
        OBVIOUS
      <4>4. QED
        BY <4>1, <4>2, <4>3
    <3>2. asked' = [asked EXCEPT ![i] = [asked[i] EXCEPT !.state = "done", !.value = lists]]
      BY <1>5
    <3>3. QED
      BY <3>1, <3>2
  <2>2. Served(i) /\ asked'[i] = With(lists, "done") /\ asked' \in Seq(AskTypes)
    BY <1>1, <1>3, <1>4, <2>1
  <2>3. QED
    BY <1>1, <1>5, <2>2 DEF ServedFetch
<1>6. ASSUME asked[i].do # "fetch", Write(i)
      PROVE  /\ Served(i) /\ ServedWrite(i)
             /\ asked' \in Seq(AskTypes) /\ lists' \in Contents /\ confused' \in BOOLEAN
  <2>1. PICK s \in {"done", "failed"} :
          /\ asked' = [asked EXCEPT ![i].state = s]
          /\ \/ /\ confused' = (confused \/ s = "failed"
                         \/ (asked[i].do \in {"add", "import"} /\ row[asked[i].url].checked # "absent"))
                /\ lists' = (IF asked[i].do # "toggle" \/ lists[asked[i].url] # "absent"
                     THEN [lists EXCEPT ![asked[i].url] = asked[i].value] ELSE lists)
             \/ asked[i].do \in {"add", "import"} /\ UNCHANGED <<lists, confused>>
    BY <1>6 DEF Write
  <2>2. asked' = [asked EXCEPT ![i] = With(asked[i].value, s)]
    <3>1. [asked[i] EXCEPT !.state = s] = With(asked[i].value, s)
      BY <1>1
    <3>2. asked' = [asked EXCEPT ![i] = [asked[i] EXCEPT !.state = s]]
      BY <2>1
    <3>3. QED
      BY <3>1, <3>2
  <2>3. asked[i].value \in States \union Contents
    BY <1>1 DEF AskTypes
  <2>4. Served(i) /\ asked'[i] = With(asked[i].value, s) /\ asked' \in Seq(AskTypes)
    BY <1>3, <1>4, <2>2, <2>3
  <2>5. asked'[i].value = asked[i].value /\ asked'[i].state = s
    BY <2>4
  <2>6. lists' \in Contents
    <3>1. asked[i].url \in Urls /\ asked[i].value \in States
      BY <1>6 DEF PageTyped
    <3>2. QED
      BY <1>1, <2>1, <3>1 DEF Contents
  <2>7. confused' \in BOOLEAN
    BY <1>1, <2>1
  <2>8. ServedWrite(i)
    BY <1>1, <1>6, <2>1, <2>5 DEF ServedWrite
  <2>9. QED
    BY <2>4, <2>6, <2>7, <2>8
<1>7. QED
  BY <1>5, <1>6, <1>1 DEF ConfigServes
\* The answer to the call at i is heard; more: the page fetches after it.
Returned(i, more) ==
  /\ \A q \in DOMAIN asked : q # i =>
       After(i, q) \in DOMAIN asked' /\ asked'[After(i, q)] = asked[q] /\ After(i, q) < Len(asked)
  /\ \A p \in DOMAIN asked' :
       \/ \E q \in DOMAIN asked : q # i /\ p = After(i, q)
       \/ more /\ p = Len(asked)
  /\ more => Len(asked) \in DOMAIN asked' /\ asked'[Len(asked)] = Fetch(asked[i].visit)
  /\ \A q, r \in DOMAIN asked : q # i /\ r # i => (After(i, q) < After(i, r) <=> q < r)

LEMMA ReturnShape ==
  ASSUME PageTyped, NEW i \in DOMAIN asked, NEW more \in BOOLEAN,
         asked' = IF more THEN Append(RemoveAt(asked, i), Fetch(asked[i].visit))
                  ELSE RemoveAt(asked, i)
  PROVE  asked' \in Seq(AskTypes) /\ Returned(i, more)
<1>1. asked \in Seq(AskTypes) /\ Fetch(asked[i].visit) \in AskTypes
  BY AskedFacts, NewCalls DEF PageTyped
<1>2. asked' \in {RemoveAt(asked, i), Append(RemoveAt(asked, i), Fetch(asked[i].visit))}
  OBVIOUS
<1>3. RemoveAt(asked, i) # Append(RemoveAt(asked, i), Fetch(asked[i].visit))
  BY <1>1, <1>2, RemoveShape
<1>4. asked' = Append(RemoveAt(asked, i), Fetch(asked[i].visit)) <=> more
  BY <1>3
<1>5. /\ asked' \in Seq(AskTypes)
      /\ \A q \in DOMAIN asked : q # i =>
           After(i, q) \in DOMAIN asked' /\ asked'[After(i, q)] = asked[q] /\ After(i, q) < Len(asked)
      /\ \A p \in DOMAIN asked' :
           \/ \E q \in DOMAIN asked : q # i /\ p = After(i, q)
           \/ /\ p = Len(asked)
              /\ asked' = Append(RemoveAt(asked, i), Fetch(asked[i].visit))
      /\ asked' = Append(RemoveAt(asked, i), Fetch(asked[i].visit)) =>
           Len(asked) \in DOMAIN asked' /\ asked'[Len(asked)] = Fetch(asked[i].visit)
      /\ \A q, r \in DOMAIN asked : q # i /\ r # i => (After(i, q) < After(i, r) <=> q < r)
  BY <1>1, <1>2, RemoveShape
<1>6. QED
  BY <1>4, <1>5 DEF Returned

LEMMA RowFields ==
  ASSUME NEW r \in [Urls -> RowsType], NEW u \in Urls
  PROVE  /\ r[u].checked \in States /\ r[u].busy \in BOOLEAN /\ r[u].deleting \in BOOLEAN
         /\ r[u].mount \in Nat
         /\ r[u] = [checked |-> r[u].checked, busy |-> r[u].busy,
                    deleting |-> r[u].deleting, mount |-> r[u].mount]
BY DEF RowsType

\* A row of which the switch changes, and one of which the button does.
RowIsSwitched(t, r, u, c, b) ==
  \/ t = [r EXCEPT ![u].checked = c, ![u].busy = b]
  \/ t = [r EXCEPT ![u].busy = b, ![u].checked = c]
RowIsDeleting(t, r, u, d) == t = [r EXCEPT ![u].deleting = d]

LEMMA RowSwitched ==
  ASSUME NEW r \in [Urls -> RowsType], NEW u \in Urls, NEW c \in States, NEW b \in BOOLEAN,
         NEW t, RowIsSwitched(t, r, u, c, b)
  PROVE  /\ t \in [Urls -> RowsType]
         /\ t[u].checked = c /\ t[u].busy = b /\ t[u].mount = r[u].mount
         /\ \A v \in Urls \ {u} : t[v] = r[v]
<1> DEFINE With(x, y) == [checked |-> x, busy |-> y,
                          deleting |-> r[u].deleting, mount |-> r[u].mount]
           both == [r EXCEPT ![u].checked = c, ![u].busy = b]
<1>1. r[u] = With(r[u].checked, r[u].busy)
  BY RowFields
<1>2. /\ [r[u] EXCEPT !.checked = c] = With(c, r[u].busy)
      /\ [r[u] EXCEPT !.busy = b] = With(r[u].checked, b)
  BY <1>1
<1>3. /\ [With(c, r[u].busy) EXCEPT !.busy = b] = With(c, b)
      /\ [With(r[u].checked, b) EXCEPT !.checked = c] = With(c, b)
  OBVIOUS
<1>4. With(c, b) \in RowsType
  BY RowFields DEF RowsType
<1> HIDE DEF With
<1>5. both = [r EXCEPT ![u] = With(c, b)]
  <2>1. [r EXCEPT ![u].checked = c] = [r EXCEPT ![u] = With(c, r[u].busy)]
    BY <1>2
  <2>2. [r EXCEPT ![u] = With(c, r[u].busy)][u] = With(c, r[u].busy)
    OBVIOUS
  <2>3. both = [[r EXCEPT ![u] = With(c, r[u].busy)] EXCEPT ![u] = With(c, b)]
    BY <1>3, <2>1, <2>2
  <2>4. QED
    BY <2>3
<1>6. [r EXCEPT ![u].busy = b, ![u].checked = c] = [r EXCEPT ![u] = With(c, b)]
  <2>1. [r EXCEPT ![u].busy = b] = [r EXCEPT ![u] = With(r[u].checked, b)]
    BY <1>2
  <2>2. [r EXCEPT ![u] = With(r[u].checked, b)][u] = With(r[u].checked, b)
    OBVIOUS
  <2>3. [r EXCEPT ![u].busy = b, ![u].checked = c]
        = [[r EXCEPT ![u] = With(r[u].checked, b)] EXCEPT ![u] = With(c, b)]
    BY <1>3, <2>1, <2>2
  <2>4. QED
    BY <2>3
<1>7. With(c, b).checked = c /\ With(c, b).busy = b /\ With(c, b).mount = r[u].mount
  BY DEF With
<1>8. both[u] = With(c, b) /\ \A v \in Urls \ {u} : both[v] = r[v]
  BY <1>5
<1>9. both \in [Urls -> RowsType]
  BY <1>4, <1>5
<1>10. t = both
  BY <1>5, <1>6 DEF RowIsSwitched
<1>11. QED
  BY <1>7, <1>8, <1>9, <1>10

LEMMA RowDeleting ==
  ASSUME NEW r \in [Urls -> RowsType], NEW u \in Urls, NEW d \in BOOLEAN,
         NEW t, RowIsDeleting(t, r, u, d)
  PROVE  /\ t \in [Urls -> RowsType]
         /\ \A v \in Urls : /\ t[v].checked = r[v].checked
                            /\ t[v].busy = r[v].busy
                            /\ t[v].mount = r[v].mount
<1> DEFINE With(x) == [checked |-> r[u].checked, busy |-> r[u].busy,
                       deleting |-> x, mount |-> r[u].mount]
           new == With(d)
<1>0. r[u] = With(r[u].deleting)
  BY RowFields
<1>1. [r[u] EXCEPT !.deleting = d] = new
  BY <1>0
<1>2. new \in RowsType
  BY RowFields DEF RowsType
<1>3. /\ new.checked = r[u].checked /\ new.busy = r[u].busy /\ new.mount = r[u].mount
  OBVIOUS
<1> HIDE DEF new
<1>4. t = [r EXCEPT ![u] = new]
  BY <1>1 DEF RowIsDeleting
<1>5. QED
  BY <1>2, <1>3, <1>4
\* A call is made.
Asked(call) ==
  /\ Len(asked) + 1 \in DOMAIN asked' /\ asked'[Len(asked) + 1] = call
  /\ \A q \in DOMAIN asked :
       q \in DOMAIN asked' /\ asked'[q] = asked[q] /\ q < Len(asked) + 1
  /\ \A p \in DOMAIN asked' : p \in DOMAIN asked \/ p = Len(asked) + 1

LEMMA AskShape ==
  ASSUME PageTyped, NEW call \in AskTypes, asked' = Append(asked, call)
  PROVE  asked' \in Seq(AskTypes) /\ Asked(call)
BY AppendShape DEF PageTyped, Asked

\* The user has asked for do, of u.
Clicked(do, u, v) ==
  /\ Asked(Ask(do, u, v))
  /\ do = "remove" => v = "absent"
  /\ do = "toggle" =>
       /\ v \in {"on", "off"} /\ row[u].checked # "absent" /\ row[u].busy = FALSE
       /\ row'[u].checked = v /\ row'[u].busy = TRUE /\ row'[u].mount = row[u].mount
       /\ \A w \in Urls \ {u} : row'[w] = row[w]
  /\ do # "toggle" =>
       \A w \in Urls : /\ row'[w].checked = row[w].checked /\ row'[w].busy = row[w].busy
                       /\ row'[w].mount = row[w].mount
  /\ UNCHANGED <<lists, proxied, visit, custom, filterLists, confused>>

LEMMA ClickEffect ==
  ASSUME PageTyped, ListsClicked
  PROVE  /\ asked' \in Seq(AskTypes) /\ row' \in [Urls -> RowsType]
         /\ \E u \in Urls, do \in {"toggle", "remove", "add", "import"}, v \in States :
              Clicked(do, u, v)
<1>1. row \in [Urls -> RowsType]
  BY DEF PageTyped
<1>2. PICK u \in Urls :
        Toggle(u) \/ Delete(u) \/ CreateFilterList(u) \/ ImportFilterList(u)
  BY DEF ListsClicked
<1>3. UNCHANGED <<lists, proxied, visit, custom, filterLists, confused>>
  BY DEF ListsClicked
<1>4. CASE Toggle(u)
  <2> DEFINE v == Flipped(row[u].checked)
  <2>1. v \in {"on", "off"} /\ v \in States
    BY DEF Flipped, States
  <2> HIDE DEF v
  <2>2. /\ row[u].checked # "absent" /\ ~row[u].busy
        /\ asked' = Append(asked, Ask("toggle", u, v))
        /\ RowIsSwitched(row', row, u, v, TRUE)
    BY <1>4 DEF Toggle, RowIsSwitched, v
  <2>3. asked' \in Seq(AskTypes) /\ Asked(Ask("toggle", u, v))
    BY <2>1, <2>2, NewCalls, AskShape
  <2>4. /\ row' \in [Urls -> RowsType] /\ row'[u].checked = v /\ row'[u].busy = TRUE
        /\ row'[u].mount = row[u].mount /\ \A w \in Urls \ {u} : row'[w] = row[w]
    <3>1. PICK b \in BOOLEAN : RowIsSwitched(row', row, u, v, b)
      BY <2>2
    <3>2. /\ row' \in [Urls -> RowsType] /\ row'[u].checked = v
          /\ row'[u].mount = row[u].mount /\ \A w \in Urls \ {u} : row'[w] = row[w]
      BY <1>1, <2>1, <3>1, RowSwitched
    <3>3. row'[u].busy = TRUE
      <4>1. row' = [row EXCEPT ![u].checked = v, ![u].busy = TRUE]
        BY <1>4 DEF Toggle, v
      <4>2. row'[u] = [[row[u] EXCEPT !.checked = v] EXCEPT !.busy = TRUE]
        BY <1>1, <4>1
      <4>3. row[u] = [checked |-> row[u].checked, busy |-> row[u].busy,
                      deleting |-> row[u].deleting, mount |-> row[u].mount]
        BY <1>1, RowFields
      <4>4. [row[u] EXCEPT !.checked = v]
            = [checked |-> v, busy |-> row[u].busy,
               deleting |-> row[u].deleting, mount |-> row[u].mount]
        BY <4>3
      <4>5. QED
        BY <4>2, <4>4
    <3>4. QED
      BY <3>2, <3>3
  <2>5. row[u].busy = FALSE
    BY <1>1, <2>2, RowFields
  <2>6. Clicked("toggle", u, v)
    BY <1>3, <2>1, <2>2, <2>3, <2>4, <2>5 DEF Clicked
  <2>7. QED
    BY <2>1, <2>3, <2>4, <2>6
<1>5. CASE Delete(u)
  <2>1. /\ asked' = Append(asked, Ask("remove", u, "absent"))
        /\ RowIsDeleting(row', row, u, TRUE) /\ "absent" \in States
    BY <1>5 DEF Delete, States, RowIsDeleting
  <2>2. asked' \in Seq(AskTypes) /\ Asked(Ask("remove", u, "absent"))
    BY <2>1, NewCalls, AskShape
  <2>3. /\ row' \in [Urls -> RowsType]
        /\ \A w \in Urls : /\ row'[w].checked = row[w].checked /\ row'[w].busy = row[w].busy
                           /\ row'[w].mount = row[w].mount
    <3>1. PICK d \in BOOLEAN : RowIsDeleting(row', row, u, d)
      BY <2>1
    <3>2. QED
      BY <1>1, <3>1, RowDeleting
  <2>4. Clicked("remove", u, "absent")
    BY <1>3, <2>2, <2>3 DEF Clicked
  <2>5. QED
    BY <2>1, <2>2, <2>3, <2>4
<1>6. CASE CreateFilterList(u) \/ ImportFilterList(u)
  <2>1. PICK do \in {"add", "import"}, v \in States :
          asked' = Append(asked, Ask(do, u, v)) /\ row' = row
    BY <1>6 DEF CreateFilterList, ImportFilterList, States
  <2>2. asked' \in Seq(AskTypes) /\ Asked(Ask(do, u, v))
    BY <2>1, NewCalls, AskShape
  <2>3. Clicked(do, u, v)
    BY <1>3, <2>1, <2>2 DEF Clicked
  <2>4. QED
    BY <1>1, <2>1, <2>2, <2>3
<1>7. QED
  BY <1>2, <1>4, <1>5, <1>6

LEMMA SettleEffect ==
  ASSUME PageTyped, NEW i \in DOMAIN asked, asked[i].do # "fetch", SettleRow(i)
  PROVE  /\ row' \in [Urls -> RowsType]
         /\ \A u \in Urls :
              /\ row'[u].checked = "absent" <=> row[u].checked = "absent"
              /\ row'[u].mount = row[u].mount
              /\ u # asked[i].url \/ asked[i].do # "toggle"
                 => row'[u].checked = row[u].checked /\ row'[u].busy = row[u].busy
              /\ asked[i].state = "done" => row'[u].checked = row[u].checked
<1> DEFINE u == asked[i].url
<1>1. row \in [Urls -> RowsType] /\ u \in Urls
  BY DEF PageTyped
<1>2. CASE row' = row
  BY <1>1, <1>2
<1>3. CASE asked[i].do = "toggle" /\ row[u].checked # "absent" /\ row' # row
  <2> DEFINE c == IF asked[i].state = "failed" THEN Flipped(asked[i].value) ELSE row[u].checked
  <2>1. RowIsSwitched(row', row, u, c, FALSE)
    <3>1. row' = [row EXCEPT ![u].busy = FALSE,
                             ![u].checked = IF asked[i].state = "failed"
                                            THEN Flipped(asked[i].value) ELSE @]
      BY <1>3 DEF SettleRow
    <3>2. [row EXCEPT ![u].busy = FALSE][u].checked = row[u].checked
      BY <1>1, RowFields
    <3>3. QED
      BY <3>1, <3>2 DEF RowIsSwitched
  <2>2. c \in States /\ c # "absent" /\ (asked[i].state = "done" => c = row[u].checked)
    BY <1>1, <1>3, RowFields DEF Flipped, States
  <2> HIDE DEF c
  <2>3. /\ row' \in [Urls -> RowsType] /\ row'[u].checked = c /\ row'[u].mount = row[u].mount
        /\ \A w \in Urls \ {u} : row'[w] = row[w]
    <3>1. PICK b \in BOOLEAN : RowIsSwitched(row', row, u, c, b)
      BY <2>1
    <3>2. QED
      BY <1>1, <2>2, <3>1, RowSwitched
  <2>4. QED
    BY <1>1, <1>3, <2>2, <2>3
<1>4. CASE asked[i].do = "remove" /\ row' # row
  <2>1. RowIsDeleting(row', row, u, FALSE)
    BY <1>4 DEF SettleRow, RowIsDeleting
  <2>2. PICK d \in BOOLEAN : RowIsDeleting(row', row, u, d)
    BY <2>1
  <2>3. /\ row' \in [Urls -> RowsType]
        /\ \A w \in Urls : /\ row'[w].checked = row[w].checked /\ row'[w].busy = row[w].busy
                           /\ row'[w].mount = row[w].mount
    BY <1>1, <2>2, RowDeleting
  <2>4. QED
    BY <1>4, <2>3
<1>5. QED
  <2>1. asked[i].do \notin {"toggle", "remove"} => row' = row
    BY DEF SettleRow
  <2>2. row[u].checked = "absent" => row' = row
    BY DEF SettleRow
  <2>3. QED
    BY <1>2, <1>3, <1>4, <2>1, <2>2
LEMMA RowMounted ==
  ASSUME NEW n \in Nat, NEW c \in States
  PROVE  /\ NoRow(n) \in RowsType /\ NoRow(n).checked = "absent"
         /\ [NoRow(n) EXCEPT !.checked = c] \in RowsType
         /\ [NoRow(n) EXCEPT !.checked = c].checked = c
<1>1. NoRow(n) \in RowsType /\ NoRow(n).checked = "absent"
  BY DEF NoRow, RowsType, States
<1>2. [NoRow(n) EXCEPT !.checked = c]
      = [checked |-> c, busy |-> FALSE, deleting |-> FALSE, mount |-> n]
  <2> DEFINE With(x, b) == [checked |-> x, busy |-> b, deleting |-> b, mount |-> n]
  <2>1. NoRow(n) = With("absent", FALSE)
    BY DEF NoRow
  <2>2. \A x, b : [With(x, b) EXCEPT !.checked = c] = With(c, b)
    OBVIOUS
  <2>3. QED
    BY <2>1, <2>2
<1>3. QED
  BY <1>1, <1>2 DEF RowsType

\* The page shows another type.
TypeSet ==
  /\ custom' = ~custom
  /\ \A u \in Urls : row'[u].checked = IF custom' THEN filterLists[u] ELSE "absent"
  /\ ~confused' => ~confused /\ (custom' => \A u \in Urls : ~OutOfDate(u, filterLists[u]))
  /\ UNCHANGED <<lists, proxied, visit, filterLists, asked>>

LEMMA SetTypeEffect ==
  ASSUME PageTyped, SetType
  PROVE  /\ row' \in [Urls -> RowsType] /\ custom' \in BOOLEAN /\ confused' \in BOOLEAN
         /\ TypeSet
<1>1. /\ row \in [Urls -> RowsType] /\ filterLists \in Contents
      /\ custom \in BOOLEAN /\ confused \in BOOLEAN
  BY DEF PageTyped
<1>2. ASSUME NEW u \in Urls
      PROVE  /\ row'[u] \in RowsType
             /\ row'[u].checked = IF custom' THEN filterLists[u] ELSE "absent"
  <2>1. row[u].mount \in Nat /\ row[u].mount + 1 \in Nat /\ filterLists[u] \in States
    <3>1. row[u].mount \in Nat
      BY <1>1, RowFields
    <3>2. row[u].mount + 1 \in Nat
      BY <3>1
    <3>3. filterLists[u] \in States
      BY <1>1 DEF Contents
    <3>4. QED
      BY <3>1, <3>2, <3>3
  <2>2. row'[u] = IF custom \/ filterLists[u] = "absent" THEN NoRow(row[u].mount)
                  ELSE [NoRow(row[u].mount + 1) EXCEPT !.checked = filterLists[u]]
    BY DEF SetType
  <2>3. custom' = ~custom
    BY DEF SetType
  <2>4. CASE custom \/ filterLists[u] = "absent"
    <3>1. row'[u] \in RowsType /\ row'[u].checked = "absent"
      <4>1. row'[u] = NoRow(row[u].mount)
        BY <2>2, <2>4
      <4>2. "absent" \in States
        BY DEF States
      <4>3. QED
        BY <2>1, <4>1, <4>2, RowMounted
    <3>2. QED
      BY <2>3, <2>4, <3>1
  <2>5. CASE ~(custom \/ filterLists[u] = "absent")
    <3>1. row'[u] \in RowsType /\ row'[u].checked = filterLists[u]
      BY <2>1, <2>2, <2>5, RowMounted
    <3>2. QED
      BY <2>3, <2>5, <3>1
  <2>6. QED
    BY <2>4, <2>5
<1>3. row' = [u \in Urls |-> row'[u]]
  BY DEF SetType
<1>4. row' \in [Urls -> RowsType]
  BY <1>2, <1>3
<1>5. custom' \in BOOLEAN /\ confused' \in BOOLEAN
  BY <1>1 DEF SetType
<1>6. QED
  BY <1>2, <1>4, <1>5 DEF SetType, TypeSet

\* The page is mounted anew.
Revisited ==
  /\ Asked(Fetch(visit + 1)) /\ visit' = visit + 1 /\ filterLists' = Nothing
  /\ \A u \in Urls : row'[u].checked = "absent"
  /\ confused' = FALSE
  /\ UNCHANGED <<lists, proxied, custom>>

LEMMA RevisitEffect ==
  ASSUME PageTyped, Revisit
  PROVE  /\ row' \in [Urls -> RowsType] /\ asked' \in Seq(AskTypes) /\ visit' \in Nat
         /\ Revisited
<1>1. row \in [Urls -> RowsType] /\ visit \in Nat /\ visit + 1 \in Nat
  BY DEF PageTyped
<1>2. ASSUME NEW u \in Urls
      PROVE  row'[u] \in RowsType /\ row'[u].checked = "absent"
  <2>1. row'[u] = NoRow(row[u].mount) /\ row[u].mount \in Nat
    BY <1>1, RowFields DEF Revisit
  <2>2. "absent" \in States
    BY DEF States
  <2>3. QED
    BY <2>1, <2>2, RowMounted
<1>3. row' = [u \in Urls |-> row'[u]]
  BY DEF Revisit
<1>4. row' \in [Urls -> RowsType]
  BY <1>2, <1>3
<1>5. asked' \in Seq(AskTypes) /\ Asked(Fetch(visit + 1))
  <2>1. asked' = Append(asked, Fetch(visit + 1))
    BY DEF Revisit
  <2>2. QED
    BY <1>1, <2>1, NewCalls, AskShape
<1>6. QED
  BY <1>1, <1>2, <1>4, <1>5 DEF Revisit, Revisited

\* A write has been answered.
WriteReturned(i, more) ==
  /\ Returned(i, more) /\ asked[i].do # "fetch" /\ asked[i].state # "sent"
  /\ asked[i].state = "done" => more
  /\ \A u \in Urls :
       /\ row'[u].checked = "absent" <=> row[u].checked = "absent"
       /\ row'[u].mount = row[u].mount
       /\ u # asked[i].url \/ asked[i].do # "toggle"
          => row'[u].checked = row[u].checked /\ row'[u].busy = row[u].busy
       /\ asked[i].state = "done" => row'[u].checked = row[u].checked
  /\ UNCHANGED <<lists, proxied, visit, custom, filterLists, confused>>

LEMMA WriteReturnsEffect ==
  ASSUME PageTyped, NEW i \in DOMAIN asked, WriteReturns(i)
  PROVE  /\ row' \in [Urls -> RowsType] /\ asked' \in Seq(AskTypes)
         /\ \E more \in BOOLEAN : WriteReturned(i, more)
<1>1. PICK more \in BOOLEAN : more = ~(asked[i].do = "import" /\ asked[i].state = "failed")
  OBVIOUS
<1>2. asked' = IF more THEN Append(RemoveAt(asked, i), Fetch(asked[i].visit))
               ELSE RemoveAt(asked, i)
  BY <1>1 DEF WriteReturns, FetchAfter
<1>3. asked' \in Seq(AskTypes) /\ Returned(i, more)
  BY <1>2, ReturnShape
<1>4. asked[i].do # "fetch" /\ asked[i].state # "sent" /\ SettleRow(i)
  BY DEF WriteReturns
<1>5. /\ row' \in [Urls -> RowsType]
      /\ \A u \in Urls :
           /\ row'[u].checked = "absent" <=> row[u].checked = "absent"
           /\ row'[u].mount = row[u].mount
           /\ u # asked[i].url \/ asked[i].do # "toggle"
              => row'[u].checked = row[u].checked /\ row'[u].busy = row[u].busy
           /\ asked[i].state = "done" => row'[u].checked = row[u].checked
  BY <1>4, SettleEffect
<1>6. UNCHANGED <<lists, proxied, visit, custom, filterLists, confused>>
  BY DEF WriteReturns
<1>7. asked[i].state = "done" => more
  BY <1>1
<1>8. WriteReturned(i, more)
  BY <1>3, <1>4, <1>5, <1>6, <1>7 DEF WriteReturned
<1>9. QED
  BY <1>3, <1>5, <1>8

\* A fetch has been answered, of this visit or of an earlier one.
FetchReturned(i) ==
  /\ Returned(i, FALSE) /\ asked[i].do = "fetch" /\ asked[i].state = "done"
  /\ \/ asked[i].visit # visit /\ UNCHANGED <<filterLists, row, confused>>
     \/ /\ asked[i].visit = visit /\ filterLists' = asked[i].value
        /\ ~custom => \A u \in Urls : row'[u].checked = "absent"
        /\ custom => \A u \in Urls :
             IF row[u].checked # "absent" /\ asked[i].value[u] # "absent" THEN row'[u] = row[u]
             ELSE row'[u].checked = asked[i].value[u]
        /\ ~confused' =>
             /\ ~confused
             /\ \A j \in DOMAIN asked : j < i => ~IsFetch(j)
             /\ custom => \A u \in Urls :
                  row[u].checked = "absent" => ~OutOfDate(u, asked[i].value[u])
  /\ UNCHANGED <<lists, proxied, visit, custom>>

LEMMA FetchReturnsEffect ==
  ASSUME PageTyped, NEW i \in DOMAIN asked, FetchReturns(i)
  PROVE  /\ row' \in [Urls -> RowsType] /\ asked' \in Seq(AskTypes)
         /\ filterLists' \in Contents /\ confused' \in BOOLEAN
         /\ FetchReturned(i)
<1>1. /\ row \in [Urls -> RowsType] /\ filterLists \in Contents /\ confused \in BOOLEAN
      /\ custom \in BOOLEAN /\ asked[i].value \in Contents
      /\ asked[i].do = "fetch" /\ asked[i].state = "done"
  BY DEF PageTyped, FetchReturns
<1>2. asked' \in Seq(AskTypes) /\ Returned(i, FALSE)
  <2>1. PICK more \in BOOLEAN : ~more
    OBVIOUS
  <2>2. asked' = IF more THEN Append(RemoveAt(asked, i), Fetch(asked[i].visit))
                 ELSE RemoveAt(asked, i)
    BY <2>1 DEF FetchReturns
  <2>3. asked' \in Seq(AskTypes) /\ Returned(i, more)
    BY <2>2, ReturnShape
  <2>4. QED
    BY <2>1, <2>3 DEF Returned
<1>3. UNCHANGED <<lists, proxied, visit, custom>>
  BY DEF FetchReturns
<1>4. CASE asked[i].visit # visit
  <2>1. UNCHANGED <<filterLists, row, confused>>
    BY <1>4 DEF FetchReturns
  <2>2. QED
    BY <1>1, <1>2, <1>3, <1>4, <2>1 DEF FetchReturned
<1>5. CASE asked[i].visit = visit
  <2> DEFINE got == asked[i].value
  <2>1. /\ filterLists' = got /\ row' = Rows(got)
        /\ confused' = \/ confused
                       \/ \E j \in 1 .. i - 1 : asked[j].do = "fetch" /\ asked[j].visit = visit
                       \/ /\ custom
                          /\ \E u \in Urls : row[u].checked = "absent" /\ OutOfDate(u, got[u])
    BY <1>5 DEF FetchReturns
  <2>2. ASSUME NEW u \in Urls
        PROVE  /\ row'[u] \in RowsType
               /\ ~custom => row'[u].checked = "absent"
               /\ custom => IF row[u].checked # "absent" /\ got[u] # "absent" THEN row'[u] = row[u]
                            ELSE row'[u].checked = got[u]
    <3>1. row[u].mount \in Nat /\ row[u].mount + 1 \in Nat /\ got[u] \in States /\ row[u] \in RowsType
      <4>1. row[u].mount \in Nat
        BY <1>1, RowFields
      <4>2. row[u].mount + 1 \in Nat
        BY <4>1
      <4>3. got[u] \in States /\ row[u] \in RowsType
        BY <1>1 DEF Contents
      <4>4. QED
        BY <4>1, <4>2, <4>3
    <3>2. row'[u] = IF ~custom \/ got[u] = "absent" THEN NoRow(row[u].mount)
                    ELSE IF row[u].checked # "absent" THEN row[u]
                    ELSE [NoRow(row[u].mount + 1) EXCEPT !.checked = got[u]]
      BY <2>1 DEF Rows
    <3>3. /\ NoRow(row[u].mount) \in RowsType /\ NoRow(row[u].mount).checked = "absent"
          /\ [NoRow(row[u].mount + 1) EXCEPT !.checked = got[u]] \in RowsType
          /\ [NoRow(row[u].mount + 1) EXCEPT !.checked = got[u]].checked = got[u]
      BY <3>1, RowMounted
    <3>4. QED
      BY <3>1, <3>2, <3>3
  <2>3. row' = [u \in Urls |-> row'[u]]
    BY <2>1 DEF Rows
  <2>4. row' \in [Urls -> RowsType]
    BY <2>2, <2>3
  <2>5. \A j \in DOMAIN asked : j < i => j \in 1 .. i - 1
    <3>1. DOMAIN asked = 1 .. Len(asked) /\ Len(asked) \in Nat
      BY LenProperties DEF PageTyped
    <3>2. QED
      BY <3>1
  <2>6. ~confused' =>
          /\ ~confused
          /\ \A j \in DOMAIN asked : j < i => ~IsFetch(j)
          /\ custom => \A u \in Urls :
               row[u].checked = "absent" => ~OutOfDate(u, asked[i].value[u])
    BY <2>1, <2>5 DEF IsFetch
  <2>7. confused' \in BOOLEAN
    BY <1>1, <2>1
  <2>8. QED
    BY <1>1, <1>2, <1>3, <1>5, <2>1, <2>2, <2>4, <2>6, <2>7 DEF FetchReturned
<1>6. QED
  BY <1>4, <1>5
-----------------------------------------------------------------------------
(* The page of the filter lists: types, and the order of the calls. *)

\* What a new call brings with it.
LEMMA CallFields ==
  /\ \A do, u, v : /\ Ask(do, u, v).do = do /\ Ask(do, u, v).url = u /\ Ask(do, u, v).value = v
                   /\ Ask(do, u, v).visit = visit /\ Ask(do, u, v).mount = row[u].mount
                   /\ Ask(do, u, v).state = "sent"
  /\ \A n : /\ Fetch(n).do = "fetch" /\ Fetch(n).value = Nothing /\ Fetch(n).visit = n
            /\ Fetch(n).state = "sent"
BY DEF Ask, Fetch

\* One call is as the type of the calls has it.
CallTyped(call, n) ==
  /\ call.visit <= n
  /\ IF call.do = "fetch" THEN call.value \in Contents
     ELSE call.url \in Urls /\ call.value \in States
  /\ call.do = "toggle" => call.value \in {"on", "off"}
  /\ call.do = "remove" => call.value = "absent"

LEMMA PageTypedStep == PageTyped /\ PageNext => PageTyped'
<1> SUFFICES ASSUME PageTyped, PageNext PROVE PageTyped'
  OBVIOUS
<1>1. /\ lists \in Contents /\ filterLists \in Contents /\ visit \in Nat
      /\ row \in [Urls -> RowsType] /\ custom \in BOOLEAN /\ confused \in BOOLEAN
      /\ asked \in Seq(AskTypes)
      /\ \A j \in DOMAIN asked : CallTyped(asked[j], visit)
  BY DEF PageTyped, CallTyped
<1>2. SUFFICES /\ lists' \in Contents /\ filterLists' \in Contents /\ visit' \in Nat
               /\ row' \in [Urls -> RowsType] /\ custom' \in BOOLEAN /\ confused' \in BOOLEAN
               /\ asked' \in Seq(AskTypes)
               /\ \A j \in DOMAIN asked' : CallTyped(asked'[j], visit')
  BY DEF PageTyped, CallTyped, Contents, RowsType, AskTypes, States
<1>3. CASE ListsClicked
  <2>1. /\ asked' \in Seq(AskTypes) /\ row' \in [Urls -> RowsType]
    BY <1>3, ClickEffect
  <2>2. PICK u \in Urls, do \in {"toggle", "remove", "add", "import"}, v \in States :
               Clicked(do, u, v)
    BY <1>3, ClickEffect
  <2>3. CallTyped(Ask(do, u, v), visit)
    <3>1. /\ do = "toggle" => v \in {"on", "off"}
          /\ do = "remove" => v = "absent"
      BY <2>2 DEF Clicked
    <3>2. QED
      BY <1>1, <3>1, CallFields DEF CallTyped
  <2>4. \A j \in DOMAIN asked' : CallTyped(asked'[j], visit)
    BY <1>1, <2>2, <2>3 DEF Clicked, Asked
  <2>5. QED
    BY <1>1, <2>1, <2>2, <2>4 DEF Clicked
<1>4. CASE SetType
  BY <1>1, <1>4, SetTypeEffect DEF TypeSet
<1>5. CASE Revisit
  <2>1. /\ row' \in [Urls -> RowsType] /\ asked' \in Seq(AskTypes) /\ visit' \in Nat /\ Revisited
    BY <1>5, RevisitEffect
  <2>2. CallTyped(Fetch(visit + 1), visit + 1)
    BY <1>1, CallFields, NewCalls DEF CallTyped
  <2>3. \A j \in DOMAIN asked : CallTyped(asked[j], visit + 1)
    <3>1. \A j \in DOMAIN asked : asked[j].visit \in Nat
      BY AskedFacts
    <3>2. QED
      BY <1>1, <3>1 DEF CallTyped
  <2>4. \A j \in DOMAIN asked' : CallTyped(asked'[j], visit + 1)
    BY <2>1, <2>2, <2>3 DEF Revisited, Asked
  <2>5. filterLists' \in Contents
    BY <2>1, NewCalls DEF Revisited
  <2>6. QED
    BY <1>1, <2>1, <2>4, <2>5 DEF Revisited
<1>6. CASE ProxyFlips
  BY <1>1, <1>6 DEF ProxyFlips
<1>7. ASSUME NEW i \in DOMAIN asked, ConfigServes(i)
      PROVE  /\ lists' \in Contents /\ filterLists' \in Contents /\ visit' \in Nat
             /\ row' \in [Urls -> RowsType] /\ custom' \in BOOLEAN /\ confused' \in BOOLEAN
             /\ asked' \in Seq(AskTypes)
             /\ \A j \in DOMAIN asked' : CallTyped(asked'[j], visit')
  <2>1. /\ Served(i) /\ (ServedFetch(i) \/ ServedWrite(i))
        /\ asked' \in Seq(AskTypes) /\ lists' \in Contents /\ confused' \in BOOLEAN
    BY <1>7, ServeEffect
  <2>2. CallTyped(asked'[i], visit)
    <3>1. CallTyped(asked[i], visit)
      BY <1>1
    <3>2. CASE ServedFetch(i)
      BY <1>1, <2>1, <3>1, <3>2 DEF CallTyped, Served, ServedFetch
    <3>3. CASE ServedWrite(i)
      BY <2>1, <3>1, <3>3 DEF CallTyped, Served, ServedWrite
    <3>4. QED
      BY <2>1, <3>2, <3>3
  <2>3. QED
    BY <1>1, <2>1, <2>2 DEF Served
<1>8. ASSUME NEW i \in DOMAIN asked, NEW more \in BOOLEAN, Returned(i, more),
             visit' = visit
      PROVE  \A j \in DOMAIN asked' : CallTyped(asked'[j], visit')
  <2>1. CallTyped(Fetch(asked[i].visit), visit)
    BY <1>1, CallFields, NewCalls DEF CallTyped
  <2>2. QED
    BY <1>1, <1>8, <2>1 DEF Returned
<1>9. ASSUME NEW i \in DOMAIN asked, WriteReturns(i)
      PROVE  /\ lists' \in Contents /\ filterLists' \in Contents /\ visit' \in Nat
             /\ row' \in [Urls -> RowsType] /\ custom' \in BOOLEAN /\ confused' \in BOOLEAN
             /\ asked' \in Seq(AskTypes)
             /\ \A j \in DOMAIN asked' : CallTyped(asked'[j], visit')
  <2>1. row' \in [Urls -> RowsType] /\ asked' \in Seq(AskTypes)
    BY <1>9, WriteReturnsEffect
  <2>2. PICK more \in BOOLEAN : WriteReturned(i, more)
    BY <1>9, WriteReturnsEffect
  <2>3. \A j \in DOMAIN asked' : CallTyped(asked'[j], visit')
    BY <1>8, <2>2 DEF WriteReturned
  <2>4. QED
    BY <1>1, <2>1, <2>2, <2>3 DEF WriteReturned
<1>10. ASSUME NEW i \in DOMAIN asked, FetchReturns(i)
       PROVE  /\ lists' \in Contents /\ filterLists' \in Contents /\ visit' \in Nat
              /\ row' \in [Urls -> RowsType] /\ custom' \in BOOLEAN /\ confused' \in BOOLEAN
              /\ asked' \in Seq(AskTypes)
              /\ \A j \in DOMAIN asked' : CallTyped(asked'[j], visit')
  <2>1. /\ row' \in [Urls -> RowsType] /\ asked' \in Seq(AskTypes)
        /\ filterLists' \in Contents /\ confused' \in BOOLEAN
        /\ FetchReturned(i)
    BY <1>10, FetchReturnsEffect
  <2>2. \A j \in DOMAIN asked' : CallTyped(asked'[j], visit')
    <3>1. Returned(i, FALSE) /\ visit' = visit
      BY <2>1 DEF FetchReturned
    <3>2. QED
      BY <1>8, <3>1
  <2>3. QED
    BY <1>1, <2>1, <2>2 DEF FetchReturned
<1>11. QED
  BY <1>3, <1>4, <1>5, <1>6, <1>7, <1>9, <1>10 DEF PageNext

LEMMA OrderedStep == PageTyped /\ Ordered /\ PageNext => Ordered'
<1> SUFFICES ASSUME PageTyped, Ordered, PageNext PROVE Ordered'
  OBVIOUS
<1>1. asked \in Seq(AskTypes) /\ DOMAIN asked = 1 .. Len(asked) /\ Len(asked) \in Nat
  BY LenProperties DEF PageTyped
<1>2. ASSUME NEW call, Asked(call), call.state = "sent"
      PROVE  Ordered'
  <2>1. \A q \in DOMAIN asked : ~(Len(asked) + 1 < q)
    BY <1>1
  <2>2. ~(Len(asked) + 1 < Len(asked) + 1)
    BY <1>1
  <2>3. QED
    BY <1>2, <2>1, <2>2 DEF Ordered, Asked
<1>3. CASE ListsClicked
  <2>1. PICK u \in Urls, do \in {"toggle", "remove", "add", "import"}, v \in States :
               Clicked(do, u, v)
    BY <1>3, ClickEffect
  <2>2. QED
    BY <1>2, <2>1, CallFields DEF Clicked
<1>4. CASE Revisit
  BY <1>2, <1>4, RevisitEffect, CallFields DEF Revisited
<1>5. CASE SetType \/ ProxyFlips
  BY <1>5 DEF SetType, ProxyFlips, Ordered
<1>6. ASSUME NEW i \in DOMAIN asked, ConfigServes(i)
      PROVE  Ordered'
  <2>1. Served(i)
    BY <1>6, ServeEffect
  <2>2. QED
    BY <2>1 DEF Served, Ordered
<1>7. ASSUME NEW i \in DOMAIN asked, NEW more \in BOOLEAN, Returned(i, more)
      PROVE  Ordered'
  <2>1. Fetch(asked[i].visit).state = "sent"
    BY CallFields
  <2>2. \A q \in DOMAIN asked : q # i => ~(Len(asked) < After(i, q))
    BY <1>1, <1>7 DEF Returned, After
  <2>3. SUFFICES ASSUME NEW p \in DOMAIN asked', NEW r \in DOMAIN asked', p < r,
                        asked'[p].state = "sent"
                 PROVE  asked'[r].state = "sent"
    BY DEF Ordered
  <2>4. CASE more /\ r = Len(asked)
    BY <1>7, <2>1, <2>4 DEF Returned
  <2>5. CASE ~(more /\ r = Len(asked))
    <3>1. PICK b \in DOMAIN asked : b # i /\ r = After(i, b)
      BY <1>7, <2>5 DEF Returned
    <3>2. PICK a \in DOMAIN asked : a # i /\ p = After(i, a)
      BY <1>7, <2>2, <2>3, <3>1 DEF Returned
    <3>3. a < b /\ asked[a].state = "sent"
      BY <1>7, <2>3, <3>1, <3>2 DEF Returned
    <3>4. asked[b].state = "sent"
      BY <3>3 DEF Ordered
    <3>5. QED
      BY <1>7, <3>1, <3>4 DEF Returned
  <2>6. QED
    BY <2>4, <2>5
<1>8. ASSUME NEW i \in DOMAIN asked, WriteReturns(i)
      PROVE  Ordered'
  BY <1>7, <1>8, WriteReturnsEffect DEF WriteReturned
<1>9. ASSUME NEW i \in DOMAIN asked, FetchReturns(i)
      PROVE  Ordered'
  BY <1>7, <1>9, FetchReturnsEffect DEF FetchReturned
<1>10. QED
  BY <1>3, <1>4, <1>5, <1>6, <1>8, <1>9 DEF PageNext
-----------------------------------------------------------------------------
(* The page of the filter lists: what it fetches. *)

LEMMA EarlierWritesStep == PageTyped /\ Ordered /\ EarlierWrites /\ PageNext => EarlierWrites'
<1> SUFFICES ASSUME PageTyped, Ordered, EarlierWrites, PageNext PROVE EarlierWrites'
  OBVIOUS
<1>1. asked \in Seq(AskTypes) /\ DOMAIN asked = 1 .. Len(asked) /\ Len(asked) \in Nat
  BY LenProperties DEF PageTyped
<1>2. CASE ListsClicked
  <2>1. PICK u \in Urls, do \in {"toggle", "remove", "add", "import"}, v \in States :
               Clicked(do, u, v)
    BY <1>2, ClickEffect
  <2>2. Ask(do, u, v).visit = visit /\ visit' = visit /\ Asked(Ask(do, u, v))
    BY <2>1, CallFields DEF Clicked
  <2>3. QED
    BY <2>2 DEF Asked, EarlierWrites, IsFetch
<1>3. CASE Revisit
  <2>1. /\ Asked(Fetch(visit + 1)) /\ visit' = visit + 1
        /\ Fetch(visit + 1).do = "fetch" /\ Fetch(visit + 1).visit = visit + 1
    BY <1>3, RevisitEffect, CallFields DEF Revisited
  <2>2. QED
    BY <2>1 DEF Asked, EarlierWrites, IsFetch
<1>4. CASE SetType \/ ProxyFlips
  BY <1>4 DEF SetType, ProxyFlips, EarlierWrites, IsFetch
<1>5. ASSUME NEW i \in DOMAIN asked, ConfigServes(i)
      PROVE  EarlierWrites'
  <2>1. Served(i)
    BY <1>5, ServeEffect
  <2>2. \A j \in DOMAIN asked : /\ asked'[j].do = asked[j].do /\ asked'[j].visit = asked[j].visit
                                /\ asked'[j].state = "sent" => asked[j].state = "sent"
    BY <2>1 DEF Served
  <2>3. QED
    BY <2>1, <2>2 DEF Served, EarlierWrites, IsFetch
<1>6. ASSUME NEW i \in DOMAIN asked, NEW more \in BOOLEAN, Returned(i, more),
             asked[i].state # "sent", visit' = visit
      PROVE  EarlierWrites'
  <2>1. Fetch(asked[i].visit).do = "fetch"
    BY CallFields
  <2>2. SUFFICES ASSUME NEW p \in DOMAIN asked', asked'[p].do # "fetch",
                        asked'[p].visit # visit, asked'[p].state = "sent"
                 PROVE  \E r \in DOMAIN asked' : p < r /\ IsFetch(r)'
    BY <1>6 DEF EarlierWrites
  <2>3. PICK a \in DOMAIN asked : a # i /\ p = After(i, a)
    BY <1>6, <2>1, <2>2 DEF Returned
  <2>4. asked[a] = asked'[p]
    BY <1>6, <2>3 DEF Returned
  <2>5. PICK b \in DOMAIN asked : a < b /\ IsFetch(b)
    BY <2>2, <2>4 DEF EarlierWrites
  <2>6. asked[b].state = "sent"
    BY <2>2, <2>4, <2>5 DEF Ordered
  <2>7. b # i
    BY <1>6, <2>6
  <2>8. /\ After(i, b) \in DOMAIN asked' /\ p < After(i, b)
        /\ asked'[After(i, b)] = asked[b]
    BY <1>6, <2>3, <2>5, <2>7 DEF Returned
  <2>9. QED
    BY <1>6, <2>5, <2>8 DEF IsFetch
<1>7. ASSUME NEW i \in DOMAIN asked, WriteReturns(i)
      PROVE  EarlierWrites'
  BY <1>6, <1>7, WriteReturnsEffect DEF WriteReturned
<1>8. ASSUME NEW i \in DOMAIN asked, FetchReturns(i)
      PROVE  EarlierWrites'
  <2>1. FetchReturned(i)
    BY <1>8, FetchReturnsEffect
  <2>2. asked[i].state # "sent" /\ visit' = visit /\ Returned(i, FALSE)
    BY <2>1 DEF FetchReturned
  <2>3. QED
    BY <1>6, <2>2
<1>9. QED
  BY <1>2, <1>3, <1>4, <1>5, <1>7, <1>8 DEF PageNext

\* What the page shows has been fetched, and no fetch is under way.
UpToDate == (\A i \in DOMAIN asked : ~IsFetch(i)) /\ filterLists = lists

LEMMA FetchedStep ==
  PageTyped /\ Ordered /\ EarlierWrites /\ Fetched /\ PageNext => Fetched'
<1> SUFFICES ASSUME PageTyped, Ordered, EarlierWrites, Fetched, PageNext, ~confused'
             PROVE  \/ Owed' \/ UpToDate'
                    \/ \E m \in DOMAIN asked' :
                         Newest(m)' /\ (asked'[m].state = "sent" \/ asked'[m].value = lists')
  BY DEF Fetched, UpToDate
<1> DEFINE Goal == \/ Owed' \/ UpToDate'
                   \/ \E m \in DOMAIN asked' :
                        Newest(m)' /\ (asked'[m].state = "sent" \/ asked'[m].value = lists')
<1>1. asked \in Seq(AskTypes) /\ DOMAIN asked = 1 .. Len(asked) /\ Len(asked) \in Nat
  BY LenProperties DEF PageTyped
<1>2. ~confused => \/ Owed \/ UpToDate
                   \/ \E m \in DOMAIN asked :
                        Newest(m) /\ (asked[m].state = "sent" \/ asked[m].value = lists)
  BY DEF Fetched, UpToDate
<1>3. CASE ListsClicked
  <2>1. PICK u \in Urls, do \in {"toggle", "remove", "add", "import"}, v \in States :
               Clicked(do, u, v)
    BY <1>3, ClickEffect
  <2>2. /\ Ask(do, u, v).do # "fetch" /\ Asked(Ask(do, u, v))
        /\ UNCHANGED <<visit, lists, filterLists, confused>>
    BY <2>1, CallFields DEF Clicked
  <2>3. \A p \in DOMAIN asked' : IsFetch(p)' => p \in DOMAIN asked /\ IsFetch(p)
    BY <2>2 DEF Asked, IsFetch
  <2>4. \A q \in DOMAIN asked : IsFetch(q) => IsFetch(q)'
    BY <2>2 DEF Asked, IsFetch
  <2>5. CASE Owed
    BY <2>2, <2>5 DEF Owed, Asked
  <2>6. CASE UpToDate
    BY <2>2, <2>3, <2>6 DEF UpToDate
  <2>7. ASSUME NEW m \in DOMAIN asked, Newest(m),
               asked[m].state = "sent" \/ asked[m].value = lists
        PROVE  Goal
    <3>1. Newest(m)'
      BY <2>3, <2>4, <2>7 DEF Newest
    <3>2. m \in DOMAIN asked' /\ asked'[m] = asked[m] /\ lists' = lists
      BY <2>2 DEF Asked
    <3>3. QED
      BY <2>7, <3>1, <3>2
  <2>8. QED
    BY <1>2, <2>2, <2>5, <2>6, <2>7
<1>4. CASE Revisit
  <2>1. /\ Asked(Fetch(visit + 1)) /\ visit' = visit + 1
        /\ Fetch(visit + 1).do = "fetch" /\ Fetch(visit + 1).visit = visit + 1
        /\ Fetch(visit + 1).state = "sent"
    BY <1>4, RevisitEffect, CallFields DEF Revisited
  <2>2. \A q \in DOMAIN asked' : q <= Len(asked) + 1
    BY <1>1, <2>1 DEF Asked
  <2>3. PICK m \in DOMAIN asked' : m = Len(asked) + 1 /\ asked'[m] = Fetch(visit + 1)
    BY <2>1 DEF Asked
  <2>4. Newest(m)'
    BY <2>1, <2>2, <2>3 DEF Newest, IsFetch
  <2>5. QED
    BY <2>1, <2>3, <2>4
<1>5. CASE SetType \/ ProxyFlips
  <2>1. UNCHANGED <<asked, visit, lists, filterLists>> /\ ~confused
    BY <1>5, SetTypeEffect DEF ProxyFlips, TypeSet
  <2>2. QED
    BY <1>2, <2>1 DEF Owed, UpToDate, Newest, IsFetch
<1>6. ASSUME NEW i \in DOMAIN asked, ConfigServes(i)
      PROVE  Goal
  <2>1. Served(i) /\ (ServedFetch(i) \/ ServedWrite(i))
    BY <1>6, ServeEffect
  <2>2. /\ DOMAIN asked' = DOMAIN asked
        /\ \A q \in DOMAIN asked : /\ IsFetch(q)' <=> IsFetch(q)
                                   /\ Newest(q)' <=> Newest(q)
    BY <2>1 DEF Served, IsFetch, Newest
  <2>3. Owed => Owed'
    BY <2>1 DEF Served, Owed
  <2>4. CASE ServedFetch(i)
    <3>1. CASE UpToDate
      BY <2>1, <2>2, <2>4, <3>1 DEF UpToDate, Served, ServedFetch
    <3>2. ASSUME NEW m \in DOMAIN asked, Newest(m),
                 asked[m].state = "sent" \/ asked[m].value = lists
          PROVE  Goal
      BY <2>1, <2>2, <2>4, <3>2 DEF Served, ServedFetch
    <3>3. ~confused
      BY <2>4 DEF ServedFetch
    <3>4. QED
      BY <1>2, <2>3, <3>1, <3>2, <3>3
  <2>5. CASE ServedWrite(i) /\ lists' = lists
    <3>1. CASE UpToDate
      BY <2>1, <2>2, <2>5, <3>1 DEF UpToDate, Served
    <3>2. ASSUME NEW m \in DOMAIN asked, Newest(m),
                 asked[m].state = "sent" \/ asked[m].value = lists
          PROVE  Goal
      <4>1. m # i
        BY <2>5, <3>2 DEF ServedWrite, Newest, IsFetch
      <4>2. QED
        BY <2>1, <2>2, <2>5, <3>2, <4>1 DEF Served
    <3>3. ~confused
      BY <2>5 DEF ServedWrite
    <3>4. QED
      BY <1>2, <2>3, <3>1, <3>2, <3>3
  <2>6. CASE ServedWrite(i) /\ lists' # lists
    <3>1. asked[i].do # "fetch" /\ asked'[i].state = "done" /\ ~confused
      BY <2>6 DEF ServedWrite
    <3>2. CASE asked[i].visit = visit
      BY <2>1, <3>1, <3>2 DEF Served, Owed
    <3>3. CASE asked[i].visit # visit
      <4>1. PICK j \in DOMAIN asked : i < j /\ IsFetch(j)
        BY <2>1, <3>1, <3>3 DEF EarlierWrites, Served
      <4>2. ~UpToDate
        BY <4>1 DEF UpToDate
      <4>3. ASSUME NEW m \in DOMAIN asked, Newest(m)
            PROVE  Goal
        <5>1. j <= m
          BY <4>1, <4>3 DEF Newest
        <5>2. i < m
          BY <1>1, <4>1, <5>1
        <5>3. asked[m].state = "sent"
          BY <2>1, <5>2 DEF Ordered, Served
        <5>4. asked'[m] = asked[m]
          <6>1. m # i
            BY <1>1, <5>2
          <6>2. QED
            BY <2>1, <6>1 DEF Served
        <5>5. QED
          BY <2>2, <4>3, <5>3, <5>4
      <4>4. QED
        BY <1>2, <2>3, <3>1, <4>2, <4>3
    <3>4. QED
      BY <3>2, <3>3
  <2>7. QED
    BY <2>1, <2>4, <2>5, <2>6
<1>7. ASSUME NEW i \in DOMAIN asked, NEW more \in BOOLEAN, Returned(i, more), visit' = visit
      PROVE  /\ \A q \in DOMAIN asked : q # i /\ IsFetch(q) => IsFetch(After(i, q))'
             /\ (more /\ asked[i].visit = visit) =>
                  \E m \in DOMAIN asked' : Newest(m)' /\ asked'[m].state = "sent"
             /\ ~(more /\ asked[i].visit = visit) =>
                  /\ \A p \in DOMAIN asked' : IsFetch(p)' =>
                       \E q \in DOMAIN asked : q # i /\ p = After(i, q) /\ IsFetch(q)
                  /\ \A m \in DOMAIN asked : m # i /\ Newest(m) => Newest(After(i, m))'
  <2>1. \A q \in DOMAIN asked : q # i /\ IsFetch(q) => IsFetch(After(i, q))'
    BY <1>7 DEF Returned, IsFetch
  <2>2. ASSUME more, asked[i].visit = visit
        PROVE  \E m \in DOMAIN asked' : Newest(m)' /\ asked'[m].state = "sent"
    <3>1. \A p \in DOMAIN asked' : p <= Len(asked)
      BY <1>1, <1>7 DEF Returned, After
    <3>2. /\ Fetch(asked[i].visit).do = "fetch" /\ Fetch(asked[i].visit).visit = asked[i].visit
          /\ Fetch(asked[i].visit).state = "sent"
      BY CallFields
    <3>3. PICK m \in DOMAIN asked' : m = Len(asked) /\ asked'[m] = Fetch(asked[i].visit)
      BY <1>7, <2>2 DEF Returned
    <3>4. Newest(m)'
      BY <1>7, <2>2, <3>1, <3>2, <3>3 DEF Newest, IsFetch
    <3>5. QED
      BY <3>2, <3>3, <3>4
  <2>3. ASSUME ~(more /\ asked[i].visit = visit)
        PROVE  /\ \A p \in DOMAIN asked' : IsFetch(p)' =>
                    \E q \in DOMAIN asked : q # i /\ p = After(i, q) /\ IsFetch(q)
               /\ \A m \in DOMAIN asked : m # i /\ Newest(m) => Newest(After(i, m))'
    <3>1. Fetch(asked[i].visit).visit = asked[i].visit
      BY CallFields
    <3>2. ASSUME NEW p \in DOMAIN asked', IsFetch(p)'
          PROVE  \E q \in DOMAIN asked : q # i /\ p = After(i, q) /\ IsFetch(q)
      <4>1. CASE more /\ p = Len(asked)
        <5>1. asked'[p] = Fetch(asked[i].visit)
          BY <1>7, <4>1 DEF Returned
        <5>2. QED
          BY <1>7, <2>3, <3>1, <3>2, <4>1, <5>1 DEF IsFetch
      <4>2. CASE ~(more /\ p = Len(asked))
        <5>1. PICK q \in DOMAIN asked : q # i /\ p = After(i, q)
          BY <1>7, <4>2 DEF Returned
        <5>2. asked'[p] = asked[q]
          BY <1>7, <5>1 DEF Returned
        <5>3. QED
          BY <1>7, <3>2, <5>1, <5>2 DEF IsFetch
      <4>3. QED
        BY <4>1, <4>2
    <3>3. ASSUME NEW m \in DOMAIN asked, m # i, Newest(m)
          PROVE  Newest(After(i, m))'
      <4>1. IsFetch(After(i, m))' /\ After(i, m) \in DOMAIN asked'
        BY <1>7, <2>1, <3>3 DEF Newest, Returned
      <4>2. ASSUME NEW p \in DOMAIN asked', IsFetch(p)'
            PROVE  p <= After(i, m)
        <5>1. PICK q \in DOMAIN asked : q # i /\ p = After(i, q) /\ IsFetch(q)
          BY <3>2, <4>2
        <5>2. q <= m
          BY <3>3, <5>1 DEF Newest
        <5>3. QED
          BY <1>1, <3>3, <5>1, <5>2 DEF After
      <4>3. QED
        BY <4>1, <4>2 DEF Newest
    <3>4. QED
      BY <3>2, <3>3
  <2>4. QED
    BY <2>1, <2>2, <2>3
<1>8. ASSUME NEW i \in DOMAIN asked, WriteReturns(i)
      PROVE  Goal
  <2>1. PICK more \in BOOLEAN : WriteReturned(i, more)
    BY <1>8, WriteReturnsEffect
  <2>2. /\ Returned(i, more) /\ visit' = visit /\ lists' = lists /\ filterLists' = filterLists
        /\ ~confused /\ asked[i].do # "fetch"
    BY <2>1 DEF WriteReturned
  <2>3. CASE more /\ asked[i].visit = visit
    BY <1>7, <2>2, <2>3
  <2>4. CASE ~(more /\ asked[i].visit = visit)
    <3>1. CASE Owed
      <4>1. PICK k \in DOMAIN asked :
              asked[k].do # "fetch" /\ asked[k].visit = visit /\ asked[k].state = "done"
        BY <3>1 DEF Owed
      <4>2. k # i
        BY <2>1, <2>4, <4>1 DEF WriteReturned
      <4>3. After(i, k) \in DOMAIN asked' /\ asked'[After(i, k)] = asked[k]
        BY <2>2, <4>2 DEF Returned
      <4>4. Owed'
        BY <2>2, <4>1, <4>3 DEF Owed
      <4>5. QED
        BY <4>4
    <3>2. CASE UpToDate
      BY <1>7, <2>2, <2>4, <3>2 DEF UpToDate
    <3>3. ASSUME NEW m \in DOMAIN asked, Newest(m),
                 asked[m].state = "sent" \/ asked[m].value = lists
          PROVE  Goal
      <4>1. m # i
        BY <2>2, <3>3 DEF Newest, IsFetch
      <4>2. Newest(After(i, m))'
        BY <1>7, <2>2, <2>4, <3>3, <4>1
      <4>3. After(i, m) \in DOMAIN asked' /\ asked'[After(i, m)] = asked[m]
        BY <2>2, <4>1 DEF Returned
      <4>4. QED
        BY <2>2, <3>3, <4>2, <4>3
    <3>4. QED
      BY <1>2, <2>2, <3>1, <3>2, <3>3
  <2>5. QED
    BY <2>3, <2>4
<1>9. ASSUME NEW i \in DOMAIN asked, FetchReturns(i)
      PROVE  Goal
  <2>1. FetchReturned(i)
    BY <1>9, FetchReturnsEffect
  <2>2. /\ Returned(i, FALSE) /\ asked[i].do = "fetch" /\ asked[i].state = "done" /\ ~confused
        /\ UNCHANGED <<lists, visit>>
    <3>1. Returned(i, FALSE) /\ asked[i].do = "fetch" /\ asked[i].state = "done"
      BY <2>1 DEF FetchReturned
    <3>2. UNCHANGED <<lists, visit>>
      BY <2>1 DEF FetchReturned
    <3>3. ~confused
      <4>1. confused' = confused \/ ~confused
        BY <2>1 DEF FetchReturned
      <4>2. QED
        BY <4>1
    <3>4. QED
      BY <3>1, <3>2, <3>3
  <2>3. CASE Owed
    <3>1. PICK k \in DOMAIN asked :
            asked[k].do # "fetch" /\ asked[k].visit = visit /\ asked[k].state = "done"
      BY <2>3 DEF Owed
    <3>2. k # i
      BY <2>2, <3>1
    <3>3. After(i, k) \in DOMAIN asked' /\ asked'[After(i, k)] = asked[k]
      BY <2>2, <3>2 DEF Returned
    <3>4. Owed'
      BY <2>2, <3>1, <3>3 DEF Owed
    <3>5. QED
      BY <3>4
  <2>4. CASE UpToDate
    <3>1. asked[i].visit # visit
      BY <2>2, <2>4 DEF UpToDate, IsFetch
    <3>2. filterLists' = filterLists
      BY <2>1, <3>1 DEF FetchReturned
    <3>3. QED
      BY <1>7, <2>2, <2>4, <3>2 DEF UpToDate
  <2>5. ASSUME NEW m \in DOMAIN asked, Newest(m),
               asked[m].state = "sent" \/ asked[m].value = lists
        PROVE  Goal
    <3>1. CASE m = i
      <4>1. asked[i].visit = visit /\ asked[i].value = lists
        BY <2>2, <2>5, <3>1 DEF Newest, IsFetch
      <4>2. filterLists' = lists' /\ \A j \in DOMAIN asked : j < i => ~IsFetch(j)
        BY <2>1, <2>2, <4>1 DEF FetchReturned
      <4>3. \A j \in DOMAIN asked : j # i => ~IsFetch(j)
        BY <1>1, <2>5, <3>1, <4>2 DEF Newest
      <4>4. \A p \in DOMAIN asked' : ~IsFetch(p)'
        BY <1>7, <2>2, <4>3
      <4>5. QED
        BY <4>2, <4>4 DEF UpToDate
    <3>2. CASE m # i
      <4>1. Newest(After(i, m))'
        BY <1>7, <2>2, <2>5, <3>2
      <4>2. After(i, m) \in DOMAIN asked' /\ asked'[After(i, m)] = asked[m]
        BY <2>2, <3>2 DEF Returned
      <4>3. QED
        BY <2>2, <2>5, <4>1, <4>2
    <3>3. QED
      BY <3>1, <3>2
  <2>6. QED
    BY <1>2, <2>2, <2>3, <2>4, <2>5
<1>10. QED
  BY <1>3, <1>4, <1>5, <1>6, <1>8, <1>9 DEF PageNext
-----------------------------------------------------------------------------
(* The page of the filter lists: its rows. *)

LEMMA ListedStep == PageTyped /\ Listed /\ PageNext => Listed'
<1> SUFFICES ASSUME PageTyped, Listed, PageNext PROVE Listed'
  OBVIOUS
<1>1. CASE ListsClicked
  <2>1. PICK u \in Urls, do \in {"toggle", "remove", "add", "import"}, v \in States :
               Clicked(do, u, v)
    BY <1>1, ClickEffect
  <2>2. \A w \in Urls : row'[w].checked = "absent" <=> row[w].checked = "absent"
    BY <2>1 DEF Clicked
  <2>3. QED
    BY <2>1, <2>2 DEF Clicked, Listed
<1>2. CASE SetType
  BY <1>2, SetTypeEffect DEF TypeSet, Listed
<1>3. CASE Revisit
  BY <1>3, RevisitEffect DEF Revisited, Listed, Nothing
<1>4. CASE ProxyFlips
  BY <1>4 DEF ProxyFlips, Listed
<1>5. ASSUME NEW i \in DOMAIN asked, ConfigServes(i)
      PROVE  Listed'
  BY <1>5, ServeEffect DEF Served, Listed
<1>6. ASSUME NEW i \in DOMAIN asked, WriteReturns(i)
      PROVE  Listed'
  BY <1>6, WriteReturnsEffect DEF WriteReturned, Listed
<1>7. ASSUME NEW i \in DOMAIN asked, FetchReturns(i)
      PROVE  Listed'
  <2>1. FetchReturned(i)
    BY <1>7, FetchReturnsEffect
  <2>2. CASE UNCHANGED <<filterLists, row, custom>>
    BY <2>2 DEF Listed
  <2>3. CASE ~UNCHANGED <<filterLists, row, custom>>
    <3>1. /\ filterLists' = asked[i].value /\ custom' = custom
          /\ ~custom => \A u \in Urls : row'[u].checked = "absent"
          /\ custom => \A u \in Urls :
               IF row[u].checked # "absent" /\ asked[i].value[u] # "absent" THEN row'[u] = row[u]
               ELSE row'[u].checked = asked[i].value[u]
      BY <2>1, <2>3 DEF FetchReturned
    <3>2. QED
      BY <3>1 DEF Listed
  <2>4. QED
    BY <2>2, <2>3
<1>8. QED
  BY <1>1, <1>2, <1>3, <1>4, <1>5, <1>6, <1>7 DEF PageNext

\* f tells where the switchings of u are afterwards.
LEMMA SwitchKept ==
  ASSUME NEW u \in Urls, NEW f,
         \A q \in DOMAIN asked : IsToggle(q, u) => f[q] \in DOMAIN asked' /\ asked'[f[q]] = asked[q],
         \A p \in DOMAIN asked' : IsToggle(p, u)' =>
           \E q \in DOMAIN asked : IsToggle(q, u) /\ p = f[q],
         visit' = visit,
         row'[u].checked = row[u].checked, row[u].busy => row'[u].busy,
         row'[u].mount = row[u].mount,
         lists'[u] \in {lists[u], "absent"}
  PROVE  /\ Settled(u) => Settled(u)'
         /\ Switching(u) => Switching(u)'
<1>1. Settled(u) => Settled(u)'
  BY DEF Settled
<1>2. ASSUME Switching(u) PROVE Switching(u)'
  <2>1. PICK i \in DOMAIN asked :
          /\ IsToggle(i, u) /\ \A j \in DOMAIN asked : IsToggle(j, u) => j = i
          /\ asked[i].visit = visit /\ asked[i].mount = row[u].mount
          /\ asked[i].value = row[u].checked
          /\ \/ asked[i].state = "sent"
             \/ asked[i].state = "done" /\ lists[u] \in {"absent", row[u].checked}
    BY <1>2 DEF Switching
  <2>2. PICK k \in DOMAIN asked' : k = f[i] /\ asked'[k] = asked[i]
    BY <2>1
  <2>3. \A p \in DOMAIN asked' : IsToggle(p, u)' => p = k
    BY <2>1, <2>2
  <2>4. IsToggle(k, u)'
    BY <2>1, <2>2 DEF IsToggle
  <2>5. row'[u].busy
    BY <1>2 DEF Switching
  <2>6. QED
    BY <2>1, <2>2, <2>3, <2>4, <2>5 DEF Switching
<1>3. QED
  BY <1>1, <1>2

LEMMA RowsRightStep == PageTyped /\ RowsRight /\ PageNext => RowsRight'
<1> SUFFICES ASSUME PageTyped, RowsRight, PageNext, ~confused',
                    NEW u \in Urls, row'[u].checked # "absent"
             PROVE  Settled(u)' \/ Switching(u)'
  BY DEF RowsRight
<1>1. ~confused /\ row[u].checked # "absent" => Settled(u) \/ Switching(u)
  BY DEF RowsRight
<1>2. asked \in Seq(AskTypes) /\ row \in [Urls -> RowsType]
  BY DEF PageTyped
<1>3. CASE ListsClicked
  <2>1. PICK w \in Urls, do \in {"toggle", "remove", "add", "import"}, v \in States :
               Clicked(do, w, v)
    BY <1>3, ClickEffect
  <2>2. /\ Asked(Ask(do, w, v)) /\ UNCHANGED <<lists, visit, confused>>
        /\ Ask(do, w, v).do = do /\ Ask(do, w, v).url = w /\ Ask(do, w, v).value = v
        /\ Ask(do, w, v).visit = visit /\ Ask(do, w, v).mount = row[w].mount
        /\ Ask(do, w, v).state = "sent"
    BY <2>1, CallFields DEF Clicked
  <2>3. CASE do = "toggle" /\ w = u
    <3>1. /\ row[u].checked # "absent" /\ row[u].busy = FALSE
          /\ row'[u].checked = v /\ row'[u].busy = TRUE /\ row'[u].mount = row[u].mount
      BY <2>1, <2>3 DEF Clicked
    <3>2. \A i \in DOMAIN asked : ~IsToggle(i, u)
      <4>1. Settled(u)
        BY <1>1, <2>2, <3>1 DEF Switching
      <4>2. QED
        BY <4>1 DEF Settled
    <3>3. PICK m \in DOMAIN asked' : m = Len(asked) + 1 /\ asked'[m] = Ask(do, w, v)
      BY <2>2 DEF Asked
    <3>4. \A p \in DOMAIN asked' : IsToggle(p, u)' => p = m
      BY <2>2, <3>2, <3>3 DEF IsToggle, Asked
    <3>5. IsToggle(m, u)'
      BY <2>2, <2>3, <3>3 DEF IsToggle
    <3>6. Switching(u)'
      BY <2>2, <2>3, <3>1, <3>3, <3>4, <3>5 DEF Switching
    <3>7. QED
      BY <3>6
  <2>4. CASE ~(do = "toggle" /\ w = u)
    <3> DEFINE f == [q \in DOMAIN asked |-> q]
    <3>1. /\ row'[u].checked = row[u].checked /\ row'[u].busy = row[u].busy
          /\ row'[u].mount = row[u].mount
      BY <2>1, <2>4 DEF Clicked
    <3>2. \A q \in DOMAIN asked : f[q] \in DOMAIN asked' /\ asked'[f[q]] = asked[q]
      BY <2>2 DEF Asked
    <3>3. \A p \in DOMAIN asked' : IsToggle(p, u)' =>
            \E q \in DOMAIN asked : IsToggle(q, u) /\ p = f[q]
      <4>1. ASSUME NEW p \in DOMAIN asked', IsToggle(p, u)'
            PROVE  p \in DOMAIN asked /\ IsToggle(p, u)
        BY <2>2, <2>4, <4>1 DEF IsToggle, Asked
      <4>2. QED
        BY <4>1
    <3> HIDE DEF f
    <3>4. /\ Settled(u) => Settled(u)'
          /\ Switching(u) => Switching(u)'
      BY <2>2, <3>1, <3>2, <3>3, SwitchKept
    <3>5. QED
      BY <1>1, <2>2, <3>1, <3>4
  <2>5. QED
    BY <2>3, <2>4
<1>4. CASE SetType
  <2>1. TypeSet
    BY <1>4, SetTypeEffect
  <2>2. /\ row'[u].checked = filterLists[u] /\ ~OutOfDate(u, filterLists[u])
        /\ UNCHANGED <<lists, asked>>
    BY <2>1 DEF TypeSet
  <2>3. Settled(u)'
    BY <2>2 DEF Settled, OutOfDate, IsToggle
  <2>4. QED
    BY <2>3
<1>5. CASE Revisit
  BY <1>5, RevisitEffect DEF Revisited
<1>6. CASE ProxyFlips
  BY <1>1, <1>6 DEF ProxyFlips, Settled, Switching, IsToggle
<1>7. ASSUME NEW i \in DOMAIN asked, ConfigServes(i)
      PROVE  Settled(u)' \/ Switching(u)'
  <2>1. Served(i) /\ (ServedFetch(i) \/ ServedWrite(i))
    BY <1>7, ServeEffect
  <2>2. /\ row' = row /\ visit' = visit
        /\ DOMAIN asked' = DOMAIN asked
        /\ \A j \in DOMAIN asked : IsToggle(j, u)' <=> IsToggle(j, u)
        /\ \A j \in DOMAIN asked : j # i => asked'[j] = asked[j]
    BY <2>1 DEF Served, IsToggle
  <2>3. ~confused
    BY <2>1 DEF ServedFetch, ServedWrite
  <2>4. CASE ~IsToggle(i, u) /\ lists'[u] \in {lists[u], "absent"}
    <3> DEFINE f == [q \in DOMAIN asked |-> q]
    <3>1. /\ \A q \in DOMAIN asked : IsToggle(q, u) =>
               f[q] \in DOMAIN asked' /\ asked'[f[q]] = asked[q]
          /\ \A p \in DOMAIN asked' : IsToggle(p, u)' =>
               \E q \in DOMAIN asked : IsToggle(q, u) /\ p = f[q]
      BY <2>2, <2>4
    <3> HIDE DEF f
    <3>2. /\ Settled(u) => Settled(u)'
          /\ Switching(u) => Switching(u)'
      BY <2>2, <2>4, <3>1, SwitchKept
    <3>3. QED
      BY <1>1, <2>2, <2>3, <3>2
  <2>5. CASE IsToggle(i, u)
    <3>1. asked[i].do = "toggle" /\ asked[i].url = u
      BY <2>5 DEF IsToggle
    <3>2. Switching(u)
      BY <1>1, <2>2, <2>3, <2>5 DEF Settled
    <3>3. /\ row[u].busy /\ \A j \in DOMAIN asked : IsToggle(j, u) => j = i
          /\ asked[i].visit = visit /\ asked[i].mount = row[u].mount
          /\ asked[i].value = row[u].checked
      BY <2>5, <3>2 DEF Switching
    <3>4. /\ asked'[i].state = "done"
          /\ lists' = IF lists[u] # "absent" THEN [lists EXCEPT ![u] = asked[i].value] ELSE lists
      BY <2>1, <3>1 DEF ServedFetch, ServedWrite
    <3>5. lists'[u] \in {"absent", row[u].checked}
      <4>1. lists \in Contents
        BY DEF PageTyped
      <4>2. QED
        BY <3>3, <3>4, <4>1 DEF Contents
    <3>6. asked'[i].visit = asked[i].visit /\ asked'[i].mount = asked[i].mount
          /\ asked'[i].value = asked[i].value
      BY <2>1, <3>1 DEF Served, ServedFetch, ServedWrite
    <3>7. Switching(u)'
      BY <2>2, <2>5, <3>3, <3>4, <3>5, <3>6 DEF Switching
    <3>8. QED
      BY <3>7
  <2>6. CASE ~IsToggle(i, u) /\ lists'[u] \notin {lists[u], "absent"}
    <3>1. /\ ServedWrite(i) /\ lists' # lists
      BY <2>1, <2>6 DEF ServedFetch
    <3>2. /\ asked[i].do # "fetch"
          /\ asked[i].do \in {"add", "import"} => row[asked[i].url].checked = "absent"
          /\ lists' = [lists EXCEPT ![asked[i].url] = asked[i].value]
      BY <3>1 DEF ServedWrite
    <3>3. lists \in Contents
      BY DEF PageTyped
    <3>4. asked[i].url = u
      BY <2>6, <3>2, <3>3 DEF Contents
    <3>5. asked[i].do \in {"toggle", "remove", "add", "import", "fetch"}
      BY AskedFacts
    <3>6. asked[i].do = "remove"
      BY <2>2, <2>6, <3>2, <3>4, <3>5 DEF IsToggle
    <3>7. asked[i].value = "absent"
      BY <3>6 DEF PageTyped
    <3>8. QED
      BY <2>6, <3>2, <3>3, <3>4, <3>7 DEF Contents
  <2>7. QED
    BY <2>4, <2>5, <2>6
<1>8. ASSUME NEW i \in DOMAIN asked, NEW more \in BOOLEAN, Returned(i, more), ~IsToggle(i, u),
             UNCHANGED <<visit, lists>>, ~confused, row'[u].checked = row[u].checked,
             row[u].busy => row'[u].busy, row'[u].mount = row[u].mount
      PROVE  Settled(u)' \/ Switching(u)'
  <2> DEFINE f == [q \in DOMAIN asked |-> After(i, q)]
  <2>1. \A q \in DOMAIN asked : IsToggle(q, u) =>
          f[q] \in DOMAIN asked' /\ asked'[f[q]] = asked[q]
    BY <1>8 DEF Returned
  <2>2. ASSUME NEW p \in DOMAIN asked', IsToggle(p, u)'
        PROVE  \E q \in DOMAIN asked : IsToggle(q, u) /\ p = f[q]
    <3>1. Fetch(asked[i].visit).do = "fetch"
      BY CallFields
    <3>2. PICK q \in DOMAIN asked : q # i /\ p = After(i, q)
      BY <1>8, <2>2, <3>1 DEF Returned, IsToggle
    <3>3. asked'[p] = asked[q]
      BY <1>8, <3>2 DEF Returned
    <3>4. QED
      BY <2>2, <3>2, <3>3 DEF IsToggle
  <2> HIDE DEF f
  <2>3. /\ Settled(u) => Settled(u)'
        /\ Switching(u) => Switching(u)'
    BY <1>8, <2>1, <2>2, SwitchKept
  <2>4. QED
    BY <1>1, <1>8, <2>3
<1>9. ASSUME NEW i \in DOMAIN asked, NEW more \in BOOLEAN, Returned(i, more),
             \A j \in DOMAIN asked : j # i => ~IsToggle(j, u),
             lists'[u] \in {"absent", row'[u].checked}
      PROVE  Settled(u)'
  <2>1. Fetch(asked[i].visit).do = "fetch"
    BY CallFields
  <2>2. \A p \in DOMAIN asked' : ~IsToggle(p, u)'
    BY <1>9, <2>1 DEF Returned, IsToggle
  <2>3. QED
    BY <1>9, <2>2 DEF Settled
<1>10. ASSUME NEW i \in DOMAIN asked, WriteReturns(i)
       PROVE  Settled(u)' \/ Switching(u)'
  <2>1. PICK more \in BOOLEAN : WriteReturned(i, more)
    BY <1>10, WriteReturnsEffect
  <2>2. /\ Returned(i, more) /\ UNCHANGED <<visit, lists, confused>> /\ ~confused
        /\ row[u].checked # "absent" /\ row'[u].mount = row[u].mount
        /\ asked[i].state # "sent"
    BY <2>1 DEF WriteReturned
  <2>3. CASE IsToggle(i, u)
    <3>1. Switching(u)
      BY <1>1, <2>2, <2>3 DEF Settled
    <3>2. /\ \A j \in DOMAIN asked : IsToggle(j, u) => j = i
          /\ asked[i].state = "done" /\ lists[u] \in {"absent", row[u].checked}
      BY <2>2, <2>3, <3>1 DEF Switching
    <3>3. row'[u].checked = row[u].checked
      BY <2>1, <3>2 DEF WriteReturned
    <3>4. QED
      BY <1>9, <2>2, <3>2, <3>3
  <2>4. CASE ~IsToggle(i, u)
    <3>1. row'[u].checked = row[u].checked /\ row'[u].busy = row[u].busy
      BY <2>1, <2>4 DEF WriteReturned, IsToggle
    <3>2. QED
      BY <1>8, <2>2, <2>4, <3>1
  <2>5. QED
    BY <2>3, <2>4
<1>11. ASSUME NEW i \in DOMAIN asked, FetchReturns(i)
       PROVE  Settled(u)' \/ Switching(u)'
  <2>1. FetchReturned(i)
    BY <1>11, FetchReturnsEffect
  <2>2. PICK more \in BOOLEAN : Returned(i, more)
    BY <2>1 DEF FetchReturned
  <2>3. UNCHANGED <<visit, lists>> /\ ~IsToggle(i, u)
    BY <2>1 DEF FetchReturned, IsToggle
  <2>4. ~confused
    <3>1. confused' = confused \/ ~confused
      BY <2>1 DEF FetchReturned
    <3>2. QED
      BY <3>1
  <2>5. CASE row'[u] = row[u]
    BY <1>8, <2>2, <2>3, <2>4, <2>5
  <2>6. CASE row'[u] # row[u]
    <3>1. /\ asked[i].visit = visit
          /\ ~custom => row'[u].checked = "absent"
          /\ custom => IF row[u].checked # "absent" /\ asked[i].value[u] # "absent" THEN row'[u] = row[u]
                       ELSE row'[u].checked = asked[i].value[u]
          /\ custom => (row[u].checked = "absent" => ~OutOfDate(u, asked[i].value[u]))
      BY <2>1, <2>6 DEF FetchReturned
    <3>2. row'[u].checked = asked[i].value[u] /\ ~OutOfDate(u, asked[i].value[u])
      BY <2>6, <3>1
    <3>3. lists[u] = row'[u].checked /\ \A j \in DOMAIN asked : ~IsToggle(j, u)
      BY <3>2 DEF OutOfDate, IsToggle
    <3>4. QED
      BY <1>9, <2>2, <2>3, <3>3
  <2>7. QED
    BY <2>5, <2>6
<1>12. QED
  BY <1>3, <1>4, <1>5, <1>6, <1>7, <1>10, <1>11 DEF PageNext
-----------------------------------------------------------------------------
(* The page of the filter lists: theorem. *)

LEMMA PageInvInit ==
  ASSUME lists \in Contents, FreshPage, asked \in {<<>>, <<Fetch(1)>>},
         asked = <<>> => lists = Nothing
  PROVE  PageInv
<1> USE DEF FreshPage
<1>1. PageTyped /\ Ordered /\ EarlierWrites /\ Fetched
  <2>1. Nothing \in Contents
    BY DEF Nothing, Contents, States
  <2>2. Fetch(1) \in AskTypes /\ 1 \in Nat /\ 1 <= 1
    <3>1. ASSUME NEW n \in Nat PROVE Fetch(n) \in AskTypes
      BY <2>1 DEF Fetch, AskTypes
    <3>2. 1 \in Nat /\ 1 <= 1
      OBVIOUS
    <3>3. QED
      BY <3>1, <3>2
  <2>3. row \in [Urls -> RowsType]
    <3>1. NoRow(0) \in RowsType
      BY DEF NoRow, RowsType, States
    <3>2. QED
      BY <3>1
  <2>4. CASE asked = <<>>
    <3>1. asked \in Seq(AskTypes) /\ DOMAIN asked = {}
      BY <2>4, EmptySeq
    <3>2. PageTyped
      BY <2>1, <2>3, <3>1 DEF PageTyped
    <3>3. QED
      BY <2>4, <3>1, <3>2 DEF Ordered, EarlierWrites, Fetched
  <2>5. CASE asked = <<Fetch(1)>>
    <3>1. DOMAIN asked = {1} /\ asked[1] = Fetch(1) /\ asked \in Seq(AskTypes)
      BY <2>2, <2>5
    <3>2. /\ asked[1].do = "fetch" /\ asked[1].visit = 1 /\ asked[1].value = Nothing
          /\ asked[1].state = "sent"
      BY <3>1, CallFields
    <3>3. PageTyped
      BY <2>1, <2>2, <2>3, <3>1, <3>2 DEF PageTyped
    <3>4. Ordered /\ EarlierWrites
      BY <3>1, <3>2 DEF Ordered, EarlierWrites
    <3>5. Newest(1)
      BY <2>2, <3>1, <3>2 DEF Newest, IsFetch
    <3>6. Fetched
      BY <3>1, <3>2, <3>5 DEF Fetched
    <3>7. QED
      BY <3>3, <3>4, <3>6
  <2>6. QED
    BY <2>4, <2>5
<1>2. \A u \in Urls : row[u].checked = "absent" /\ filterLists[u] = "absent"
  BY DEF NoRow, Nothing
<1>3. Listed /\ RowsRight
  BY <1>2 DEF Listed, RowsRight
<1>4. QED
  BY <1>1, <1>3 DEF PageInv

LEMMA PageInvariance == Spec => []PageInv
<1>1. Init => PageInv
  <2>1. NoPage => PageInv
    BY PageInvInit DEF NoPage, Nothing, Contents, States
  <2>2. PageInit => PageInv
    <3>1. ASSUME PageInit PROVE asked # <<>>
      BY <3>1 DEF PageInit
    <3>2. QED
      BY <3>1, PageInvInit DEF PageInit, Contents
  <2>3. QED
    BY <2>1, <2>2 DEF Init
<1>2. PageInv /\ [Next]_vars => PageInv'
  <2> SUFFICES ASSUME PageInv, [Next]_vars PROVE PageInv'
    OBVIOUS
  <2>1. CASE PageNext
    BY <2>1, PageTypedStep, OrderedStep, EarlierWritesStep, FetchedStep, ListedStep,
       RowsRightStep DEF PageInv
  <2>2. CASE UNCHANGED pageVars
    <3> USE <2>2 DEF pageVars
    <3>1. PageTyped' /\ Ordered' /\ EarlierWrites'
      BY DEF PageInv, PageTyped, Ordered, EarlierWrites, IsFetch, Contents, RowsType, AskTypes
    <3>2. Fetched'
      BY DEF PageInv, Fetched, Owed, Newest, IsFetch
    <3>3. Listed' /\ RowsRight'
      BY DEF PageInv, Listed, RowsRight, Settled, Switching, IsToggle
    <3>4. QED
      BY <3>1, <3>2, <3>3 DEF PageInv
  <2>3. QED
    BY <2>1, <2>2 DEF Next, vars
<1>3. QED
  BY <1>1, <1>2, PTL DEF Spec

\* The page of the filter lists at rest lists what the configuration lists,
\* and its switches stand where the lists do, however toggles, removals,
\* additions, imports, fetches and visits overlapped (FilterLists, its items
\* and Config.update).
THEOREM ListsAreTrue == Spec => []ListsTellTruth
<1>1. PageInv => ListsTellTruth
  <2> SUFFICES ASSUME PageInv, asked = <<>>, ~confused
               PROVE  /\ filterLists = lists
                      /\ custom => \A u \in Urls : row[u].checked = lists[u]
    BY DEF ListsTellTruth
  <2>1. DOMAIN asked = {}
    BY EmptySeq
  <2>2. filterLists = lists
    BY <2>1 DEF PageInv, Fetched, Owed
  <2>3. ASSUME custom, NEW u \in Urls
        PROVE  row[u].checked = lists[u]
    <3>1. row[u].checked = "absent" <=> lists[u] = "absent"
      BY <2>2, <2>3 DEF PageInv, Listed
    <3>2. CASE row[u].checked # "absent"
      <4>1. Settled(u)
        BY <2>1, <3>2 DEF PageInv, RowsRight, Switching
      <4>2. QED
        BY <3>1, <3>2, <4>1 DEF Settled
    <3>3. QED
      BY <3>1, <3>2
  <2>4. QED
    BY <2>2, <2>3
<1>2. QED
  BY <1>1, PageInvariance, PTL
-----------------------------------------------------------------------------
(* The controls: their invariant. *)

SettingsType == SUBSET (Texts \union Libraries \union Apps \union {"on", "allowlist"})
CallTypes ==
  [do : {"get", "set", "reread", "select"}, value : SettingsType,
   before : SettingsType, mount : Nat, state : {"sent", "done", "failed"}]

ControlsTyped ==
  /\ control \in Controls /\ config \in SettingsType /\ running \in BOOLEAN
  /\ mount \in Nat /\ mounts \in Nat /\ mount <= mounts
  /\ shown \in SettingsType /\ loading \in BOOLEAN /\ muddled \in BOOLEAN
  /\ timer \in Seq(SettingsType)
  /\ timer # <<>> => control \in Fields /\ mount > 0 /\ Len(timer) = 1
  /\ calls \in Seq(CallTypes)
  /\ \A i \in DOMAIN calls : 0 < calls[i].mount /\ calls[i].mount <= mounts
  /\ \A i, j \in DOMAIN calls : calls[i].do = "select" /\ calls[j].do = "select" => i = j

\* The lock of the configuration serves the calls in turn, and a mounting asks
\* for its setting after what an earlier one has asked.  Where there is no such
\* lock, calls of two mountings muddle what is shown.
Mine(i) == calls[i].mount = mount
Turns ==
  /\ InTurn => \A i, j \in DOMAIN calls :
       i < j /\ calls[i].state = "sent" => calls[j].state = "sent"
  /\ InTurn /\ mount > 0 => \A i \in DOMAIN calls :
       ~Mine(i) /\ calls[i].do = "set" /\ calls[i].state = "sent"
       => \E j \in DOMAIN calls : i < j /\ Mine(j) /\ calls[j].do = "get"
  /\ ~InTurn /\ mount > 0 /\ ~muddled => \A i \in DOMAIN calls : Mine(i)

\* The control asks, and does nothing else.
Getting ==
  /\ timer = <<>> /\ (control = "AutostartSwitch" => loading)
  /\ \E i \in DOMAIN calls :
       /\ Mine(i) /\ calls[i].do = "get" /\ \A j \in DOMAIN calls : Mine(j) => j = i
       /\ \/ calls[i].state = "sent"
          \/ calls[i].state = "done" /\ calls[i].value = config
          \/ calls[i].state = "failed" /\ control = "AutostartSwitch"

\* Its question has failed.
Unanswered ==
  /\ control = "AutostartSwitch" /\ loading
  /\ \A i \in DOMAIN calls : ~Mine(i)

\* What is in force is what is shown, as it is saved.
Agrees == config = Saved(shown)

\* Saving changes nothing of what is in force.
Stored == config = Saved(config)

\* Of a field and of the applications the last value that is being saved is
\* the one that is shown.
IsSaving(i) == Mine(i) /\ calls[i].do = "set" /\ calls[i].state = "sent"
Saving ==
  /\ control \in Fields \union {"AppRoutingSettings"}
  /\ \A i \in DOMAIN calls : Mine(i) =>
       /\ calls[i].do \in {"set", "select"}
       /\ calls[i].do = "set" => calls[i].state # "failed"
       /\ calls[i].do = "select" => calls[i].before = shown /\ control = "AppRoutingSettings"
  /\ \/ timer = <<shown>>
     \/ timer = <<>> /\ (\A i \in DOMAIN calls : ~IsSaving(i)) /\ Agrees
     \/ /\ timer = <<>>
        /\ \E m \in DOMAIN calls :
             /\ IsSaving(m) /\ \A j \in DOMAIN calls : IsSaving(j) => j <= m
             /\ calls[m].value = shown

\* A switch makes one call at a time, and shows what it has achieved.
Steady ==
  /\ control \in Switches \union {"CAKeyStorageSwitch"}
  /\ \A i \in DOMAIN calls : ~Mine(i)
  /\ shown = config
Switched ==
  /\ control \in Switches \union {"CAKeyStorageSwitch"}
  /\ control # "AutoupdateSwitch" => loading
  /\ \E i \in DOMAIN calls :
       /\ Mine(i) /\ \A j \in DOMAIN calls : Mine(j) => j = i
       /\ \/ /\ calls[i].do = "set" /\ control # "CAKeyStorageSwitch"
             /\ IF calls[i].state = "done" THEN calls[i].value = config ELSE shown = config
          \/ calls[i].do = "set" /\ control = "CAKeyStorageSwitch"
          \/ /\ calls[i].do = "reread" /\ control = "CAKeyStorageSwitch"
             /\ calls[i].state # "failed" /\ (calls[i].state = "sent" \/ calls[i].value = config)

Truthful ==
  mount > 0 /\ ~muddled /\ control # "LibraryList"
  => Getting \/ Unanswered \/ Saving \/ Steady \/ Switched

ControlsInv == ControlsTyped /\ Turns /\ Stored /\ Truthful

-----------------------------------------------------------------------------
(* The controls: what the steps do. *)

LEMMA CallFacts ==
  ASSUME ControlsTyped, NEW i \in DOMAIN calls
  PROVE  /\ calls[i] \in CallTypes
         /\ calls[i].do \in {"get", "set", "reread", "select"}
         /\ calls[i].value \in SettingsType /\ calls[i].before \in SettingsType
         /\ calls[i].mount \in Nat /\ calls[i].state \in {"sent", "done", "failed"}
         /\ calls[i] = [do |-> calls[i].do, value |-> calls[i].value, before |-> calls[i].before,
                        mount |-> calls[i].mount, state |-> calls[i].state]
<1>1. calls[i] \in CallTypes
  <2>1. calls \in Seq(CallTypes)
    BY DEF ControlsTyped
  <2>2. QED
    BY <2>1, LenProperties, ElementOfSeq
<1>2. QED
  BY <1>1 DEF CallTypes

LEMMA SettingsFacts ==
  /\ {} \in SettingsType /\ {"on"} \in SettingsType /\ Libraries \in SettingsType
  /\ \A v \in SettingsType : {"on"} \ v \in SettingsType
  /\ \A v, w \in SettingsType : v \union w \in SettingsType /\ v \ w \in SettingsType
  /\ \A lib \in Libraries : {lib} \in SettingsType
  /\ \A app \in Apps : {app} \in SettingsType
  /\ \A c \in Controls : Settings(c) \subseteq SettingsType
  /\ \A v \in SettingsType : Saved(v) \in SettingsType
<1>1. \A c \in Controls : Settings(c) \subseteq SettingsType
  BY DEF Settings, SettingsType
<1>2. \A v \in SettingsType : Saved(v) \in SettingsType
  BY ControlsAssumption DEF Saved, SettingsType
<1>3. QED
  BY <1>1, <1>2 DEF SettingsType

\* What is saved of a setting is saved as it is.
LEMMA SavedTwice ==
  ASSUME NEW v
  PROVE  Saved(Saved(v)) = Saved(v)
<1>1. CASE control \in Fields \ {"PACPortInput"}
  <2> DEFINE w == {SavedAs[t] : t \in v \intersect Texts}
  <2>1. \A t \in Texts : SavedAs[t] \in Texts /\ SavedAs[SavedAs[t]] = SavedAs[t]
    BY ControlsAssumption
  <2>2. \A s \in w : s \in Texts /\ SavedAs[s] = s
    BY <2>1
  <2>3. {SavedAs[t] : t \in w \intersect Texts} = w
    <3> HIDE DEF w
    <3>1. QED
      BY <2>2
  <2>4. QED
    BY <1>1, <2>3 DEF Saved
<1>2. CASE control \notin Fields \ {"PACPortInput"}
  BY <1>2 DEF Saved
<1>3. QED
  BY <1>1, <1>2

LEMMA AgreesKept ==
  ASSUME UNCHANGED <<control, config, shown>>
  PROVE  Agrees' <=> Agrees
BY DEF Agrees, Saved

LEMMA CallMade ==
  ASSUME NEW do \in {"get", "set", "reread", "select"}, NEW value \in SettingsType,
         NEW before \in SettingsType, ControlsTyped
  PROVE  /\ Call(do, value, before) \in CallTypes
         /\ Call(do, value, before).do = do /\ Call(do, value, before).value = value
         /\ Call(do, value, before).before = before /\ Call(do, value, before).mount = mount
         /\ Call(do, value, before).state = "sent"
<1>1. mount \in Nat
  BY DEF ControlsTyped
<1>2. QED
  BY <1>1 DEF Call, CallTypes

\* A call is made.
Called(call) ==
  /\ Len(calls) + 1 \in DOMAIN calls' /\ calls'[Len(calls) + 1] = call
  /\ \A q \in DOMAIN calls :
       q \in DOMAIN calls' /\ calls'[q] = calls[q] /\ q < Len(calls) + 1
  /\ \A p \in DOMAIN calls' : p \in DOMAIN calls \/ p = Len(calls) + 1

LEMMA CallShape ==
  ASSUME ControlsTyped, NEW call \in CallTypes, calls' = Append(calls, call)
  PROVE  calls' \in Seq(CallTypes) /\ Called(call)
BY AppendShape DEF ControlsTyped, Called

\* The answer to the call at i is heard; another call may be made at once.
Kept(i) ==
  /\ \A q \in DOMAIN calls : q # i =>
       After(i, q) \in DOMAIN calls' /\ calls'[After(i, q)] = calls[q] /\ After(i, q) < Len(calls)
  /\ \A q, r \in DOMAIN calls : q # i /\ r # i => (After(i, q) < After(i, r) <=> q < r)
Gone(i) ==
  /\ Kept(i)
  /\ \A p \in DOMAIN calls' : \E q \in DOMAIN calls : q # i /\ p = After(i, q)
GoneThen(i, call) ==
  /\ Kept(i)
  /\ \A p \in DOMAIN calls' :
       \/ \E q \in DOMAIN calls : q # i /\ p = After(i, q)
       \/ p = Len(calls)
  /\ Len(calls) \in DOMAIN calls' /\ calls'[Len(calls)] = call

LEMMA GoneShape ==
  ASSUME ControlsTyped, NEW i \in DOMAIN calls
  PROVE  /\ calls' = Without(i) => calls' \in Seq(CallTypes) /\ Gone(i)
         /\ \A call \in CallTypes : calls' = Append(Without(i), call) =>
              calls' \in Seq(CallTypes) /\ GoneThen(i, call)
<1>1. calls \in Seq(CallTypes) /\ calls[i] \in CallTypes
  BY CallFacts DEF ControlsTyped
<1>2. ASSUME NEW call \in CallTypes, calls' \in {Without(i), Append(Without(i), call)}
      PROVE  /\ calls' \in Seq(CallTypes) /\ Kept(i)
             /\ \A p \in DOMAIN calls' :
                  \/ \E q \in DOMAIN calls : q # i /\ p = After(i, q)
                  \/ p = Len(calls) /\ calls' = Append(Without(i), call)
             /\ calls' = Append(Without(i), call) =>
                  Len(calls) \in DOMAIN calls' /\ calls'[Len(calls)] = call
             /\ Without(i) # Append(Without(i), call)
  <2>1. calls' \in {RemoveAt(calls, i), Append(RemoveAt(calls, i), call)}
    BY <1>2 DEF Without
  <2>2. /\ calls' \in Seq(CallTypes)
        /\ \A q \in DOMAIN calls : q # i =>
             After(i, q) \in DOMAIN calls' /\ calls'[After(i, q)] = calls[q] /\ After(i, q) < Len(calls)
        /\ \A p \in DOMAIN calls' :
             \/ \E q \in DOMAIN calls : q # i /\ p = After(i, q)
             \/ p = Len(calls) /\ calls' = Append(RemoveAt(calls, i), call)
        /\ calls' = Append(RemoveAt(calls, i), call) =>
             Len(calls) \in DOMAIN calls' /\ calls'[Len(calls)] = call
        /\ RemoveAt(calls, i) # Append(RemoveAt(calls, i), call)
        /\ \A q, r \in DOMAIN calls : q # i /\ r # i => (After(i, q) < After(i, r) <=> q < r)
    BY <1>1, <2>1, RemoveShape
  <2>3. QED
    BY <2>2 DEF Without, Kept
<1>3. calls' = Without(i) => calls' \in Seq(CallTypes) /\ Gone(i)
  BY <1>1, <1>2 DEF Gone
<1>4. \A call \in CallTypes : calls' = Append(Without(i), call) =>
        calls' \in Seq(CallTypes) /\ GoneThen(i, call)
  BY <1>2 DEF GoneThen
<1>5. QED
  BY <1>3, <1>4
\* The user has not crossed what the control still waits for.
Uncrossed ==
  ~muddled' => /\ ~muddled
               /\ \A i \in DOMAIN calls : Mine(i) =>
                    calls[i].do # "get" /\ control # "AutoupdateSwitch"

Typed ==
  /\ control \in Fields /\ timer' = <<shown'>> /\ Len(timer') = 1 /\ Uncrossed
  /\ UNCHANGED <<loading, calls>>
SwitchFlipped(call) ==
  /\ control \in Switches \union {"CAKeyStorageSwitch"}
  /\ control # "AutoupdateSwitch" => ~loading
  /\ call.do = "set" /\ Called(call) /\ loading' = TRUE /\ Uncrossed /\ UNCHANGED <<shown, timer>>
Routed(call) ==
  /\ control = "AppRoutingSettings" /\ Called(call) /\ Uncrossed /\ UNCHANGED timer
  /\ \/ call.do = "set" /\ call.value = shown'
     \/ call.do = "select" /\ call.before = shown /\ UNCHANGED shown
Listing(call) == control = "LibraryList" /\ call.do = "set" /\ Called(call) /\ UNCHANGED timer
Idling == UNCHANGED <<shown, loading, timer, calls, muddled>>

Acted ==
  /\ mount > 0 /\ ~InFlight("select")
  /\ UNCHANGED <<control, config, running, mount, mounts>>
  /\ \/ Typed \/ Idling
     \/ \E call \in CallTypes :
          /\ call.mount = mount /\ call.state = "sent"
          /\ SwitchFlipped(call) \/ Routed(call) \/ Listing(call)

LEMMA EditEffect ==
  ASSUME ControlsTyped, NEW v \in SettingsType, Edit(v), control \in Fields
  PROVE  /\ Typed /\ shown' \in SettingsType /\ loading' \in BOOLEAN /\ muddled' \in BOOLEAN
         /\ timer' \in Seq(SettingsType) /\ calls' \in Seq(CallTypes)
<1>1. timer' = <<v>> /\ shown' = v /\ UNCHANGED <<loading, calls>>
  BY DEF Edit
<1>2. <<v>> \in Seq(SettingsType) /\ Len(<<v>>) = 1
  OBVIOUS
<1>3. Uncrossed /\ muddled' \in BOOLEAN
  BY DEF Edit, Edited, Uncrossed, Mine, ControlsTyped
<1>4. QED
  BY <1>1, <1>2, <1>3 DEF Typed, ControlsTyped

LEMMA SendEffect ==
  ASSUME ControlsTyped, NEW call \in CallTypes, NEW b \in BOOLEAN, Send(call, b)
  PROVE  /\ Called(call) /\ calls' \in Seq(CallTypes) /\ loading' = b /\ muddled' \in BOOLEAN
         /\ Uncrossed /\ UNCHANGED <<open, timer>>
<1>1. calls' = Append(calls, call) /\ loading' = b /\ UNCHANGED <<open, timer>>
  BY DEF Send
<1>2. Uncrossed /\ muddled' \in BOOLEAN
  BY DEF Send, Edited, Uncrossed, Mine, ControlsTyped
<1>3. QED
  BY <1>1, <1>2, CallShape

LEMMA FlipEffect ==
  ASSUME ControlsTyped, Flip
  PROVE  /\ calls' \in Seq(CallTypes) /\ loading' = TRUE /\ muddled' \in BOOLEAN
         /\ Uncrossed /\ UNCHANGED <<shown, open, timer>>
         /\ \E call \in CallTypes :
              call.mount = mount /\ call.state = "sent" /\ call.do = "set" /\ Called(call)
<1> DEFINE call == Call("set", {"on"} \ shown, shown)
<1>1. shown \in SettingsType /\ {"on"} \ shown \in SettingsType
  BY SettingsFacts DEF ControlsTyped
<1>2. call \in CallTypes /\ call.mount = mount /\ call.state = "sent" /\ call.do = "set"
  BY <1>1, CallMade
<1>3. Send(call, TRUE) /\ UNCHANGED shown
  BY DEF Flip
<1> HIDE DEF call
<1>4. calls' = Append(calls, call) /\ loading' = TRUE /\ UNCHANGED <<open, timer>>
  BY <1>3 DEF Send
<1>5. Uncrossed /\ muddled' \in BOOLEAN
  BY <1>3 DEF Send, Edited, Uncrossed, Mine, ControlsTyped
<1>6. calls' \in Seq(CallTypes) /\ Called(call)
  BY <1>2, <1>4, CallShape
<1>7. QED
  BY <1>2, <1>3, <1>4, <1>5, <1>6

LEMMA UserEffect ==
  ASSUME ControlsTyped, UserActs
  PROVE  /\ Acted /\ shown' \in SettingsType /\ loading' \in BOOLEAN /\ muddled' \in BOOLEAN
         /\ timer' \in Seq(SettingsType) /\ calls' \in Seq(CallTypes)
<1>1. /\ shown \in SettingsType /\ loading \in BOOLEAN /\ muddled \in BOOLEAN
      /\ timer \in Seq(SettingsType) /\ calls \in Seq(CallTypes) /\ control \in Controls
  BY DEF ControlsTyped
<1>2. ~InFlight("select") /\ UNCHANGED <<control, config, running, mount, mounts>>
  BY DEF UserActs, Act
<1>3. CASE Rules \/ IgnoredHostsInput \/ PortInput \/ PACPortInput \/ CustomResourceDir
  <2>1. mount > 0 /\ control \in Fields
    BY <1>3 DEF Rules, IgnoredHostsInput, PortInput, PACPortInput, CustomResourceDir, On, Fields
  <2>2. PICK v \in Settings(control) : Edit(v)
    BY <1>3 DEF Rules, IgnoredHostsInput, PortInput, PACPortInput, CustomResourceDir, On
  <2>3. v \in SettingsType
    BY <1>1, SettingsFacts
  <2>4. /\ Typed /\ shown' \in SettingsType /\ loading' \in BOOLEAN /\ muddled' \in BOOLEAN
        /\ timer' \in Seq(SettingsType) /\ calls' \in Seq(CallTypes)
    BY <2>1, <2>2, <2>3, EditEffect
  <2>5. QED
    BY <1>2, <2>1, <2>4 DEF Acted
<1>4. ASSUME mount > 0, control \in Switches \union {"CAKeyStorageSwitch"}, Flip,
             control # "AutoupdateSwitch" => ~loading
      PROVE  /\ Acted /\ shown' \in SettingsType /\ loading' \in BOOLEAN /\ muddled' \in BOOLEAN
             /\ timer' \in Seq(SettingsType) /\ calls' \in Seq(CallTypes)
  <2>1. /\ calls' \in Seq(CallTypes) /\ loading' = TRUE /\ muddled' \in BOOLEAN
        /\ Uncrossed /\ UNCHANGED <<shown, open, timer>>
    BY <1>4, FlipEffect
  <2>2. PICK call \in CallTypes :
          call.mount = mount /\ call.state = "sent" /\ call.do = "set" /\ Called(call)
    BY <1>4, FlipEffect
  <2>3. SwitchFlipped(call)
    BY <1>4, <2>1, <2>2 DEF SwitchFlipped
  <2>4. QED
    BY <1>1, <1>2, <1>4, <2>1, <2>2, <2>3 DEF Acted
<1>5. CASE EnableToggle \/ BlockMissingToggle \/ AutostartSwitch \/ AutoupdateSwitch
  <2>1. /\ mount > 0 /\ control \in Switches /\ Flip
        /\ control # "AutoupdateSwitch" => ~loading
    BY <1>5 DEF EnableToggle, BlockMissingToggle, AutostartSwitch, AutoupdateSwitch, On,
       Switches, Disabled
  <2>2. QED
    BY <1>4, <2>1
<1>6. CASE CAKeyStorageSwitch
  <2>1. mount > 0 /\ control = "CAKeyStorageSwitch" /\ UNCHANGED shown
    BY <1>6 DEF CAKeyStorageSwitch, On
  <2>2. CASE ~loading /\ Flip
    BY <1>4, <2>1, <2>2
  <2>3. CASE UNCHANGED <<timer, loading, calls, muddled>>
    BY <1>1, <1>2, <2>1, <2>3 DEF Acted, Idling
  <2>4. QED
    BY <1>6, <2>2, <2>3 DEF CAKeyStorageSwitch
<1>7. CASE LibraryList
  <2>1. mount > 0 /\ control = "LibraryList" /\ UNCHANGED shown
    BY <1>7 DEF LibraryList, On
  <2>2. PICK lib \in Libraries : Send(Call("set", {lib}, shown), TRUE)
    BY <1>7 DEF LibraryList
  <2>3. PICK call \in CallTypes :
          /\ call = Call("set", {lib}, shown)
          /\ call.mount = mount /\ call.state = "sent" /\ call.do = "set"
    <3>1. {lib} \in SettingsType
      BY SettingsFacts
    <3>2. QED
      BY <1>1, <3>1, CallMade
  <2>4. PICK b \in BOOLEAN : Send(call, b)
    BY <2>2, <2>3
  <2>5. /\ Called(call) /\ calls' \in Seq(CallTypes) /\ loading' = b /\ muddled' \in BOOLEAN
        /\ UNCHANGED timer
    BY <2>4, SendEffect
  <2>6. Listing(call)
    BY <2>1, <2>3, <2>5 DEF Listing
  <2>7. QED
    BY <1>1, <1>2, <2>1, <2>3, <2>5, <2>6 DEF Acted
<1>8. CASE AppRoutingSettings
  <2>1. mount > 0 /\ control = "AppRoutingSettings"
    BY <1>8 DEF AppRoutingSettings, On
  <2>2. PICK do \in {"set", "select"}, v \in SettingsType :
          /\ Send(Call(do, v, shown), FALSE)
          /\ do = "set" => shown' = v
          /\ do = "select" => shown' = shown
    <3>1. ASSUME SaveRouting(Toggled("allowlist"), shown)
          PROVE  Toggled("allowlist") \in SettingsType
      BY <1>1 DEF Toggled, SettingsType
    <3>2. \A app \in shown \intersect Apps : shown \ {app} \in SettingsType
      BY <1>1 DEF SettingsType
    <3>3. {} \in SettingsType
      BY SettingsFacts
    <3>4. QED
      BY <1>8, <3>1, <3>2, <3>3 DEF AppRoutingSettings, SaveRouting
  <2>3. PICK call \in CallTypes :
          /\ call = Call(do, v, shown)
          /\ call.mount = mount /\ call.state = "sent" /\ call.do = do
          /\ call.value = v /\ call.before = shown
    BY <1>1, CallMade
  <2>4. PICK b \in BOOLEAN : Send(call, b)
    BY <2>2, <2>3
  <2>5. /\ Called(call) /\ calls' \in Seq(CallTypes) /\ loading' = b /\ muddled' \in BOOLEAN
        /\ Uncrossed /\ UNCHANGED timer
    BY <2>4, SendEffect
  <2>6. Routed(call) /\ shown' \in SettingsType
    BY <1>1, <2>1, <2>2, <2>3, <2>5 DEF Routed
  <2>7. QED
    BY <1>1, <1>2, <2>1, <2>3, <2>5, <2>6 DEF Acted
<1>9. QED
  BY <1>3, <1>5, <1>6, <1>7, <1>8 DEF UserActs
\* The control is mounted: it asks for its setting.
MountedAnew(call) ==
  /\ mount = 0 /\ mount' = mounts + 1 /\ mounts' = mounts + 1 /\ ~InFlight("select")
  /\ call.do = "get" /\ call.mount = mounts + 1 /\ call.state = "sent" /\ Called(call)
  /\ timer' = <<>> /\ (~muddled' => InTurn \/ calls = <<>>)
  /\ control = "AutostartSwitch" => loading'
  /\ UNCHANGED <<control, config, running>>

LEMMA MountEffect ==
  ASSUME ControlsTyped, Mount
  PROVE  /\ shown' \in SettingsType /\ loading' \in BOOLEAN /\ muddled' \in BOOLEAN
         /\ calls' \in Seq(CallTypes)
         /\ \E call \in CallTypes : MountedAnew(call)
<1> DEFINE call == [Call("get", {}, {}) EXCEPT !.mount = mounts + 1]
<1>1. mounts \in Nat /\ mounts + 1 \in Nat /\ {} \in SettingsType
  BY SettingsFacts DEF ControlsTyped
<1>2. call = [do |-> "get", value |-> {}, before |-> {}, mount |-> mounts + 1, state |-> "sent"]
  BY DEF Call
<1>3. /\ call \in CallTypes /\ call.do = "get" /\ call.mount = mounts + 1
      /\ call.state = "sent"
  BY <1>1, <1>2 DEF CallTypes
<1> HIDE DEF call
<1>4. calls' = Append(calls, call)
  BY DEF Mount, call
<1>5. Called(call) /\ calls' \in Seq(CallTypes)
  BY <1>3, <1>4, CallShape
<1>6. shown' \in SettingsType /\ loading' \in BOOLEAN /\ muddled' \in BOOLEAN
  BY SettingsFacts DEF Mount, AtFirst
<1>7. MountedAnew(call)
  BY <1>3, <1>5 DEF Mount, MountedAnew, Act
<1>8. QED
  BY <1>3, <1>5, <1>6, <1>7

\* The backend performs the call at i.
Performed(i) ==
  /\ i \in DOMAIN calls /\ DOMAIN calls' = DOMAIN calls
  /\ \A j \in DOMAIN calls : j # i => calls'[j] = calls[j]
  /\ calls[i].state = "sent" /\ calls'[i].state \in {"done", "failed"}
  /\ InTurn => \A j \in DOMAIN calls : j < i => calls[j].state # "sent"
  /\ calls'[i].do = calls[i].do /\ calls'[i].before = calls[i].before
  /\ calls'[i].mount = calls[i].mount
  /\ UNCHANGED <<control, running, mount, shown, loading, timer, mounts>>

SetPerformed(i) ==
  /\ calls[i].do = "set" /\ calls'[i].value = calls[i].value
  /\ ~muddled' =>
       /\ ~muddled
       /\ \/ calls'[i].state = "done" /\ config' = Written(calls[i])
          \/ /\ calls'[i].state = "failed" /\ config' = config
             /\ control \in {"AutostartSwitch", "CAKeyStorageSwitch"}
GetPerformed(i) ==
  /\ calls[i].do \in {"get", "reread"} /\ UNCHANGED <<config, muddled>>
  /\ \/ calls'[i].state = "done" /\ calls'[i].value = InEffect(config)
     \/ calls'[i].state = "failed" /\ calls[i].do = "get" /\ control = "AutostartSwitch"
SelectPerformed(i) == calls[i].do = "select" /\ UNCHANGED <<config, muddled>>

LEMMA PerformEffect ==
  ASSUME ControlsTyped, NEW i \in DOMAIN calls, Perform(i)
  PROVE  /\ Performed(i) /\ (SetPerformed(i) \/ GetPerformed(i) \/ SelectPerformed(i))
         /\ config' \in SettingsType /\ muddled' \in BOOLEAN /\ calls' \in Seq(CallTypes)
<1>1. /\ calls[i] \in CallTypes /\ calls[i].value \in SettingsType /\ calls[i].state = "sent"
      /\ calls[i] = [do |-> calls[i].do, value |-> calls[i].value, before |-> calls[i].before,
                     mount |-> calls[i].mount, state |-> calls[i].state]
      /\ calls \in Seq(CallTypes) /\ config \in SettingsType /\ muddled \in BOOLEAN
  BY CallFacts DEF Perform, ControlsTyped
<1>2. InTurn => \A j \in DOMAIN calls : j < i => calls[j].state # "sent"
  <2>1. DOMAIN calls = 1 .. Len(calls) /\ Len(calls) \in Nat
    BY <1>1, LenProperties
  <2>2. \A j \in DOMAIN calls : j < i => j \in 1 .. i - 1
    BY <2>1
  <2>3. QED
    BY <2>2 DEF Perform
<1>3. UNCHANGED <<control, running, mount, shown, loading, timer, mounts>>
  BY DEF Perform
<1> DEFINE With(v, s) == [do |-> calls[i].do, value |-> v, before |-> calls[i].before,
                          mount |-> calls[i].mount, state |-> s]
<1>4. ASSUME NEW v \in SettingsType, NEW s \in {"done", "failed"},
             calls' = [calls EXCEPT ![i] = With(v, s)]
      PROVE  /\ Performed(i) /\ calls' \in Seq(CallTypes)
             /\ calls'[i].value = v /\ calls'[i].state = s
  <2>1. With(v, s) \in CallTypes
    BY <1>1 DEF CallTypes
  <2> HIDE DEF With
  <2>2. /\ calls' \in Seq(CallTypes) /\ DOMAIN calls' = DOMAIN calls
        /\ calls'[i] = With(v, s) /\ \A j \in DOMAIN calls : j # i => calls'[j] = calls[j]
    BY <1>1, <1>4, <2>1, ExceptShape
  <2>3. QED
    BY <1>1, <1>2, <1>3, <2>2 DEF Performed, With
<1>5. ASSUME NEW s \in {"done", "failed"}, calls' = [calls EXCEPT ![i].state = s]
      PROVE  /\ Performed(i) /\ calls' \in Seq(CallTypes)
             /\ calls'[i].value = calls[i].value /\ calls'[i].state = s
  <2>1. [calls[i] EXCEPT !.state = s] = With(calls[i].value, s)
    BY <1>1
  <2>2. calls' = [calls EXCEPT ![i] = [calls[i] EXCEPT !.state = s]]
    BY <1>5
  <2>3. calls' = [calls EXCEPT ![i] = With(calls[i].value, s)]
    BY <2>1, <2>2
  <2>4. QED
    BY <1>1, <1>4, <2>3
<1>6. ASSUME NEW v \in SettingsType,
             calls' = [calls EXCEPT ![i].state = "done", ![i].value = v]
      PROVE  /\ Performed(i) /\ calls' \in Seq(CallTypes)
             /\ calls'[i].value = v /\ calls'[i].state = "done"
  <2>1. [calls[i] EXCEPT !.state = "done", !.value = v] = With(v, "done")
    <3>1. [calls[i] EXCEPT !.state = "done"] = With(calls[i].value, "done")
      BY <1>1
    <3>2. [With(calls[i].value, "done") EXCEPT !.value = v] = With(v, "done")
      OBVIOUS
    <3>3. [calls[i] EXCEPT !.state = "done", !.value = v]
          = [[calls[i] EXCEPT !.state = "done"] EXCEPT !.value = v]
      OBVIOUS
    <3>4. QED
      BY <3>1, <3>2, <3>3
  <2>2. calls' = [calls EXCEPT ![i] = [calls[i] EXCEPT !.state = "done", !.value = v]]
    BY <1>6
  <2>3. calls' = [calls EXCEPT ![i] = With(v, "done")]
    BY <2>1, <2>2
  <2>4. QED
    BY <1>4, <2>3
<1> HIDE DEF With
<1>7. Written(calls[i]) \in SettingsType
  BY <1>1, SettingsFacts DEF Written
<1>8. CASE calls[i].do = "set" /\ PerformSet(i)
  <2>1. PICK s \in {"done", "failed"} : calls' = [calls EXCEPT ![i].state = s]
    BY <1>8 DEF PerformSet
  <2>2. /\ Performed(i) /\ calls' \in Seq(CallTypes)
        /\ calls'[i].value = calls[i].value /\ calls'[i].state = s
    BY <1>5, <2>1
  <2>3. config' \in SettingsType /\ muddled' \in BOOLEAN
    BY <1>1, <1>7, <1>8 DEF PerformSet
  <2>4. ASSUME ~muddled'
        PROVE  /\ ~muddled
               /\ \/ calls'[i].state = "done" /\ config' = Written(calls[i])
                  \/ /\ calls'[i].state = "failed" /\ config' = config
                     /\ control \in {"AutostartSwitch", "CAKeyStorageSwitch"}
    <3>1. CASE config' = Written(calls[i]) /\ calls' = [calls EXCEPT ![i].state = "done"]
               /\ UNCHANGED muddled
      <4>1. calls'[i].state = "done"
        BY <1>5, <3>1
      <4>2. ~muddled
        BY <2>4, <3>1
      <4>3. QED
        BY <3>1, <4>1, <4>2
    <3>2. CASE /\ MayRefuse \/ Refuses
               /\ calls' = [calls EXCEPT ![i].state = "failed"]
               /\ muddled' = (muddled \/ control \in Fields) /\ UNCHANGED config
      <4>1. calls'[i].state = "failed"
        BY <1>5, <3>2
      <4>2. ~muddled /\ control \notin Fields
        BY <2>4, <3>2
      <4>3. control \in {"AutostartSwitch", "CAKeyStorageSwitch"}
        BY <3>2, <4>2 DEF MayRefuse, Refuses, Fields
      <4>4. QED
        BY <3>2, <4>1, <4>2, <4>3
    <3>3. QED
      BY <1>8, <2>4, <3>1, <3>2 DEF PerformSet
  <2>5. SetPerformed(i)
    BY <1>8, <2>2, <2>4 DEF SetPerformed
  <2>6. QED
    BY <2>2, <2>3, <2>5
<1>9. CASE /\ calls[i].do \in {"get", "reread"}
           /\ calls' = [calls EXCEPT ![i].state = "done", ![i].value = InEffect(config)]
           /\ UNCHANGED <<config, muddled>>
  <2>1. InEffect(config) \in SettingsType
    BY <1>1, SettingsFacts DEF InEffect
  <2>2. /\ Performed(i) /\ calls' \in Seq(CallTypes)
        /\ calls'[i].value = InEffect(config) /\ calls'[i].state = "done"
    BY <1>6, <1>9, <2>1
  <2>3. GetPerformed(i)
    BY <1>9, <2>2 DEF GetPerformed
  <2>4. QED
    BY <1>1, <1>9, <2>2, <2>3
<1>10. CASE /\ calls[i].do = "select"
            /\ \E chosen \in {{}} \union {{app} : app \in Apps} :
                 calls' = [calls EXCEPT ![i].state = "done", ![i].value = chosen]
            /\ UNCHANGED <<config, muddled>>
  <2>1. PICK v \in {{}} \union {{app} : app \in Apps} :
          calls' = [calls EXCEPT ![i].state = "done", ![i].value = v]
    BY <1>10
  <2>2. v \in SettingsType
    BY SettingsFacts
  <2>3. Performed(i) /\ calls' \in Seq(CallTypes)
    BY <1>6, <2>1, <2>2
  <2>4. SelectPerformed(i)
    BY <1>10 DEF SelectPerformed
  <2>5. QED
    BY <1>1, <1>10, <2>3, <2>4
<1>11. CASE /\ calls[i].do = "get" /\ control = "AutostartSwitch"
            /\ calls' = [calls EXCEPT ![i].state = "failed"]
            /\ UNCHANGED <<config, muddled>>
  <2>1. Performed(i) /\ calls' \in Seq(CallTypes) /\ calls'[i].state = "failed"
    BY <1>5, <1>11
  <2>2. GetPerformed(i)
    BY <1>11, <2>1 DEF GetPerformed
  <2>3. QED
    BY <1>1, <1>11, <2>1, <2>2
<1>12. QED
  BY <1>8, <1>9, <1>10, <1>11 DEF Perform
\* The window is told what became of the call at i.
Told(i) ==
  /\ calls[i].state # "sent"
  /\ UNCHANGED <<control, config, running, mount, timer, mounts, muddled>>
Foreign(i) == ~Mine(i) /\ Gone(i) /\ UNCHANGED <<shown, loading>>
ReadBack(i) ==
  /\ Mine(i) /\ calls[i].do \in {"get", "reread"} /\ calls[i].state = "done" /\ Gone(i)
  /\ shown' = calls[i].value /\ loading' = FALSE
ReadFailed(i) ==
  /\ Mine(i) /\ calls[i].do \in {"get", "reread"} /\ calls[i].state = "failed" /\ Gone(i)
  /\ UNCHANGED <<shown, loading>>
SwitchDone(i) ==
  /\ Mine(i) /\ calls[i].do = "set" /\ control \in Switches /\ Gone(i)
  /\ shown' = (IF calls[i].state = "done" THEN calls[i].value ELSE shown) /\ loading' = FALSE
SaveDone(i) ==
  /\ Mine(i) /\ calls[i].do = "set" /\ Gone(i)
  /\ \/ control \in Fields /\ UNCHANGED shown
     \/ control = "AppRoutingSettings" /\ (calls[i].state # "failed" => UNCHANGED shown)
     \/ control = "LibraryList"
Rereads(i) ==
  /\ Mine(i) /\ calls[i].do = "set" /\ control = "CAKeyStorageSwitch" /\ UNCHANGED <<shown, loading>>
  /\ \E call \in CallTypes : /\ call.do = "reread" /\ call.mount = mount /\ call.state = "sent"
                             /\ GoneThen(i, call)
Selected(i) ==
  /\ Mine(i) /\ calls[i].do = "select"
  /\ \/ Gone(i) /\ UNCHANGED shown
     \/ \E call \in CallTypes : /\ call.do = "set" /\ call.mount = mount /\ call.state = "sent"
                                /\ call.value = shown' /\ GoneThen(i, call)

LEMMA ReturnEffect ==
  ASSUME ControlsTyped, NEW i \in DOMAIN calls, Return(i)
  PROVE  /\ shown' \in SettingsType /\ loading' \in BOOLEAN /\ calls' \in Seq(CallTypes)
         /\ Told(i)
         /\ \/ Foreign(i) \/ ReadBack(i) \/ ReadFailed(i) \/ SwitchDone(i) \/ SaveDone(i)
           \/ Rereads(i) \/ Selected(i)
<1>1. /\ shown \in SettingsType /\ loading \in BOOLEAN /\ control \in Controls
      /\ calls[i].value \in SettingsType /\ calls[i].before \in SettingsType
      /\ mount \in Nat
  BY CallFacts DEF ControlsTyped
<1>2. Told(i)
  BY DEF Return, Told
<1>3. calls' = Without(i) => calls' \in Seq(CallTypes) /\ Gone(i)
  BY GoneShape
<1>4. CASE ~Mine(i)
  <2>1. calls' = Without(i) /\ UNCHANGED <<shown, loading>>
    BY <1>4 DEF Return, Mine
  <2>2. QED
    BY <1>1, <1>2, <1>3, <1>4, <2>1 DEF Foreign
<1>5. CASE /\ Mine(i) /\ calls[i].do \in {"get", "reread"}
           /\ AfterRead(calls[i]) /\ calls' = Without(i)
  <2>1. calls[i].state \in {"done", "failed"}
    BY CallFacts DEF Return
  <2>2. CASE calls[i].state = "done"
    <3>1. shown' = calls[i].value /\ loading' = FALSE
      BY <1>5, <2>2 DEF AfterRead
    <3>2. QED
      BY <1>1, <1>2, <1>3, <1>5, <2>2, <3>1 DEF ReadBack
  <2>3. CASE calls[i].state = "failed"
    <3>1. UNCHANGED <<shown, loading>>
      BY <1>5, <2>3 DEF AfterRead
    <3>2. QED
      BY <1>1, <1>2, <1>3, <1>5, <2>3, <3>1 DEF ReadFailed
  <2>4. QED
    BY <2>1, <2>2, <2>3
<1>6. CASE Mine(i) /\ calls[i].do = "set" /\ AfterSet(calls[i], i)
  <2>1. CASE control \in Switches /\ SwitchSet(calls[i]) /\ calls' = Without(i)
    <3>1. /\ shown' = (IF calls[i].state = "done" THEN calls[i].value ELSE shown)
          /\ loading' = FALSE
      BY <2>1 DEF SwitchSet
    <3>2. QED
      BY <1>1, <1>2, <1>3, <1>6, <2>1, <3>1 DEF SwitchDone
  <2>2. CASE control = "LibraryList" /\ LibrarySet(calls[i]) /\ calls' = Without(i)
    <3>1. shown' \in SettingsType /\ loading' \in BOOLEAN
      BY <1>1, <2>2, SettingsFacts DEF LibrarySet
    <3>2. QED
      BY <1>2, <1>3, <1>6, <2>2, <3>1 DEF SaveDone
  <2>3. CASE control \in Fields /\ calls' = Without(i) /\ UNCHANGED <<shown, loading>>
    BY <1>1, <1>2, <1>3, <1>6, <2>3 DEF SaveDone
  <2>4. CASE /\ control = "AppRoutingSettings" /\ calls' = Without(i)
             /\ shown' = (IF calls[i].state = "failed" THEN calls[i].before ELSE shown)
             /\ UNCHANGED loading
    BY <1>1, <1>2, <1>3, <1>6, <2>4 DEF SaveDone
  <2>5. CASE /\ control = "CAKeyStorageSwitch"
             /\ calls' = Append(Without(i), Call("reread", {}, {}))
             /\ UNCHANGED <<shown, loading>>
    <3>1. {} \in SettingsType
      BY SettingsFacts
    <3>2. PICK call \in CallTypes :
            /\ call = Call("reread", {}, {})
            /\ call.do = "reread" /\ call.mount = mount /\ call.state = "sent"
      BY <3>1, CallMade
    <3>3. calls' \in Seq(CallTypes) /\ GoneThen(i, call)
      BY <2>5, <3>2, GoneShape
    <3>4. QED
      BY <1>1, <1>2, <1>6, <2>5, <3>2, <3>3 DEF Rereads
  <2>6. QED
    BY <1>6, <2>1, <2>2, <2>3, <2>4, <2>5 DEF AfterSet
<1>7. CASE /\ Mine(i) /\ calls[i].do = "select"
           /\ AfterSelect(calls[i], i) /\ UNCHANGED <<loading, open>>
  <2>1. CASE calls' = Without(i) /\ UNCHANGED shown
    BY <1>1, <1>2, <1>3, <1>7, <2>1 DEF Selected
  <2>2. CASE /\ calls' = Append(Without(i),
                                Call("set", calls[i].before \union calls[i].value, calls[i].before))
             /\ shown' = calls[i].before \union calls[i].value
    <3>1. calls[i].before \union calls[i].value \in SettingsType
      BY <1>1, SettingsFacts
    <3>2. PICK call \in CallTypes :
            /\ call = Call("set", calls[i].before \union calls[i].value, calls[i].before)
            /\ call.do = "set" /\ call.mount = mount /\ call.state = "sent"
            /\ call.value = calls[i].before \union calls[i].value
      BY <1>1, <3>1, CallMade
    <3>3. calls' \in Seq(CallTypes) /\ GoneThen(i, call)
      BY <2>2, <3>2, GoneShape
    <3>4. call.value = shown'
      BY <2>2, <3>2
    <3>5. Selected(i)
      BY <1>7, <3>2, <3>3, <3>4 DEF Selected
    <3>6. QED
      BY <1>1, <1>2, <1>7, <2>2, <3>1, <3>3, <3>5
  <2>3. QED
    BY <1>7, <2>1, <2>2 DEF AfterSelect
<1>8. QED
  BY <1>4, <1>5, <1>6, <1>7 DEF Return, Mine
-----------------------------------------------------------------------------
(* The controls: types. *)

\* One call is as the type of the calls has it, and only one selects.
Numbered(call, n) == 0 < call.mount /\ call.mount <= n
OneSelects ==
  \A i, j \in DOMAIN calls : calls[i].do = "select" /\ calls[j].do = "select" => i = j

LEMMA ControlsTypedStep == ControlsTyped /\ ControlsNext => ControlsTyped'
<1> SUFFICES ASSUME ControlsTyped, ControlsNext PROVE ControlsTyped'
  OBVIOUS
<1>1. /\ control \in Controls /\ config \in SettingsType /\ running \in BOOLEAN
      /\ mount \in Nat /\ mounts \in Nat /\ mount <= mounts
      /\ shown \in SettingsType /\ loading \in BOOLEAN /\ muddled \in BOOLEAN
      /\ timer \in Seq(SettingsType) /\ calls \in Seq(CallTypes)
      /\ timer # <<>> => control \in Fields /\ mount > 0 /\ Len(timer) = 1
      /\ \A j \in DOMAIN calls : Numbered(calls[j], mounts)
      /\ OneSelects
  BY DEF ControlsTyped, Numbered, OneSelects
<1> DEFINE Goal == /\ control' \in Controls /\ config' \in SettingsType /\ running' \in BOOLEAN
                   /\ mount' \in Nat /\ mounts' \in Nat /\ mount' <= mounts'
                   /\ shown' \in SettingsType /\ loading' \in BOOLEAN /\ muddled' \in BOOLEAN
                   /\ timer' \in Seq(SettingsType) /\ calls' \in Seq(CallTypes)
                   /\ timer' # <<>> => control' \in Fields /\ mount' > 0 /\ Len(timer') = 1
                   /\ \A j \in DOMAIN calls' : Numbered(calls'[j], mounts')
                   /\ OneSelects'
<1>2. SUFFICES Goal
  BY DEF ControlsTyped, Numbered, OneSelects, SettingsType, CallTypes, Controls
<1>3. ASSUME NEW call, Called(call), Numbered(call, mounts), mounts' = mounts,
             call.do = "select" => ~InFlight("select")
      PROVE  OneSelects' /\ \A j \in DOMAIN calls' : Numbered(calls'[j], mounts')
  <2>1. \A j \in DOMAIN calls' : Numbered(calls'[j], mounts')
    BY <1>1, <1>3 DEF Called
  <2>2. OneSelects'
    BY <1>1, <1>3 DEF Called, OneSelects, InFlight
  <2>3. QED
    BY <2>1, <2>2
<1>4. mount > 0 => \A call : call.mount = mount => Numbered(call, mounts)
  BY <1>1 DEF Numbered
<1>5. CASE UserActs
  <2>1. /\ Acted /\ shown' \in SettingsType /\ loading' \in BOOLEAN /\ muddled' \in BOOLEAN
        /\ timer' \in Seq(SettingsType) /\ calls' \in Seq(CallTypes)
    BY <1>5, UserEffect
  <2>2. /\ mount > 0 /\ ~InFlight("select")
        /\ UNCHANGED <<control, config, running, mount, mounts>>
    BY <2>1 DEF Acted
  <2>3. CASE Typed \/ Idling
    BY <1>1, <2>1, <2>2, <2>3 DEF Typed, Idling, OneSelects
  <2>4. CASE \E call \in CallTypes :
               /\ call.mount = mount /\ call.state = "sent"
               /\ SwitchFlipped(call) \/ Routed(call) \/ Listing(call)
    <3>1. PICK call \in CallTypes :
            call.mount = mount /\ Called(call) /\ UNCHANGED timer
      BY <2>4 DEF SwitchFlipped, Routed, Listing
    <3>2. OneSelects' /\ \A j \in DOMAIN calls' : Numbered(calls'[j], mounts')
      BY <1>3, <1>4, <2>2, <3>1
    <3>3. QED
      BY <1>1, <2>1, <2>2, <3>1, <3>2
  <2>5. QED
    BY <2>1, <2>3, <2>4 DEF Acted
<1>6. CASE Mount
  <2>1. /\ shown' \in SettingsType /\ loading' \in BOOLEAN /\ muddled' \in BOOLEAN
        /\ calls' \in Seq(CallTypes)
    BY <1>6, MountEffect
  <2>2. PICK call \in CallTypes : MountedAnew(call)
    BY <1>6, MountEffect
  <2>3. /\ mounts' = mounts + 1 /\ mount' = mounts + 1 /\ Called(call) /\ call.do = "get"
        /\ call.mount = mounts + 1 /\ timer' = <<>> /\ UNCHANGED <<control, config, running>>
    BY <2>2 DEF MountedAnew
  <2>4. mounts + 1 \in Nat /\ mounts + 1 <= mounts + 1 /\ 0 < mounts + 1
    BY <1>1
  <2>5. \A j \in DOMAIN calls : Numbered(calls[j], mounts + 1)
    <3>1. \A j \in DOMAIN calls : calls[j].mount \in Nat
      BY CallFacts
    <3>2. QED
      BY <1>1, <3>1 DEF Numbered
  <2>6. Numbered(call, mounts + 1)
    BY <2>3, <2>4 DEF Numbered
  <2>7. \A j \in DOMAIN calls' : Numbered(calls'[j], mounts + 1)
    BY <2>3, <2>5, <2>6 DEF Called
  <2>8. OneSelects'
    BY <1>1, <2>3 DEF Called, OneSelects
  <2>9. <<>> \in Seq(SettingsType)
    BY EmptySeq
  <2>10. QED
    BY <1>1, <2>1, <2>3, <2>4, <2>7, <2>8, <2>9
<1>7. CASE Unmount
  <2>1. /\ mount' = 0 /\ shown' = {} /\ loading' = FALSE /\ timer' = <<>>
        /\ UNCHANGED <<control, config, running, calls, mounts, muddled>>
    BY <1>7 DEF Unmount
  <2>2. 0 \in Nat /\ 0 <= mounts
    BY <1>1
  <2>3. <<>> \in Seq(SettingsType) /\ {} \in SettingsType
    BY EmptySeq, SettingsFacts
  <2>4. QED
    BY <1>1, <2>1, <2>2, <2>3 DEF OneSelects
<1>8. CASE ProxyTurns
  BY <1>1, <1>8 DEF ProxyTurns, OneSelects
<1>9. CASE TimerFires
  <2>1. /\ timer # <<>> /\ timer' = <<>> /\ calls' = Append(calls, Call("set", timer[1], {}))
        /\ UNCHANGED <<control, config, running, mount, shown, loading, open, mounts, acts, muddled>>
    BY <1>9 DEF TimerFires
  <2>2. timer[1] \in SettingsType /\ {} \in SettingsType
    <3>1. 1 \in 1 .. Len(timer)
      BY <1>1, <2>1
    <3>2. QED
      BY <1>1, <3>1, ElementOfSeq, SettingsFacts
  <2>3. PICK call \in CallTypes :
          call = Call("set", timer[1], {}) /\ call.do = "set" /\ call.mount = mount
    BY <2>2, CallMade
  <2>4. calls' \in Seq(CallTypes) /\ Called(call)
    BY <2>1, <2>3, CallShape
  <2>5. OneSelects' /\ \A j \in DOMAIN calls' : Numbered(calls'[j], mounts')
    BY <1>1, <1>3, <1>4, <2>1, <2>3, <2>4
  <2>6. <<>> \in Seq(SettingsType)
    BY EmptySeq
  <2>7. QED
    BY <1>1, <2>1, <2>4, <2>5, <2>6
<1>10. ASSUME NEW i \in DOMAIN calls, Perform(i)
       PROVE  Goal
  <2>1. Performed(i) /\ config' \in SettingsType /\ muddled' \in BOOLEAN /\ calls' \in Seq(CallTypes)
    BY <1>10, PerformEffect
  <2>2. \A j \in DOMAIN calls : calls'[j].do = calls[j].do /\ calls'[j].mount = calls[j].mount
    BY <2>1 DEF Performed
  <2>3. \A j \in DOMAIN calls' : Numbered(calls'[j], mounts')
    BY <1>1, <2>1, <2>2 DEF Performed, Numbered
  <2>4. OneSelects'
    BY <1>1, <2>1, <2>2 DEF Performed, OneSelects
  <2>5. QED
    BY <1>1, <2>1, <2>3, <2>4 DEF Performed
<1>11. ASSUME NEW i \in DOMAIN calls, Return(i)
       PROVE  Goal
  <2>1. /\ shown' \in SettingsType /\ loading' \in BOOLEAN /\ calls' \in Seq(CallTypes)
        /\ Told(i)
        /\ \/ Foreign(i) \/ ReadBack(i) \/ ReadFailed(i) \/ SwitchDone(i) \/ SaveDone(i)
           \/ Rereads(i) \/ Selected(i)
    BY <1>11, ReturnEffect
  <2>2. OneSelects' /\ \A j \in DOMAIN calls' : Numbered(calls'[j], mounts)
    <3>1. CASE Gone(i)
      BY <1>1, <3>1 DEF Gone, Kept, OneSelects
    <3>2. CASE \E call \in CallTypes :
                 call.do # "select" /\ Numbered(call, mounts) /\ GoneThen(i, call)
      <4>1. PICK call \in CallTypes :
              call.do # "select" /\ Numbered(call, mounts) /\ GoneThen(i, call)
        BY <3>2
      <4>2. \A j \in DOMAIN calls' : Numbered(calls'[j], mounts)
        BY <1>1, <4>1 DEF GoneThen, Kept
      <4>3. OneSelects'
        BY <1>1, <4>1 DEF GoneThen, Kept, OneSelects
      <4>4. QED
        BY <4>2, <4>3
    <3>3. Mine(i) => \A call : call.mount = mount => Numbered(call, mounts)
      BY <1>1 DEF Mine, Numbered
    <3>4. QED
      BY <2>1, <3>1, <3>2, <3>3 DEF Foreign, ReadBack, ReadFailed, SwitchDone, SaveDone, Rereads, Selected
  <2>3. QED
    BY <1>1, <2>1, <2>2 DEF Told
<1>12. QED
  BY <1>5, <1>6, <1>7, <1>8, <1>9, <1>10, <1>11 DEF ControlsNext, Proceeds
-----------------------------------------------------------------------------
(* The controls: the order of the calls. *)

LEMMA TurnsStep == ControlsTyped /\ Turns /\ ControlsNext => Turns'
<1> SUFFICES ASSUME ControlsTyped, Turns, ControlsNext PROVE Turns'
  OBVIOUS
<1>1. DOMAIN calls = 1 .. Len(calls) /\ Len(calls) \in Nat
  BY LenProperties DEF ControlsTyped
<1>2. /\ InTurn => \A i, j \in DOMAIN calls :
           i < j /\ calls[i].state = "sent" => calls[j].state = "sent"
      /\ InTurn /\ mount > 0 => \A i \in DOMAIN calls :
           calls[i].mount # mount /\ calls[i].do = "set" /\ calls[i].state = "sent"
           => \E j \in DOMAIN calls : i < j /\ calls[j].mount = mount /\ calls[j].do = "get"
      /\ ~InTurn /\ mount > 0 /\ ~muddled => \A i \in DOMAIN calls : calls[i].mount = mount
  BY DEF Turns, Mine
<1>3. (/\ InTurn' => \A i, j \in DOMAIN calls' :
            i < j /\ calls'[i].state = "sent" => calls'[j].state = "sent"
       /\ InTurn' /\ mount' > 0 => \A i \in DOMAIN calls' :
            calls'[i].mount # mount' /\ calls'[i].do = "set" /\ calls'[i].state = "sent"
            => \E j \in DOMAIN calls' : i < j /\ calls'[j].mount = mount' /\ calls'[j].do = "get"
       /\ ~InTurn' /\ mount' > 0 /\ ~muddled' => \A i \in DOMAIN calls' : calls'[i].mount = mount')
      => Turns'
  BY DEF Turns, Mine
<1>4. control' = control => (InTurn' <=> InTurn)
  BY DEF InTurn
<1>5. ASSUME NEW call, Called(call), call.state = "sent", control' = control
      PROVE  InTurn' => \A i, j \in DOMAIN calls' :
               i < j /\ calls'[i].state = "sent" => calls'[j].state = "sent"
  <2>1. \A q \in DOMAIN calls : ~(Len(calls) + 1 < q)
    BY <1>1
  <2>2. ~(Len(calls) + 1 < Len(calls) + 1)
    BY <1>1
  <2>3. QED
    BY <1>2, <1>4, <1>5, <2>1, <2>2 DEF Called
<1>6. ASSUME NEW call, Called(call), call.state = "sent", call.mount = mount,
             UNCHANGED <<control, mount>>, ~InTurn /\ ~muddled' => ~muddled
      PROVE  Turns'
  <2>1. InTurn' /\ mount' > 0 => \A i \in DOMAIN calls' :
           calls'[i].mount # mount' /\ calls'[i].do = "set" /\ calls'[i].state = "sent"
           => \E j \in DOMAIN calls' : i < j /\ calls'[j].mount = mount' /\ calls'[j].do = "get"
    BY <1>2, <1>4, <1>6 DEF Called
  <2>2. ~InTurn' /\ mount' > 0 /\ ~muddled' => \A i \in DOMAIN calls' : calls'[i].mount = mount'
    BY <1>2, <1>4, <1>6 DEF Called
  <2>3. QED
    BY <1>3, <1>5, <1>6, <2>1, <2>2
<1>7. ASSUME UNCHANGED <<control, calls>>, mount' = mount \/ mount' = 0, ~muddled' => ~muddled
      PROVE  Turns'
  BY <1>2, <1>3, <1>4, <1>7
<1>8. CASE UserActs
  <2>1. Acted
    BY <1>8, UserEffect
  <2>2. UNCHANGED <<control, mount>>
    BY <2>1 DEF Acted
  <2>3. CASE Typed
    BY <1>7, <2>2, <2>3 DEF Typed, Uncrossed
  <2>4. CASE Idling
    <3>1. UNCHANGED calls /\ UNCHANGED muddled
      BY <2>4 DEF Idling
    <3>2. QED
      BY <1>7, <2>2, <3>1
  <2>5. CASE \E call \in CallTypes :
               /\ call.mount = mount /\ call.state = "sent"
               /\ SwitchFlipped(call) \/ Routed(call) \/ Listing(call)
    <3>1. PICK call \in CallTypes :
            /\ call.mount = mount /\ call.state = "sent" /\ Called(call)
            /\ Uncrossed \/ control = "LibraryList"
      BY <2>5 DEF SwitchFlipped, Routed, Listing
    <3>2. ~InTurn /\ ~muddled' => ~muddled
      BY <3>1 DEF Uncrossed, InTurn
    <3>3. QED
      BY <1>6, <2>2, <3>1, <3>2
  <2>6. QED
    BY <2>1, <2>3, <2>4, <2>5 DEF Acted
<1>9. CASE Mount
  <2>1. PICK call \in CallTypes : MountedAnew(call)
    BY <1>9, MountEffect
  <2>2. /\ mount' = mounts + 1 /\ call.do = "get" /\ call.mount = mounts + 1
        /\ call.state = "sent" /\ Called(call) /\ control' = control
        /\ ~muddled' => InTurn \/ calls = <<>>
    BY <2>1 DEF MountedAnew
  <2>3. InTurn' /\ mount' > 0 => \A i \in DOMAIN calls' :
           calls'[i].mount # mount' /\ calls'[i].do = "set" /\ calls'[i].state = "sent"
           => \E j \in DOMAIN calls' : i < j /\ calls'[j].mount = mount' /\ calls'[j].do = "get"
    BY <2>2 DEF Called
  <2>4. ~InTurn' /\ ~muddled' => \A i \in DOMAIN calls' : calls'[i].mount = mount'
    <3>1. calls = <<>> => DOMAIN calls = {}
      BY EmptySeq
    <3>2. QED
      BY <1>4, <2>2, <3>1 DEF Called
  <2>5. QED
    BY <1>3, <1>5, <2>2, <2>3, <2>4
<1>10. CASE Unmount \/ ProxyTurns
  <2>1. /\ UNCHANGED <<control, calls>> /\ (mount' = mount \/ mount' = 0)
        /\ UNCHANGED muddled
    BY <1>10 DEF Unmount, ProxyTurns
  <2>2. QED
    BY <1>7, <2>1
<1>11. CASE TimerFires
  <2>1. /\ calls' = Append(calls, Call("set", timer[1], {})) /\ timer # <<>>
        /\ UNCHANGED <<control, mount, muddled>>
    BY <1>11 DEF TimerFires
  <2>2. timer[1] \in SettingsType /\ {} \in SettingsType
    <3>1. timer \in Seq(SettingsType) /\ Len(timer) = 1
      BY <2>1 DEF ControlsTyped
    <3>2. 1 \in 1 .. Len(timer)
      BY <3>1
    <3>3. QED
      BY <3>1, <3>2, ElementOfSeq, SettingsFacts
  <2>3. PICK call \in CallTypes :
          call = Call("set", timer[1], {}) /\ call.state = "sent" /\ call.mount = mount
    BY <2>2, CallMade
  <2>4. Called(call)
    BY <2>1, <2>3, CallShape
  <2>5. QED
    BY <1>6, <2>1, <2>3, <2>4
<1>12. ASSUME NEW i \in DOMAIN calls, Perform(i)
       PROVE  Turns'
  <2>1. Performed(i) /\ (SetPerformed(i) \/ GetPerformed(i) \/ SelectPerformed(i))
    BY <1>12, PerformEffect
  <2>2. /\ DOMAIN calls' = DOMAIN calls /\ UNCHANGED <<control, mount>>
        /\ \A j \in DOMAIN calls : /\ calls'[j].do = calls[j].do
                                   /\ calls'[j].mount = calls[j].mount
                                   /\ calls'[j].state = "sent" => calls[j].state = "sent"
    BY <2>1 DEF Performed
  <2>3. ~muddled' => ~muddled
    <3>1. (~muddled' => ~muddled) \/ muddled' = muddled
      BY <2>1 DEF SetPerformed, GetPerformed, SelectPerformed
    <3>2. QED
      BY <3>1
  <2>4. InTurn' => \A k, j \in DOMAIN calls' :
           k < j /\ calls'[k].state = "sent" => calls'[j].state = "sent"
    BY <1>2, <1>4, <2>1, <2>2 DEF Performed
  <2>5. QED
    BY <1>2, <1>3, <1>4, <2>2, <2>3, <2>4
<1>13. ASSUME NEW i \in DOMAIN calls, Return(i)
       PROVE  Turns'
  <2>1. /\ Told(i)
        /\ \/ Foreign(i) \/ ReadBack(i) \/ ReadFailed(i) \/ SwitchDone(i) \/ SaveDone(i)
           \/ Rereads(i) \/ Selected(i)
    BY <1>13, ReturnEffect
  <2>2. /\ calls[i].state # "sent" /\ UNCHANGED <<control, mount>> /\ Kept(i)
        /\ UNCHANGED muddled
    BY <2>1 DEF Told, Foreign, ReadBack, ReadFailed, SwitchDone, SaveDone, Rereads, Selected, Gone, GoneThen
  <2>3. \A p \in DOMAIN calls' :
          \/ \E q \in DOMAIN calls : q # i /\ p = After(i, q)
          \/ p = Len(calls) /\ calls'[p].mount = mount /\ calls'[p].state = "sent"
    BY <2>1 DEF Foreign, ReadBack, ReadFailed, SwitchDone, SaveDone, Rereads, Selected, Gone, GoneThen
  <2>4. \A q \in DOMAIN calls : q # i =>
          /\ After(i, q) \in DOMAIN calls' /\ calls'[After(i, q)] = calls[q]
          /\ ~(Len(calls) < After(i, q))
    BY <1>1, <2>2 DEF Kept, After
  <2>5. ASSUME InTurn, NEW p \in DOMAIN calls', NEW r \in DOMAIN calls', p < r,
               calls'[p].state = "sent"
        PROVE  calls'[r].state = "sent"
    <3>1. CASE r = Len(calls) /\ calls'[r].mount = mount /\ calls'[r].state = "sent"
      BY <3>1
    <3>2. CASE \E q \in DOMAIN calls : q # i /\ r = After(i, q)
      <4>1. PICK b \in DOMAIN calls : b # i /\ r = After(i, b)
        BY <3>2
      <4>2. PICK a \in DOMAIN calls : a # i /\ p = After(i, a)
        BY <2>3, <2>4, <2>5, <4>1
      <4>3. a < b /\ calls[a].state = "sent"
        BY <2>2, <2>4, <2>5, <4>1, <4>2 DEF Kept
      <4>4. calls[b].state = "sent"
        BY <1>2, <2>5, <4>3
      <4>5. QED
        BY <2>4, <4>1, <4>4
    <3>3. QED
      BY <2>3, <3>1, <3>2
  <2>6. ASSUME InTurn, mount > 0, NEW p \in DOMAIN calls', calls'[p].mount # mount,
               calls'[p].do = "set", calls'[p].state = "sent"
        PROVE  \E r \in DOMAIN calls' : p < r /\ calls'[r].mount = mount /\ calls'[r].do = "get"
    <3>1. PICK a \in DOMAIN calls : a # i /\ p = After(i, a)
      BY <2>3, <2>6
    <3>2. calls[a] = calls'[p]
      BY <2>4, <3>1
    <3>3. PICK b \in DOMAIN calls : a < b /\ calls[b].mount = mount /\ calls[b].do = "get"
      BY <1>2, <2>6, <3>2
    <3>4. calls[b].state = "sent" /\ b # i
      BY <1>2, <2>2, <2>6, <3>2, <3>3
    <3>5. After(i, b) \in DOMAIN calls' /\ p < After(i, b) /\ calls'[After(i, b)] = calls[b]
      BY <2>2, <2>4, <3>1, <3>3, <3>4 DEF Kept
    <3>6. QED
      BY <3>3, <3>5
  <2>7. ASSUME ~InTurn, mount > 0, ~muddled
        PROVE  \A p \in DOMAIN calls' : calls'[p].mount = mount
    BY <1>2, <2>3, <2>4, <2>7
  <2>8. ~muddled' => ~muddled
    BY <2>2
  <2>9. QED
    BY <1>3, <1>4, <2>2, <2>5, <2>6, <2>7, <2>8
<1>14. QED
  BY <1>8, <1>9, <1>10, <1>11, <1>12, <1>13 DEF ControlsNext, Proceeds
-----------------------------------------------------------------------------
(* The controls: what they show. *)

Truth == Getting \/ Unanswered \/ Saving \/ Steady \/ Switched

\* f tells where the calls of this mounting are afterwards.
LEMMA TruthKept ==
  ASSUME NEW f,
         \A q \in DOMAIN calls : Mine(q) => f[q] \in DOMAIN calls' /\ calls'[f[q]] = calls[q],
         \A p \in DOMAIN calls' : calls'[p].mount = mount =>
           \E q \in DOMAIN calls : Mine(q) /\ p = f[q],
         \A q, r \in DOMAIN calls : Mine(q) /\ Mine(r) /\ q <= r => f[q] <= f[r],
         UNCHANGED <<control, config, mount, shown, loading, timer>>,
         Truth
  PROVE  Truth'
<1>1. \A p : Mine(p)' <=> calls'[p].mount = mount
  BY DEF Mine
<1>2. CASE Getting
  <2>1. PICK i \in DOMAIN calls :
          /\ Mine(i) /\ calls[i].do = "get" /\ \A j \in DOMAIN calls : Mine(j) => j = i
          /\ \/ calls[i].state = "sent"
             \/ calls[i].state = "done" /\ calls[i].value = config
             \/ calls[i].state = "failed" /\ control = "AutostartSwitch"
    BY <1>2 DEF Getting
  <2>2. PICK k \in DOMAIN calls' : k = f[i] /\ calls'[k] = calls[i]
    BY <2>1
  <2>3. Mine(k)' /\ \A p \in DOMAIN calls' : Mine(p)' => p = k
    BY <1>1, <2>1, <2>2 DEF Mine
  <2>4. timer' = <<>> /\ (control' = "AutostartSwitch" => loading')
    BY <1>2 DEF Getting
  <2>5. Getting'
    BY <2>1, <2>2, <2>3, <2>4 DEF Getting
  <2>6. QED
    BY <2>5 DEF Truth
<1>3. CASE Saving
  <2>1. \A p \in DOMAIN calls' : Mine(p)' =>
          \E q \in DOMAIN calls : Mine(q) /\ p = f[q] /\ calls'[p] = calls[q]
    BY <1>1
  <2>2. \A p \in DOMAIN calls' : Mine(p)' =>
          /\ calls'[p].do \in {"set", "select"}
          /\ calls'[p].do = "set" => calls'[p].state # "failed"
          /\ calls'[p].do = "select" => calls'[p].before = shown /\ control = "AppRoutingSettings"
    BY <1>3, <2>1 DEF Saving
  <2>3. \A p \in DOMAIN calls' : IsSaving(p)' => \E q \in DOMAIN calls : IsSaving(q) /\ p = f[q]
    BY <2>1 DEF IsSaving
  <2>4. CASE timer = <<shown>> \/ (timer = <<>> /\ (\A i \in DOMAIN calls : ~IsSaving(i)) /\ Agrees)
    <3>1. Saving'
      BY <1>3, <2>2, <2>3, <2>4, AgreesKept DEF Saving
    <3>2. QED
      BY <3>1 DEF Truth
  <2>5. ASSUME timer = <<>>, NEW m \in DOMAIN calls, IsSaving(m), calls[m].value = shown,
               \A j \in DOMAIN calls : IsSaving(j) => j <= m
        PROVE  Saving'
    <3>1. PICK k \in DOMAIN calls' : k = f[m] /\ calls'[k] = calls[m]
      BY <2>5 DEF IsSaving
    <3>2. IsSaving(k)'
      BY <1>1, <2>5, <3>1 DEF IsSaving, Mine
    <3>3. \A p \in DOMAIN calls' : IsSaving(p)' => p <= k
      BY <2>3, <2>5, <3>1 DEF IsSaving
    <3>4. QED
      BY <1>3, <2>2, <2>5, <3>1, <3>2, <3>3 DEF Saving
  <2>6. QED
    BY <1>3, <2>4, <2>5 DEF Saving, Truth
<1>4. CASE Steady
  <2>1. Steady'
    BY <1>1, <1>4 DEF Steady
  <2>2. QED
    BY <2>1 DEF Truth
<1>5. CASE Switched
  <2>1. PICK i \in DOMAIN calls :
          /\ Mine(i) /\ \A j \in DOMAIN calls : Mine(j) => j = i
          /\ \/ /\ calls[i].do = "set" /\ control # "CAKeyStorageSwitch"
                /\ IF calls[i].state = "done" THEN calls[i].value = config ELSE shown = config
             \/ calls[i].do = "set" /\ control = "CAKeyStorageSwitch"
             \/ /\ calls[i].do = "reread" /\ control = "CAKeyStorageSwitch"
                /\ calls[i].state # "failed" /\ (calls[i].state = "sent" \/ calls[i].value = config)
    BY <1>5 DEF Switched
  <2>2. PICK k \in DOMAIN calls' : k = f[i] /\ calls'[k] = calls[i]
    BY <2>1
  <2>3. Mine(k)' /\ \A p \in DOMAIN calls' : Mine(p)' => p = k
    BY <1>1, <2>1, <2>2 DEF Mine
  <2>4. /\ control' \in Switches \union {"CAKeyStorageSwitch"}
        /\ control' # "AutoupdateSwitch" => loading'
    BY <1>5 DEF Switched
  <2>5. Switched'
    BY <2>1, <2>2, <2>3, <2>4 DEF Switched
  <2>6. QED
    BY <2>5 DEF Truth
<1>6. CASE Unanswered
  <2>1. Unanswered'
    BY <1>1, <1>6 DEF Unanswered
  <2>2. QED
    BY <2>1 DEF Truth
<1>7. QED
  BY <1>2, <1>3, <1>4, <1>5, <1>6 DEF Truth

\* No control is of two kinds.
LEMMA KindsDiffer ==
  /\ \A c \in Fields : /\ c \notin Switches
                       /\ c \notin {"AppRoutingSettings", "CAKeyStorageSwitch", "LibraryList"}
  /\ \A c \in Switches : c \notin {"AppRoutingSettings", "CAKeyStorageSwitch", "LibraryList"}
  /\ "AutostartSwitch" \in Switches
BY DEF Fields, Switches

LEMMA UserTruth ==
  ASSUME ControlsTyped, Truth, Acted, ~muddled', control # "LibraryList"
  PROVE  Truth'
<1>1. /\ mount > 0 /\ ~InFlight("select") /\ UNCHANGED <<control, config, mount>>
      /\ DOMAIN calls = 1 .. Len(calls) /\ Len(calls) \in Nat
  BY LenProperties DEF Acted, ControlsTyped
<1>2. CASE Idling
  <2> DEFINE f == [q \in DOMAIN calls |-> q]
  <2>1. /\ \A q \in DOMAIN calls : Mine(q) => f[q] \in DOMAIN calls' /\ calls'[f[q]] = calls[q]
        /\ \A p \in DOMAIN calls' : calls'[p].mount = mount =>
             \E q \in DOMAIN calls : Mine(q) /\ p = f[q]
        /\ \A q, r \in DOMAIN calls : Mine(q) /\ Mine(r) /\ q <= r => f[q] <= f[r]
    BY <1>2 DEF Idling, Mine
  <2> HIDE DEF f
  <2>2. QED
    BY <1>1, <1>2, <2>1, TruthKept DEF Idling
<1>3. ASSUME Uncrossed
      PROVE  /\ ~Getting
             /\ \A i \in DOMAIN calls : Mine(i) => control # "AutoupdateSwitch"
  BY <1>3 DEF Uncrossed, Getting
<1>4. CASE Typed
  <2>1. Saving
    BY <1>3, <1>4, KindsDiffer DEF Typed, Truth, Unanswered, Steady, Switched
  <2>2. control \in Fields /\ timer' = <<shown'>> /\ UNCHANGED calls
    BY <1>4 DEF Typed
  <2>3. \A i \in DOMAIN calls : Mine(i) =>
          calls[i].do = "set" /\ calls[i].state # "failed"
    BY <2>1, <2>2, KindsDiffer DEF Saving
  <2>4. \A i \in DOMAIN calls' : Mine(i)' => calls'[i].do = "set" /\ calls'[i].state # "failed"
    BY <1>1, <2>2, <2>3 DEF Mine
  <2>5. Saving'
    BY <1>1, <2>2, <2>4 DEF Saving
  <2>6. QED
    BY <2>5 DEF Truth
<1>5. ASSUME NEW call \in CallTypes, call.mount = mount, call.state = "sent", SwitchFlipped(call)
      PROVE  Truth'
  <2>1. /\ control \in Switches \union {"CAKeyStorageSwitch"}
        /\ call.do = "set" /\ Called(call) /\ Uncrossed /\ UNCHANGED <<shown, timer>>
    BY <1>5 DEF SwitchFlipped
  <2>2. control # "AutoupdateSwitch" => loading'
    BY <1>5 DEF SwitchFlipped
  <2>3. Steady
    <3>1. control # "AutoupdateSwitch" => ~loading
      BY <1>5 DEF SwitchFlipped
    <3>2. ~Switched
      BY <1>3, <2>1, <3>1 DEF Switched
    <3>3. ~Saving
      BY <2>1, KindsDiffer DEF Saving
    <3>4. ~Unanswered
      BY <3>1 DEF Unanswered
    <3>5. QED
      BY <1>3, <2>1, <3>2, <3>3, <3>4 DEF Truth
  <2>4. PICK m \in DOMAIN calls' : m = Len(calls) + 1 /\ calls'[m] = call
    BY <2>1 DEF Called
  <2>5. Mine(m)' /\ \A p \in DOMAIN calls' : Mine(p)' => p = m
    BY <1>1, <1>5, <2>1, <2>3, <2>4 DEF Mine, Called, Steady
  <2>6. Switched'
    BY <1>1, <1>5, <2>1, <2>2, <2>3, <2>4, <2>5 DEF Switched, Steady
  <2>7. QED
    BY <2>6 DEF Truth
<1>6. ASSUME NEW call \in CallTypes, call.mount = mount, call.state = "sent", Routed(call)
      PROVE  Truth'
  <2>1. /\ control = "AppRoutingSettings" /\ Called(call) /\ Uncrossed /\ UNCHANGED timer
        /\ \/ call.do = "set" /\ call.value = shown'
           \/ call.do = "select" /\ call.before = shown /\ UNCHANGED shown
    BY <1>6 DEF Routed
  <2>2. Saving
    BY <1>3, <2>1, KindsDiffer DEF Truth, Unanswered, Steady, Switched
  <2>3. timer = <<>>
    BY <2>1, KindsDiffer DEF ControlsTyped
  <2>4. PICK m \in DOMAIN calls' : m = Len(calls) + 1 /\ calls'[m] = call
    BY <2>1 DEF Called
  <2>5. /\ \A p \in DOMAIN calls' : p = m \/ (p \in DOMAIN calls /\ calls'[p] = calls[p])
        /\ \A q \in DOMAIN calls : q \in DOMAIN calls' /\ calls'[q] = calls[q] /\ q < m
        /\ \A p \in DOMAIN calls' : p <= m
    BY <1>1, <2>1, <2>4 DEF Called
  <2>6. \A i \in DOMAIN calls : Mine(i) => calls[i].do = "set" /\ calls[i].state # "failed"
    BY <1>1, <2>2 DEF Saving, InFlight
  <2>7. \A p \in DOMAIN calls' : Mine(p)' =>
          /\ calls'[p].do \in {"set", "select"}
          /\ calls'[p].do = "set" => calls'[p].state # "failed"
          /\ calls'[p].do = "select" => calls'[p].before = shown' /\ control = "AppRoutingSettings"
    BY <1>1, <1>6, <2>1, <2>4, <2>5, <2>6 DEF Mine
  <2>8. CASE call.do = "set" /\ call.value = shown'
    <3>1. IsSaving(m)' /\ \A p \in DOMAIN calls' : IsSaving(p)' => p <= m
      BY <1>1, <1>6, <2>4, <2>5, <2>8 DEF IsSaving, Mine
    <3>2. Saving'
      BY <1>1, <2>1, <2>3, <2>4, <2>7, <2>8, <3>1 DEF Saving
    <3>3. QED
      BY <3>2 DEF Truth
  <2>9. CASE call.do = "select" /\ UNCHANGED shown
    <3>1. \A p \in DOMAIN calls' : IsSaving(p)' => p \in DOMAIN calls /\ IsSaving(p)
      BY <1>1, <2>4, <2>5, <2>9 DEF IsSaving, Mine
    <3>2. \A q \in DOMAIN calls : IsSaving(q) => IsSaving(q)'
      BY <1>1, <2>5 DEF IsSaving, Mine
    <3>3. CASE (\A q \in DOMAIN calls : ~IsSaving(q)) /\ Agrees
      <4>1. Saving'
        BY <1>1, <2>1, <2>3, <2>7, <2>9, <3>1, <3>3, AgreesKept DEF Saving
      <4>2. QED
        BY <4>1 DEF Truth
    <3>4. ASSUME NEW k \in DOMAIN calls, IsSaving(k), calls[k].value = shown,
                 \A j \in DOMAIN calls : IsSaving(j) => j <= k
          PROVE  Truth'
      <4>1. /\ k \in DOMAIN calls' /\ calls'[k].value = shown'
            /\ IsSaving(k)' /\ \A j \in DOMAIN calls' : IsSaving(j)' => j <= k
        BY <2>5, <2>9, <3>1, <3>2, <3>4
      <4>2. Saving'
        BY <1>1, <2>1, <2>3, <2>7, <4>1 DEF Saving
      <4>3. QED
        BY <4>2 DEF Truth
    <3>5. timer # <<shown>>
      BY <2>3
    <3>6. QED
      BY <2>2, <3>3, <3>4, <3>5 DEF Saving
  <2>10. QED
    BY <2>1, <2>8, <2>9
<1>7. QED
  <2>1. \A call : ~Listing(call)
    BY DEF Listing
  <2>2. QED
    BY <1>2, <1>4, <1>5, <1>6, <2>1 DEF Acted

LEMMA TimerTruth ==
  ASSUME ControlsTyped, Truth, TimerFires
  PROVE  Truth'
<1>1. /\ timer # <<>> /\ timer' = <<>> /\ calls' = Append(calls, Call("set", timer[1], {}))
      /\ UNCHANGED <<control, config, mount, shown>>
      /\ DOMAIN calls = 1 .. Len(calls) /\ Len(calls) \in Nat
      /\ timer \in Seq(SettingsType) /\ Len(timer) = 1 /\ control \in Fields
      /\ shown \in SettingsType
  BY LenProperties DEF TimerFires, ControlsTyped
<1>2. Saving /\ timer = <<shown>>
  BY <1>1, KindsDiffer DEF Truth, Getting, Unanswered, Saving, Steady, Switched
<1>3. timer[1] = shown
  BY <1>2
<1>4. PICK call \in CallTypes :
        /\ call = Call("set", shown, {})
        /\ call.do = "set" /\ call.mount = mount /\ call.state = "sent" /\ call.value = shown
  BY <1>1, SettingsFacts, CallMade
<1>5. Called(call)
  BY <1>1, <1>3, <1>4, CallShape
<1>6. PICK m \in DOMAIN calls' : m = Len(calls) + 1 /\ calls'[m] = call
  BY <1>5 DEF Called
<1>7. /\ \A p \in DOMAIN calls' : p = m \/ (p \in DOMAIN calls /\ calls'[p] = calls[p])
      /\ \A p \in DOMAIN calls' : p <= m
  BY <1>1, <1>5, <1>6 DEF Called
<1>8. \A p \in DOMAIN calls' : Mine(p)' =>
        calls'[p].do = "set" /\ calls'[p].state # "failed"
  BY <1>1, <1>2, <1>4, <1>6, <1>7, KindsDiffer DEF Mine, Saving
<1>9. IsSaving(m)' /\ \A p \in DOMAIN calls' : IsSaving(p)' => p <= m
  BY <1>1, <1>4, <1>6, <1>7 DEF IsSaving, Mine
<1>10. Saving'
  BY <1>1, <1>4, <1>6, <1>8, <1>9 DEF Saving
<1>11. QED
  BY <1>10 DEF Truth
LEMMA PerformTruth ==
  ASSUME ControlsTyped, Turns, Truth, mount > 0, NEW i \in DOMAIN calls, Perform(i),
         ~muddled', control # "LibraryList"
  PROVE  Truth'
<1>1. Performed(i) /\ (SetPerformed(i) \/ GetPerformed(i) \/ SelectPerformed(i))
  BY PerformEffect
<1>2. ~muddled
  BY <1>1 DEF SetPerformed, GetPerformed, SelectPerformed
<1>3. /\ UNCHANGED <<control, mount, shown, loading, timer>> /\ DOMAIN calls' = DOMAIN calls
      /\ \A j \in DOMAIN calls : j # i => calls'[j] = calls[j]
      /\ calls[i].state = "sent" /\ calls'[i].state \in {"done", "failed"}
      /\ calls'[i].do = calls[i].do /\ calls'[i].before = calls[i].before
      /\ calls'[i].mount = calls[i].mount
  BY <1>1 DEF Performed
<1>4. \A j \in DOMAIN calls : Mine(j)' <=> Mine(j)
  BY <1>3 DEF Mine
<1>5. InEffect(config) = config
  BY DEF InEffect
<1>6. calls[i].do = "set" =>
        /\ calls'[i].value = calls[i].value
        /\ \/ calls'[i].state = "done" /\ config' = Saved(calls[i].value)
           \/ /\ calls'[i].state = "failed" /\ config' = config
              /\ control \in {"AutostartSwitch", "CAKeyStorageSwitch"}
  BY <1>1 DEF SetPerformed, GetPerformed, SelectPerformed, Written
<1>7. calls[i].do \in {"get", "reread"} =>
        /\ config' = config
        /\ \/ calls'[i].state = "done" /\ calls'[i].value = config
           \/ calls'[i].state = "failed" /\ calls[i].do = "get" /\ control = "AutostartSwitch"
  BY <1>1, <1>5 DEF SetPerformed, GetPerformed, SelectPerformed
<1>8. calls[i].do \notin {"get", "reread", "set"} => config' = config
  BY <1>1 DEF SetPerformed, GetPerformed, SelectPerformed
<1>9. CASE ~Mine(i)
  <2>1. CASE config' = config
    <3> DEFINE f == [q \in DOMAIN calls |-> q]
    <3>1. /\ \A q \in DOMAIN calls : Mine(q) => f[q] \in DOMAIN calls' /\ calls'[f[q]] = calls[q]
          /\ \A p \in DOMAIN calls' : calls'[p].mount = mount =>
               \E q \in DOMAIN calls : Mine(q) /\ p = f[q]
          /\ \A q, r \in DOMAIN calls : Mine(q) /\ Mine(r) /\ q <= r => f[q] <= f[r]
      BY <1>3, <1>9 DEF Mine
    <3> HIDE DEF f
    <3>2. QED
      BY <1>3, <2>1, <3>1, TruthKept
  <2>2. CASE calls[i].do = "set"
    <3>1. InTurn
      BY <1>2, <1>9 DEF Turns
    <3>2. PICK j \in DOMAIN calls : i < j /\ Mine(j) /\ calls[j].do = "get"
      BY <1>3, <1>9, <2>2, <3>1 DEF Turns
    <3>3. calls[j].state = "sent"
      BY <1>3, <3>1, <3>2 DEF Turns
    <3>4. Getting
      BY <3>2 DEF Truth, Getting, Unanswered, Saving, Steady, Switched
    <3>5. timer = <<>> /\ (control = "AutostartSwitch" => loading) /\ \A p \in DOMAIN calls : Mine(p) => p = j
      BY <3>2, <3>4 DEF Getting
    <3>6. Getting'
      BY <1>3, <1>4, <1>9, <3>2, <3>3, <3>5 DEF Getting
    <3>7. QED
      BY <3>6 DEF Truth
  <2>3. QED
    BY <1>7, <1>8, <2>1, <2>2
<1>10. CASE Mine(i) /\ Getting
  <2>1. /\ timer = <<>> /\ (control = "AutostartSwitch" => loading)
        /\ calls[i].do = "get" /\ \A j \in DOMAIN calls : Mine(j) => j = i
    BY <1>10 DEF Getting
  <2>2. Getting'
    BY <1>3, <1>4, <1>7, <1>10, <2>1 DEF Getting
  <2>3. QED
    BY <2>2 DEF Truth
<1>11. CASE Mine(i) /\ Saving
  <2>1. control \in Fields \union {"AppRoutingSettings"} /\ calls[i].do \in {"set", "select"}
    BY <1>11 DEF Saving
  <2>2. /\ control \notin {"AutostartSwitch", "CAKeyStorageSwitch"} /\ InTurn
    BY <2>1 DEF Fields, InTurn
  <2>3. \A j \in DOMAIN calls : j < i => calls[j].state # "sent"
    BY <1>1, <2>2 DEF Performed
  <2>4. \A p \in DOMAIN calls : IsSaving(p)' <=> IsSaving(p) /\ p # i
    BY <1>3, <1>4 DEF IsSaving
  <2>5. \A p \in DOMAIN calls' : Mine(p)' =>
          /\ calls'[p].do \in {"set", "select"}
          /\ calls'[p].do = "set" => calls'[p].state # "failed"
          /\ calls'[p].do = "select" => calls'[p].before = shown' /\ control = "AppRoutingSettings"
    BY <1>3, <1>4, <1>6, <1>11, <2>2 DEF Saving
  <2>6. CASE timer = <<shown>>
    <3>1. Saving'
      BY <1>3, <2>1, <2>5, <2>6 DEF Saving
    <3>2. QED
      BY <3>1 DEF Truth
  <2>7. CASE timer = <<>> /\ (\A j \in DOMAIN calls : ~IsSaving(j)) /\ Agrees
    <3>1. calls[i].do # "set"
      BY <1>3, <1>11, <2>7 DEF IsSaving
    <3>2. Saving'
      BY <1>3, <1>7, <1>8, <2>1, <2>4, <2>5, <2>7, <3>1, AgreesKept DEF Saving
    <3>3. QED
      BY <3>2 DEF Truth
  <2>8. ASSUME timer = <<>>, NEW m \in DOMAIN calls, IsSaving(m), calls[m].value = shown,
               \A j \in DOMAIN calls : IsSaving(j) => j <= m
        PROVE  Truth'
    <3>1. CASE m = i
      <4>1. \A p \in DOMAIN calls' : ~IsSaving(p)'
        <5>1. i \in Nat /\ \A p \in DOMAIN calls : p \in Nat
          BY LenProperties DEF ControlsTyped
        <5>2. \A p \in DOMAIN calls : IsSaving(p) => p = i
          BY <2>3, <2>8, <3>1, <5>1 DEF IsSaving
        <5>3. QED
          BY <1>3, <2>4, <5>2
      <4>2. Agrees'
        <5>1. config' = Saved(shown)
          BY <1>3, <1>6, <2>2, <2>8, <3>1 DEF IsSaving
        <5>2. QED
          BY <1>3, <5>1 DEF Agrees, Saved
      <4>3. Saving'
        BY <1>3, <2>1, <2>5, <2>8, <4>1, <4>2 DEF Saving
      <4>4. QED
        BY <4>3 DEF Truth
    <3>2. CASE m # i
      <4>1. /\ m \in DOMAIN calls' /\ calls'[m].value = shown' /\ IsSaving(m)'
            /\ \A p \in DOMAIN calls' : IsSaving(p)' => p <= m
        BY <1>3, <2>4, <2>8, <3>2
      <4>2. Saving'
        BY <1>3, <2>1, <2>5, <2>8, <4>1 DEF Saving
      <4>3. QED
        BY <4>2 DEF Truth
    <3>3. QED
      BY <3>1, <3>2
  <2>9. QED
    BY <1>11, <2>6, <2>7, <2>8 DEF Saving
<1>12. CASE Mine(i) /\ Switched
  <2>1. /\ \A j \in DOMAIN calls : Mine(j) => j = i
        /\ \/ /\ calls[i].do = "set" /\ control # "CAKeyStorageSwitch"
              /\ shown = config
           \/ calls[i].do = "set" /\ control = "CAKeyStorageSwitch"
           \/ calls[i].do = "reread" /\ control = "CAKeyStorageSwitch"
    BY <1>3, <1>12 DEF Switched
  <2>2. /\ control' \in Switches \union {"CAKeyStorageSwitch"}
        /\ control' # "AutoupdateSwitch" => loading'
    BY <1>3, <1>12 DEF Switched
  <2>3. Mine(i)' /\ \A p \in DOMAIN calls' : Mine(p)' => p = i
    BY <1>3, <1>4, <1>12, <2>1
  <2>4. \/ /\ calls'[i].do = "set" /\ control' # "CAKeyStorageSwitch"
           /\ IF calls'[i].state = "done" THEN calls'[i].value = config' ELSE shown' = config'
        \/ calls'[i].do = "set" /\ control' = "CAKeyStorageSwitch"
        \/ /\ calls'[i].do = "reread" /\ control' = "CAKeyStorageSwitch"
           /\ calls'[i].state # "failed"
           /\ calls'[i].state = "sent" \/ calls'[i].value = config'
    <3>1. calls[i].do = "set" => Saved(calls[i].value) = calls[i].value
      BY <1>12, KindsDiffer DEF Switched, Saved
    <3>2. QED
      BY <1>3, <1>6, <1>7, <2>1, <3>1
  <2>5. Switched'
    BY <1>3, <2>2, <2>3, <2>4 DEF Switched
  <2>6. QED
    BY <2>5 DEF Truth
<1>13. QED
  BY <1>9, <1>10, <1>11, <1>12 DEF Truth, Unanswered, Steady
\* The calls but the one at i, which is no save any more, are still there.
LEMMA KeptFacts ==
  ASSUME ControlsTyped, NEW i \in DOMAIN calls, Told(i), Kept(i)
  PROVE  /\ \A q \in DOMAIN calls : q # i =>
              After(i, q) \in DOMAIN calls' /\ calls'[After(i, q)] = calls[q]
         /\ \A q \in DOMAIN calls, p \in DOMAIN calls' : q # i /\ p = After(i, q) =>
              /\ calls'[p] = calls[q] /\ p < Len(calls)
              /\ Mine(p)' <=> Mine(q)
              /\ IsSaving(p)' <=> IsSaving(q)
         /\ \A q, r \in DOMAIN calls : q # i /\ r # i /\ q <= r => After(i, q) <= After(i, r)
         /\ ~IsSaving(i)
<1>1. UNCHANGED <<control, config, mount>> /\ calls[i].state # "sent"
  BY DEF Told
<1>2. /\ \A q \in DOMAIN calls : q # i =>
           /\ After(i, q) \in DOMAIN calls' /\ calls'[After(i, q)] = calls[q]
           /\ After(i, q) < Len(calls)
      /\ \A q, r \in DOMAIN calls : q # i /\ r # i => (After(i, q) < After(i, r) <=> q < r)
  BY DEF Kept
<1>3. \A q \in DOMAIN calls, p \in DOMAIN calls' : q # i /\ p = After(i, q) =>
        /\ calls'[p] = calls[q] /\ p < Len(calls)
        /\ Mine(p)' <=> Mine(q)
        /\ IsSaving(p)' <=> IsSaving(q)
  BY <1>1, <1>2 DEF Mine, IsSaving
<1>4. \A q, r \in DOMAIN calls : q # i /\ r # i /\ q <= r => After(i, q) <= After(i, r)
  <2>1. \A q \in DOMAIN calls : q \in Nat
    BY LenProperties DEF ControlsTyped
  <2>2. \A q \in DOMAIN calls : After(i, q) \in Int
    BY <2>1 DEF After
  <2>3. QED
    BY <1>2, <2>1, <2>2
<1>5. QED
  BY <1>1, <1>2, <1>3, <1>4 DEF IsSaving

LEMMA ReturnTruth ==
  ASSUME ControlsTyped, Stored, Truth, NEW i \in DOMAIN calls, Return(i), control # "LibraryList"
  PROVE  Truth'
<1>1. /\ Told(i)
      /\ \/ Foreign(i) \/ ReadBack(i) \/ ReadFailed(i) \/ SwitchDone(i) \/ SaveDone(i)
           \/ Rereads(i) \/ Selected(i)
  BY ReturnEffect
<1>2. /\ UNCHANGED <<control, config, mount, timer>> /\ calls[i].state # "sent"
      /\ control \in Fields \/ timer = <<>>
  BY <1>1 DEF Told, ControlsTyped
<1>3. ASSUME Gone(i), Mine(i), \A j \in DOMAIN calls : Mine(j) => j = i
      PROVE  \A p \in DOMAIN calls' : ~Mine(p)'
  BY <1>1, <1>3, KeptFacts DEF Gone
<1>4. CASE Foreign(i)
  <2>1. ~Mine(i) /\ Gone(i) /\ UNCHANGED <<shown, loading>>
    BY <1>4 DEF Foreign
  <2> DEFINE f == [q \in DOMAIN calls |-> After(i, q)]
  <2>2. /\ \A q \in DOMAIN calls : Mine(q) => f[q] \in DOMAIN calls' /\ calls'[f[q]] = calls[q]
        /\ \A p \in DOMAIN calls' : Mine(p)' => \E q \in DOMAIN calls : Mine(q) /\ p = f[q]
        /\ \A q, r \in DOMAIN calls : Mine(q) /\ Mine(r) /\ q <= r => f[q] <= f[r]
    BY <1>1, <2>1, KeptFacts DEF Gone
  <2>3. \A p : Mine(p)' <=> calls'[p].mount = mount
    BY <1>2 DEF Mine
  <2> HIDE DEF f
  <2>4. QED
    BY <1>2, <2>1, <2>2, <2>3, TruthKept
<1>5. CASE ReadBack(i)
  <2>1. /\ Mine(i) /\ calls[i].do \in {"get", "reread"} /\ calls[i].state = "done"
        /\ Gone(i) /\ shown' = calls[i].value
    BY <1>5 DEF ReadBack
  <2>2. /\ timer = <<>> /\ calls[i].value = config
        /\ \A j \in DOMAIN calls : Mine(j) => j = i
    <3>1. CASE Getting
      BY <1>2, <2>1, <3>1 DEF Getting
    <3>2. CASE Switched
      <4>1. control \notin Fields
        BY <3>2, KindsDiffer DEF Switched
      <4>2. QED
        BY <1>2, <2>1, <3>2, <4>1 DEF Switched
    <3>3. ~Saving /\ ~Steady /\ ~Unanswered
      BY <2>1 DEF Saving, Steady, Unanswered
    <3>4. QED
      BY <3>1, <3>2, <3>3 DEF Truth
  <2>3. (\A p \in DOMAIN calls' : ~Mine(p)') /\ shown' = config' /\ timer' = <<>>
    BY <1>2, <1>3, <2>1, <2>2
  <2>4. CASE control \in Fields \union {"AppRoutingSettings"}
    <3>1. Agrees'
      BY <1>2, <2>3 DEF Agrees, Stored, Saved
    <3>2. Saving'
      BY <1>2, <2>3, <2>4, <3>1 DEF Saving, IsSaving
    <3>3. QED
      BY <3>2 DEF Truth
  <2>5. CASE control \in Switches \union {"CAKeyStorageSwitch"}
    <3>1. Steady'
      BY <1>2, <2>3, <2>5 DEF Steady
    <3>2. QED
      BY <3>1 DEF Truth
  <2>6. QED
    BY <2>4, <2>5 DEF ControlsTyped, Controls
<1>6. CASE SwitchDone(i)
  <2>1. /\ Mine(i) /\ calls[i].do = "set" /\ control \in Switches /\ Gone(i)
        /\ shown' = (IF calls[i].state = "done" THEN calls[i].value ELSE shown)
    BY <1>6 DEF SwitchDone
  <2>2. ~Getting /\ ~Unanswered /\ ~Saving /\ ~Steady
    BY <2>1, KindsDiffer DEF Getting, Unanswered, Saving, Steady
  <2>3. /\ \A j \in DOMAIN calls : Mine(j) => j = i
        /\ IF calls[i].state = "done" THEN calls[i].value = config ELSE shown = config
    BY <2>1, <2>2, KindsDiffer DEF Truth, Switched
  <2>4. shown' = config'
    BY <1>2, <2>1, <2>3
  <2>5. \A p \in DOMAIN calls' : ~Mine(p)'
    BY <1>3, <2>1, <2>3
  <2>6. Steady'
    BY <1>2, <2>1, <2>4, <2>5 DEF Steady
  <2>7. QED
    BY <2>6 DEF Truth
\* A save or a selection is over, and what is shown stays.
<1>7. ASSUME Mine(i), calls[i].do \in {"set", "select"}, Saving, Gone(i), UNCHANGED shown
      PROVE  Truth'
  <2>1. \A p \in DOMAIN calls' : Mine(p)' =>
          /\ calls'[p].do \in {"set", "select"}
          /\ calls'[p].do = "set" => calls'[p].state # "failed"
          /\ calls'[p].do = "select" => calls'[p].before = shown' /\ control = "AppRoutingSettings"
    BY <1>1, <1>7, KeptFacts DEF Gone, Saving
  <2>2. control' \in Fields \union {"AppRoutingSettings"}
    BY <1>2, <1>7 DEF Saving
  <2>3. \A p \in DOMAIN calls' :
          \E q \in DOMAIN calls : q # i /\ p = After(i, q) /\ (IsSaving(p)' <=> IsSaving(q))
    BY <1>1, <1>7, KeptFacts DEF Gone
  <2>4. CASE timer = <<shown>> \/ (timer = <<>> /\ (\A j \in DOMAIN calls : ~IsSaving(j)) /\ Agrees)
    <3>1. Saving'
      BY <1>2, <1>7, <2>1, <2>2, <2>3, <2>4, AgreesKept DEF Saving
    <3>2. QED
      BY <3>1 DEF Truth
  <2>5. ASSUME timer = <<>>, NEW m \in DOMAIN calls, IsSaving(m), calls[m].value = shown,
               \A j \in DOMAIN calls : IsSaving(j) => j <= m
        PROVE  Truth'
    <3>1. m # i
      BY <1>2, <2>5 DEF IsSaving
    <3>2. PICK k \in DOMAIN calls' : k = After(i, m) /\ calls'[k] = calls[m]
      BY <1>1, <1>7, <3>1, KeptFacts DEF Gone
    <3>3. IsSaving(k)'
      BY <1>1, <1>7, <2>5, <3>1, <3>2, KeptFacts DEF Gone
    <3>4. \A p \in DOMAIN calls' : IsSaving(p)' => p <= k
      BY <1>1, <1>7, <2>3, <2>5, <3>1, <3>2, KeptFacts DEF Gone
    <3>5. Saving'
      BY <1>2, <1>7, <2>1, <2>2, <2>5, <3>2, <3>3, <3>4 DEF Saving
    <3>6. QED
      BY <3>5 DEF Truth
  <2>6. QED
    BY <1>7, <2>4, <2>5 DEF Saving
<1>8. CASE SaveDone(i)
  <2>1. /\ Mine(i) /\ calls[i].do = "set" /\ Gone(i)
        /\ control \in Fields \union {"AppRoutingSettings"}
        /\ calls[i].state # "failed" => UNCHANGED shown
    BY <1>8 DEF SaveDone
  <2>2. Saving
    BY <2>1, KindsDiffer DEF Truth, Getting, Unanswered, Steady, Switched
  <2>3. calls[i].state # "failed"
    BY <2>1, <2>2 DEF Saving
  <2>4. QED
    BY <1>7, <2>1, <2>2, <2>3
<1>9. CASE Rereads(i)
  <2>1. /\ Mine(i) /\ calls[i].do = "set" /\ control = "CAKeyStorageSwitch"
        /\ UNCHANGED <<shown, loading>>
    BY <1>9 DEF Rereads
  <2>2. PICK call \in CallTypes : /\ call.do = "reread" /\ call.mount = mount /\ call.state = "sent"
                                  /\ GoneThen(i, call)
    BY <1>9 DEF Rereads
  <2>3. ~Getting /\ ~Unanswered /\ ~Saving /\ ~Steady
    BY <2>1, KindsDiffer DEF Getting, Unanswered, Saving, Steady
  <2>4. Switched
    BY <2>3 DEF Truth
  <2>5. /\ \A j \in DOMAIN calls : Mine(j) => j = i
        /\ control # "AutoupdateSwitch" => loading
    BY <2>1, <2>4 DEF Switched
  <2>6. PICK m \in DOMAIN calls' : m = Len(calls) /\ calls'[m] = call
    BY <2>2 DEF GoneThen
  <2>7. Mine(m)'
    BY <1>2, <2>2, <2>6 DEF Mine
  <2>8. \A p \in DOMAIN calls' : Mine(p)' => p = m
    BY <1>1, <2>2, <2>5, <2>6, KeptFacts DEF GoneThen
  <2>9. Switched'
    BY <1>2, <2>1, <2>2, <2>5, <2>6, <2>7, <2>8 DEF Switched
  <2>10. QED
    BY <2>9 DEF Truth
<1>10. CASE Selected(i)
  <2>1. /\ Mine(i) /\ calls[i].do = "select"
        /\ \/ Gone(i) /\ UNCHANGED shown
           \/ \E call \in CallTypes : /\ call.do = "set" /\ call.mount = mount /\ call.state = "sent"
                                      /\ call.value = shown' /\ GoneThen(i, call)
    BY <1>10 DEF Selected
  <2>2. Saving
    BY <2>1 DEF Truth, Getting, Unanswered, Steady, Switched
  <2>3. ASSUME NEW call \in CallTypes, call.do = "set", call.mount = mount, call.state = "sent",
               call.value = shown', GoneThen(i, call)
        PROVE  Truth'
    <3>1. control = "AppRoutingSettings" /\ timer = <<>>
      BY <1>2, <2>1, <2>2, KindsDiffer DEF Saving
    <3>2. \A j \in DOMAIN calls : calls[j].do = "select" => j = i
      BY <2>1 DEF ControlsTyped
    <3>3. PICK m \in DOMAIN calls' : m = Len(calls) /\ calls'[m] = call
      BY <2>3 DEF GoneThen
    <3>4. \A p \in DOMAIN calls' : p = m \/ \E q \in DOMAIN calls : q # i /\ p = After(i, q)
      BY <2>3, <3>3 DEF GoneThen
    <3>5. \A p \in DOMAIN calls' : Mine(p)' => calls'[p].do = "set" /\ calls'[p].state # "failed"
      BY <1>1, <2>2, <2>3, <3>2, <3>3, <3>4, KeptFacts DEF GoneThen, Saving
    <3>6. IsSaving(m)' /\ \A p \in DOMAIN calls' : p <= m
      <4>1. Len(calls) \in Nat
        BY LenProperties DEF ControlsTyped
      <4>2. \A p \in DOMAIN calls' : p = m \/ p < m
        BY <1>1, <2>3, <3>3, <3>4, KeptFacts DEF GoneThen
      <4>3. \A p \in DOMAIN calls' : p \in Nat
        BY ReturnEffect, LenProperties
      <4>4. QED
        BY <1>2, <2>3, <3>3, <4>1, <4>2, <4>3 DEF IsSaving, Mine
    <3>7. Saving'
      BY <1>2, <2>3, <3>1, <3>3, <3>5, <3>6 DEF Saving
    <3>8. QED
      BY <3>7 DEF Truth
  <2>4. QED
    BY <1>7, <2>1, <2>2, <2>3
<1>11. CASE ReadFailed(i)
  <2>1. /\ Mine(i) /\ calls[i].do \in {"get", "reread"} /\ calls[i].state = "failed" /\ Gone(i)
        /\ UNCHANGED <<shown, loading>>
    BY <1>11 DEF ReadFailed
  <2>2. Getting
    BY <2>1, KindsDiffer DEF Truth, Unanswered, Saving, Steady, Switched
  <2>3. control = "AutostartSwitch" /\ loading /\ \A j \in DOMAIN calls : Mine(j) => j = i
    BY <2>1, <2>2 DEF Getting
  <2>4. \A p \in DOMAIN calls' : ~Mine(p)'
    BY <1>3, <2>1, <2>3
  <2>5. Unanswered'
    BY <1>2, <2>1, <2>3, <2>4 DEF Unanswered
  <2>6. QED
    BY <2>5 DEF Truth
<1>12. QED
  BY <1>1, <1>4, <1>5, <1>6, <1>8, <1>9, <1>10, <1>11

LEMMA StoredStep == ControlsTyped /\ Stored /\ ControlsNext => Stored'
<1> SUFFICES ASSUME ControlsTyped, Stored, ControlsNext PROVE Stored'
  OBVIOUS
<1>1. control' = control
  BY DEF ControlsNext, UserActs, Mount, Unmount, ProxyTurns, Proceeds, TimerFires, Perform, Return
<1>2. config' = config \/ \E i \in DOMAIN calls : config' = Written(calls[i])
  BY DEF ControlsNext, UserActs, Mount, Unmount, ProxyTurns, Proceeds, TimerFires, Perform,
     PerformSet, Return
<1>3. CASE config' = config
  BY <1>1, <1>3 DEF Stored, Saved
<1>4. ASSUME NEW i \in DOMAIN calls, config' = Written(calls[i])
      PROVE  Stored'
  <2>1. config' = Saved(config')
    <3>1. CASE control = "LibraryList"
      BY <3>1 DEF Saved, Fields
    <3>2. CASE control # "LibraryList"
      BY <1>4, <3>2, SavedTwice DEF Written
    <3>3. QED
      BY <3>1, <3>2
  <2>2. QED
    BY <1>1, <2>1 DEF Stored, Saved
<1>5. QED
  BY <1>2, <1>3, <1>4

LEMMA TruthfulStep ==
  ControlsTyped /\ Turns /\ Stored /\ Truthful /\ ControlsNext => Truthful'
<1> SUFFICES ASSUME ControlsTyped, Turns, Stored, Truthful, ControlsNext,
                    mount' > 0, ~muddled', control' # "LibraryList"
             PROVE  Truth'
  BY DEF Truthful, Truth
<1>1. ASSUME mount > 0, ~muddled, control # "LibraryList"
      PROVE  Truth
  BY <1>1 DEF Truthful, Truth
<1>2. CASE UserActs
  <2>1. Acted
    BY <1>2, UserEffect
  <2>2. mount > 0 /\ control # "LibraryList"
    BY <2>1 DEF Acted
  <2>3. ~muddled
    <3>1. Typed \/ Idling \/ \E call : SwitchFlipped(call) \/ Routed(call)
      BY <2>1, <2>2 DEF Acted, Listing
    <3>2. QED
      BY <3>1 DEF Typed, Idling, SwitchFlipped, Routed, Uncrossed
  <2>4. QED
    BY <1>1, <2>1, <2>2, <2>3, UserTruth
<1>3. CASE Mount
  <2>1. PICK call \in CallTypes : MountedAnew(call)
    BY <1>3, MountEffect
  <2>2. /\ mount' = mounts + 1 /\ timer' = <<>> /\ Called(call)
        /\ call.do = "get" /\ call.mount = mounts + 1 /\ call.state = "sent"
        /\ control' = "AutostartSwitch" => loading'
    BY <2>1 DEF MountedAnew
  <2>3. PICK m \in DOMAIN calls' : m = Len(calls) + 1 /\ calls'[m] = call
    BY <2>2 DEF Called
  <2>4. \A q \in DOMAIN calls : calls[q].mount # mounts + 1
    <3>1. mounts \in Nat /\ \A q \in DOMAIN calls : calls[q].mount \in Nat /\ calls[q].mount <= mounts
      BY CallFacts DEF ControlsTyped
    <3>2. QED
      BY <3>1
  <2>5. Mine(m)' /\ \A p \in DOMAIN calls' : Mine(p)' => p = m
    BY <2>2, <2>3, <2>4 DEF Mine, Called
  <2>6. Getting'
    BY <2>2, <2>3, <2>5 DEF Getting
  <2>7. QED
    BY <2>6 DEF Truth
<1>4. CASE Unmount
  BY <1>4 DEF Unmount
<1>5. CASE ProxyTurns
  <2>1. UNCHANGED <<control, config, mount, shown, loading, timer, calls, muddled>>
    BY <1>5 DEF ProxyTurns
  <2>2. Truth
    BY <1>1, <2>1
  <2> DEFINE f == [q \in DOMAIN calls |-> q]
  <2>3. /\ \A q \in DOMAIN calls : Mine(q) => f[q] \in DOMAIN calls' /\ calls'[f[q]] = calls[q]
        /\ \A p \in DOMAIN calls' : calls'[p].mount = mount =>
             \E q \in DOMAIN calls : Mine(q) /\ p = f[q]
        /\ \A q, r \in DOMAIN calls : Mine(q) /\ Mine(r) /\ q <= r => f[q] <= f[r]
    BY <2>1 DEF Mine
  <2> HIDE DEF f
  <2>4. QED
    BY <2>1, <2>2, <2>3, TruthKept
<1>6. CASE TimerFires
  <2>1. UNCHANGED <<control, mount, muddled>>
    BY <1>6 DEF TimerFires
  <2>2. QED
    BY <1>1, <1>6, <2>1, TimerTruth
<1>7. ASSUME NEW i \in DOMAIN calls, Perform(i)
      PROVE  Truth'
  <2>1. Performed(i) /\ (SetPerformed(i) \/ GetPerformed(i) \/ SelectPerformed(i))
    BY <1>7, PerformEffect
  <2>2. UNCHANGED <<control, mount>>
    BY <2>1 DEF Performed
  <2>3. ~muddled
    BY <2>1 DEF SetPerformed, GetPerformed, SelectPerformed
  <2>4. QED
    BY <1>1, <1>7, <2>2, <2>3, PerformTruth
<1>8. ASSUME NEW i \in DOMAIN calls, Return(i)
      PROVE  Truth'
  <2>1. UNCHANGED <<control, mount, muddled>>
    BY <1>8 DEF Return
  <2>2. QED
    BY <1>1, <1>8, <2>1, ReturnTruth
<1>9. QED
  BY <1>2, <1>3, <1>4, <1>5, <1>6, <1>7, <1>8 DEF ControlsNext, Proceeds

LEMMA ControlsInvariance == Spec => []ControlsInv
<1>1. Init => ControlsInv
  <2> SUFFICES ASSUME Init PROVE ControlsInv
    OBVIOUS
  <2>1. control \in Controls /\ config \in SettingsType
    <3>1. CASE ControlsInit
      <4>1. PICK v \in Settings(control) : config = Saved(v)
        BY <3>1 DEF ControlsInit
      <4>2. QED
        BY <3>1, <4>1, SettingsFacts DEF ControlsInit
    <3>2. CASE NoControls
      BY <3>2, SettingsFacts DEF NoControls, Controls, Fields
    <3>3. QED
      BY <3>1, <3>2 DEF Init
  <2>2. Idle
    BY DEF Init, ControlsInit, NoControls
  <2>3. /\ mount = 0 /\ mounts = 0 /\ shown \in SettingsType
        /\ timer = <<>> /\ timer \in Seq(SettingsType)
        /\ calls \in Seq(CallTypes) /\ DOMAIN calls = {}
    BY <2>2, SettingsFacts, EmptySeq DEF Idle
  <2>4. running \in BOOLEAN /\ loading \in BOOLEAN /\ muddled \in BOOLEAN
    BY <2>2 DEF Idle
  <2>5. ControlsTyped
    BY <2>1, <2>3, <2>4 DEF ControlsTyped
  <2>6. Turns /\ Truthful
    BY <2>3 DEF Turns, Truthful
  <2>7. Stored
    <3>1. CASE ControlsInit
      BY <3>1, SavedTwice DEF ControlsInit, Stored
    <3>2. CASE NoControls
      BY <3>2 DEF NoControls, Stored, Saved
    <3>3. QED
      BY <3>1, <3>2 DEF Init
  <2>8. QED
    BY <2>5, <2>6, <2>7 DEF ControlsInv
<1>2. ControlsInv /\ [Next]_vars => ControlsInv'
  <2> SUFFICES ASSUME ControlsInv, [Next]_vars PROVE ControlsInv'
    OBVIOUS
  <2>1. CASE ControlsNext
    BY <2>1, ControlsTypedStep, TurnsStep, StoredStep, TruthfulStep DEF ControlsInv
  <2>2. CASE UNCHANGED controlVars
    <3> USE <2>2 DEF controlVars
    <3>1. ControlsTyped'
      BY DEF ControlsInv, ControlsTyped
    <3>2. Turns'
      BY DEF ControlsInv, Turns, Mine, InTurn
    <3>3. Truthful'
      BY AgreesKept DEF ControlsInv, Truthful, Getting, Unanswered, Saving, Steady, Switched, Mine,
         IsSaving
    <3>4. Stored'
      BY DEF ControlsInv, Stored, Saved
    <3>5. QED
      BY <3>1, <3>2, <3>3, <3>4 DEF ControlsInv
  <2>3. QED
    BY <2>1, <2>2 DEF Next, vars
<1>3. QED
  BY <1>1, <1>2, PTL DEF Spec

\* A control of the settings and rules pages at rest, but LibraryList, shows the
\* setting that is in force, as it is saved of what was typed, however typing, switching, mounting, the debounced saves and the
\* answers of the backend overlapped (the handlers under frontend/src in
\* SettingsManager, Rules and components/settings, after their await).
THEOREM ControlsAreTrue == Spec => []ControlsTellTruth
<1>1. ControlsInv => ControlsTellTruth
  <2> SUFFICES ASSUME ControlsInv, mount > 0, ~loading, timer = <<>>, calls = <<>>, ~muddled,
                      control # "LibraryList"
               PROVE  config = Saved(shown)
    BY DEF ControlsTellTruth, Quiet
  <2>1. DOMAIN calls = {}
    BY EmptySeq
  <2>2. Saving \/ Steady
    BY <2>1 DEF ControlsInv, Truthful, Getting, Unanswered, Switched
  <2>3. timer # <<shown>>
    OBVIOUS
  <2>4. CASE Saving
    BY <2>1, <2>3, <2>4 DEF Saving, Agrees
  <2>5. CASE Steady
    BY <2>5 DEF ControlsInv, Stored, Steady
  <2>6. QED
    BY <2>2, <2>4, <2>5
<1>2. QED
  BY <1>1, ControlsInvariance, PTL
=============================================================================
