-------------------------- MODULE StateStoreProofs --------------------------
(***************************************************************************)
(* What the state store may never lose.  Of the database: whatever is      *)
(* migrated, restored, crashed or flushed, the lines of every event log    *)
(* are the rows of a linked chain and no applied rollback drops a row,     *)
(* because an image is never ahead of the live rows and one with as many   *)
(* rows has the same ones: IInv of StateMaintenance is inductive.  Of the  *)
(* installed files: whatever fails and whenever the process dies, an apply *)
(* installs all of its plan or restores what it found, and what was        *)
(* installed first is never destroyed: IInv of ReleaseRollback is          *)
(* inductive.  Of what is imported: a ledger row has the directory that    *)
(* was sealed with it and its account in the audit chain, and was read     *)
(* from one state of the source: IInv of LegacyImport is inductive.        *)
(***************************************************************************)
EXTENDS StateMaintenance, FiniteSetTheorems, SequenceTheorems, TLAPS

(* What IsPrefix of the community modules says of the places of a chain.   *)
LEMMA PrefixPlaces ==
    ASSUME NEW s \in Seq(Event), NEW t \in Seq(Event)
    PROVE  IsPrefix(s, t) <=> (Len(s) <= Len(t) /\ \A i \in 1 .. Len(s) : s[i] = t[i])
<1>1. Len(s) \in Nat /\ Len(t) \in Nat
    OBVIOUS
<1>2. ASSUME Len(s) <= Len(t)
      PROVE  (SubSeq(s, 1, Len(s)) = SubSeq(t, 1, Len(s))) <=> \A i \in 1 .. Len(s) : s[i] = t[i]
    <2>1. SubSeq(s, 1, Len(s)) = [i \in 1 .. Len(s) |-> s[i]]
        BY <1>1
    <2>2. SubSeq(t, 1, Len(s)) = [i \in 1 .. Len(s) |-> t[i]]
        BY <1>1, <1>2
    <2> QED
        BY <2>1, <2>2
<1> QED
    BY <1>2 DEF IsPrefix

(* A chain is a prefix of itself, of what is appended to it and of what    *)
(* extends it further.                                                     *)
LEMMA PrefixOrder ==
    ASSUME NEW s \in Seq(Event), NEW t \in Seq(Event), NEW u \in Seq(Event)
    PROVE  /\ IsPrefix(s, s)
           /\ IsPrefix(s, t) /\ IsPrefix(t, u) => IsPrefix(s, u)
           /\ IsPrefix(s, t) /\ Len(s) = Len(t) => s = t
<1>1. Len(s) \in Nat /\ Len(t) \in Nat /\ Len(u) \in Nat
    OBVIOUS
<1>2. IsPrefix(s, s)
    BY PrefixPlaces, <1>1
<1>3. ASSUME IsPrefix(s, t), IsPrefix(t, u) PROVE IsPrefix(s, u)
    <2>1. Len(s) <= Len(t) /\ \A i \in 1 .. Len(s) : s[i] = t[i]
        BY <1>3, PrefixPlaces
    <2>2. Len(t) <= Len(u) /\ \A i \in 1 .. Len(t) : t[i] = u[i]
        BY <1>3, PrefixPlaces
    <2>3. Len(s) <= Len(u) /\ \A i \in 1 .. Len(s) : s[i] = u[i]
        BY <1>1, <2>1, <2>2
    <2> QED
        BY <2>3, PrefixPlaces
<1>4. ASSUME IsPrefix(s, t), Len(s) = Len(t) PROVE s = t
    <2>1. \A i \in 1 .. Len(s) : s[i] = t[i]
        BY <1>4, PrefixPlaces
    <2> QED
        BY <1>4, <2>1, SeqEqual
<1> QED
    BY <1>2, <1>3, <1>4

(* Appending to a chain extends it.                                        *)
LEMMA PrefixAppend ==
    ASSUME NEW s \in Seq(Event), NEW e \in Event
    PROVE  Append(s, e) \in Seq(Event) /\ IsPrefix(s, Append(s, e))
<1> DEFINE t == Append(s, e)
<1>1. t \in Seq(Event) /\ Len(t) = Len(s) + 1 /\ Len(s) \in Nat
    OBVIOUS
<1>2. \A i \in 1 .. Len(s) : s[i] = t[i]
    OBVIOUS
<1> HIDE DEF t
<1>3. Len(s) <= Len(t)
    BY <1>1
<1>4. IsPrefix(s, t)
    BY <1>1, <1>2, <1>3, PrefixPlaces
<1> QED
    BY <1>1, <1>4 DEF t

(* What a power loss leaves of a file is still a prefix.                   *)
LEMMA PrefixCut ==
    ASSUME NEW s \in Seq(Event), NEW t \in Seq(Event), NEW n \in Nat, n <= Len(s), IsPrefix(s, t)
    PROVE  SubSeq(s, 1, n) \in Seq(Event) /\ IsPrefix(SubSeq(s, 1, n), t)
<1>1. Len(s) \in Nat /\ Len(t) \in Nat
    OBVIOUS
<1>2. SubSeq(s, 1, n) \in Seq(Event) /\ Len(SubSeq(s, 1, n)) = n
      /\ \A i \in 1 .. n : SubSeq(s, 1, n)[i] = s[i]
    <2>1. 1 \in 1 .. Len(s) + 1 /\ n \in 0 .. Len(s)
        BY <1>1
    <2>2. \A i \in 1 .. n : s[i] \in Event
        BY <1>1
    <2>3. SubSeq(s, 1, n) = [i \in 1 .. n |-> s[i]]
        BY <1>1
    <2>4. [i \in 1 .. n |-> s[i]] \in Seq(Event) /\ Len([i \in 1 .. n |-> s[i]]) = n
        BY <2>2
    <2> QED
        BY <2>3, <2>4
<1>3. Len(s) <= Len(t) /\ \A i \in 1 .. Len(s) : s[i] = t[i]
    BY PrefixPlaces
<1> DEFINE u == SubSeq(s, 1, n)
<1>4. u \in Seq(Event) /\ Len(u) = n /\ \A i \in 1 .. n : u[i] = s[i]
    BY <1>2
<1> HIDE DEF u
<1>5. Len(u) <= Len(t) /\ \A i \in 1 .. Len(u) : u[i] = t[i]
    BY <1>1, <1>3, <1>4
<1>6. IsPrefix(u, t)
    BY <1>4, <1>5, PrefixPlaces
<1> QED
    BY <1>4, <1>6 DEF u

(* The same of all chains of a database.                                   *)
LEMMA ChainsOrder ==
    ASSUME NEW a \in Chains, NEW b \in Chains, NEW c \in Chains
    PROVE  /\ Prefixed(a, a)
           /\ Prefixed(a, b) /\ Prefixed(b, c) => Prefixed(a, c)
<1>1. \A w \in Workspaces : a[w] \in Seq(Event) /\ b[w] \in Seq(Event) /\ c[w] \in Seq(Event)
    BY DEF Chains
<1> QED
    BY <1>1, PrefixOrder DEF Prefixed

(* The rows of a database are finitely many.                               *)
LEMMA RowsFinite ==
    ASSUME UpkeepConstants, NEW d, d.events \in Chains
    PROVE  IsFiniteSet(AllRows(d))
<1> DEFINE rows(w) == {<<w, n>> : n \in 1 .. Len(d.events[w])}
           all == {rows(w) : w \in Workspaces}
<1>1. \A w \in Workspaces : Len(d.events[w]) \in Nat
    BY DEF Chains
<1>2. \A w \in Workspaces : IsFiniteSet(rows(w))
    <2> TAKE w \in Workspaces
    <2>1. IsFiniteSet(1 .. Len(d.events[w]))
        BY <1>1, FS_Interval
    <2> DEFINE f == [n \in 1 .. Len(d.events[w]) |-> <<w, n>>]
    <2>2. f \in Surjection(1 .. Len(d.events[w]), rows(w))
        BY DEF Surjection
    <2> HIDE DEF f, rows
    <2> QED
        BY <2>1, <2>2, FS_Surjection
<1> HIDE DEF rows
<1>3. IsFiniteSet(all)
    <2>1. IsFiniteSet(Workspaces)
        BY DEF UpkeepConstants
    <2> DEFINE f == [w \in Workspaces |-> rows(w)]
    <2>2. f \in Surjection(Workspaces, all)
        BY DEF Surjection
    <2> HIDE DEF f, all
    <2> QED
        BY <2>1, <2>2, FS_Surjection
<1>4. \A r \in all : IsFiniteSet(r)
    BY <1>2
<1> HIDE DEF all
<1>5. IsFiniteSet(UNION all)
    BY <1>3, <1>4, FS_UNION
<1>6. AllRows(d) = UNION all
    BY DEF all, rows, AllRows
<1> QED
    BY <1>5, <1>6

(* An element of the rows is a place in a chain.                           *)
LEMMA RowPlaces ==
    ASSUME NEW d, NEW w, NEW n
    PROVE  <<w, n>> \in AllRows(d) <=> w \in Workspaces /\ n \in 1 .. Len(d.events[w])
BY DEF AllRows

(* Before the partition the newest sequence is the number of rows, since   *)
(* all are in one chain; afterwards last_event_sequence counts them.       *)
LEMMA Counted ==
    ASSUME UpkeepConstants, NEW d, DbHeld(d)
    PROVE  LastEventSequence(d) = Cardinality(AllRows(d))
<1>1. CASE d.version >= PartitionVersion
    BY <1>1 DEF LastEventSequence
<1>2. CASE ~(d.version >= PartitionVersion)
    <2>1. d \in Database /\ d.version \in Nat /\ PartitionVersion \in Nat
        BY DEF DbHeld, Database, UpkeepConstants
    <2>2. \A w \in Workspaces \ {Legacy} : d.events[w] = << >>
        BY <1>2, <2>1 DEF DbHeld
    <2>3. Legacy \in Workspaces
        BY DEF UpkeepConstants
    <2>4. d.events[Legacy] \in Seq(Event)
        BY <2>1, <2>3 DEF Database, Chains
    <2> DEFINE n == Len(d.events[Legacy])
    <2>5. n \in Nat
        BY <2>4
    <2>6. \A w \in Workspaces : Len(d.events[w]) \in {0, n}
        BY <2>2
    <2>7. MaxSequence(d) = n
        <3> DEFINE T == {Len(d.events[w]) : w \in Workspaces}
        <3>1. n \in T /\ \A y \in T : y \in Nat /\ n >= y
            BY <2>3, <2>5, <2>6
        <3> HIDE DEF T
        <3>2. Max(T) \in T /\ \A y \in T : Max(T) >= y
            BY <3>1 DEF Max
        <3>3. Max(T) = n
            BY <3>1, <3>2, <2>5
        <3> QED
            BY <3>3 DEF MaxSequence, T
    <2>8. AllRows(d) = {<<Legacy, i>> : i \in 1 .. n}
        <3>1. \A w \in Workspaces \ {Legacy} : {<<w, i>> : i \in 1 .. Len(d.events[w])} = {}
            BY <2>2
        <3> QED
            BY <2>3, <3>1 DEF AllRows
    <2> HIDE DEF n
    <2>9. Cardinality({<<Legacy, i>> : i \in 1 .. n}) = n
        <3> DEFINE f == [i \in 1 .. n |-> <<Legacy, i>>]
                   R == {<<Legacy, i>> : i \in 1 .. n}
        <3>1. f \in Bijection(1 .. n, R)
            BY DEF Bijection, Injection, Surjection, IsInjective
        <3> HIDE DEF f, R
        <3>2. ExistsBijection(1 .. n, R)
            BY <3>1 DEF ExistsBijection
        <3>3. IsFiniteSet(1 .. n) /\ Cardinality(1 .. n) = n
            BY <2>5, FS_Interval
        <3>4. Cardinality(R) = n
            BY <3>2, <3>3, FS_Bijection
        <3> QED
            BY <3>4 DEF R
    <2> QED
        BY <1>2, <2>7, <2>8, <2>9 DEF LastEventSequence
<1> QED
    BY <1>1, <1>2

(* The guard of a rollback: a database that is not ahead of another and    *)
(* has as many rows has the same rows.                                     *)
LEMMA SameRows ==
    ASSUME UpkeepConstants, NEW a, NEW b, DbHeld(a), DbHeld(b), Prefixed(a.events, b.events),
           LastEventSequence(a) = LastEventSequence(b)
    PROVE  a.events = b.events
<1>1. a.events \in Chains /\ b.events \in Chains
    BY DEF DbHeld, Database
<1>2. \A w \in Workspaces : a.events[w] \in Seq(Event) /\ b.events[w] \in Seq(Event)
    BY <1>1 DEF Chains
<1>3. \A w \in Workspaces : Len(a.events[w]) \in Nat /\ Len(b.events[w]) \in Nat
    BY <1>2
<1>4. \A w \in Workspaces : Len(a.events[w]) <= Len(b.events[w])
    BY <1>2, PrefixPlaces DEF Prefixed
<1>5. AllRows(a) \subseteq AllRows(b)
    BY <1>3, <1>4 DEF AllRows
<1>6. Cardinality(AllRows(a)) = Cardinality(AllRows(b))
    BY Counted
<1>7. IsFiniteSet(AllRows(b))
    BY <1>1, RowsFinite
<1>8. AllRows(a) = AllRows(b)
    BY <1>5, <1>6, <1>7, FS_Subset
<1>9. \A w \in Workspaces : Len(a.events[w]) = Len(b.events[w])
    <2> SUFFICES ASSUME NEW w \in Workspaces, Len(a.events[w]) < Len(b.events[w]) PROVE FALSE
        BY <1>3, <1>4
    <2> DEFINE n == Len(b.events[w])
    <2>1. n \in 1 .. Len(b.events[w]) /\ n \notin 1 .. Len(a.events[w])
        BY <1>3
    <2> QED
        BY <1>8, <2>1, RowPlaces
<1>10. \A w \in Workspaces : a.events[w] = b.events[w]
    BY <1>2, <1>9, PrefixOrder DEF Prefixed
<1> QED
    BY <1>1, <1>10 DEF Chains

(* What is a prefix of the rows stays one when rows are appended, and what *)
(* a flusher fetched still follows.                                        *)
LEMMA GrowthKeeps ==
    ASSUME NEW e \in Chains, NEW e2 \in Chains, Prefixed(e, e2),
           NEW im, ImagesHeld(im, e), NEW l, LogHeld(l, e), NEW fl, FlushHeld(fl, l, e)
    PROVE  ImagesHeld(im, e2) /\ LogHeld(l, e2) /\ FlushHeld(fl, l, e2)
<1>1. ImagesHeld(im, e2)
    <2>1. \A i \in 1 .. Len(im) : im[i].db.events \in Chains
        BY DEF ImagesHeld, DbHeld, Database
    <2>2. \A i \in 1 .. Len(im) : Prefixed(im[i].db.events, e2)
        BY <2>1, ChainsOrder DEF ImagesHeld
    <2> QED
        BY <2>2 DEF ImagesHeld
<1>2. \A w \in Workspaces : e[w] \in Seq(Event) /\ e2[w] \in Seq(Event) /\ IsPrefix(e[w], e2[w])
    BY DEF Chains, Prefixed
<1>3. LogHeld(l, e2)
    <2>1. \A w \in Workspaces : l[w].lines \in Seq(Event)
        BY DEF LogHeld, LogFile
    <2>2. \A w \in Workspaces : IsPrefix(l[w].lines, e2[w])
        BY <1>2, <2>1, PrefixOrder DEF LogHeld
    <2> QED
        BY <2>2 DEF LogHeld
<1>4. ASSUME NEW f \in Flushers, fl[f].at # "idle", fl[f].at = "writing"
      PROVE  Continues(fl[f].pending, fl[f].cursor, e2[fl[f].ws])
    <2>1. fl[f].ws \in Workspaces /\ fl[f].cursor \in Nat /\ Len(fl[f].pending) \in Nat
        BY DEF FlushHeld, FlushRecord
    <2>2. Continues(fl[f].pending, fl[f].cursor, e[fl[f].ws])
        BY <1>4 DEF FlushHeld
    <2> DEFINE s == e[fl[f].ws]
               t == e2[fl[f].ws]
               page == fl[f].pending
               n == fl[f].cursor
    <2>3. s \in Seq(Event) /\ t \in Seq(Event) /\ IsPrefix(s, t)
        BY <1>2, <2>1
    <2>4. Continues(page, n, s) /\ n \in Nat /\ Len(page) \in Nat
        BY <2>1, <2>2
    <2> HIDE DEF s, t, page, n
    <2>5. Len(s) <= Len(t) /\ (\A i \in 1 .. Len(s) : s[i] = t[i]) /\ Len(s) \in Nat /\ Len(t) \in Nat
        BY <2>3, PrefixPlaces
    <2>6. Continues(page, n, t)
        BY <2>4, <2>5 DEF Continues
    <2> QED
        BY <2>6 DEF t, page, n
<1>5. FlushHeld(fl, l, e2)
    BY <1>4 DEF FlushHeld
<1> QED
    BY <1>1, <1>3, <1>5

(* append_workspace_event_in_transaction continues the chain of its        *)
(* workspace and touches no other.                                         *)
LEMMA AppendKeeps ==
    ASSUME NEW d, DbHeld(d), NEW w \in Workspaces, NEW id \in Nat,
           UpkeepConstants, w = Legacy \/ d.version >= PartitionVersion
    PROVE  /\ DbHeld(AppendEvent(d, w, id))
           /\ AppendEvent(d, w, id).events \in Chains
           /\ Prefixed(d.events, AppendEvent(d, w, id).events)
           /\ AppendEvent(d, w, id).version = d.version
<1> DEFINE s == d.events[w]
           v == [id |-> id, prev |-> LastHash(s)]
           t == Append(s, v)
           e == [d.events EXCEPT ![w] = t]
           a == AppendEvent(d, w, id)
<1>1. d \in Database /\ d.events \in Chains /\ s \in Seq(Event) /\ d.version \in Nat
      /\ PartitionVersion \in Nat
    BY DEF DbHeld, Database, Chains, UpkeepConstants
<1>2. LastHash(s) \in Nat
    <2>1. CASE s = << >>
        BY <2>1 DEF LastHash
    <2>2. CASE s # << >>
        <3>1. Len(s) \in 1 .. Len(s)
            BY <1>1, <2>2, EmptySeq
        <3>2. s[Len(s)] \in Event
            BY <1>1, <3>1
        <3> QED
            BY <2>2, <3>2 DEF LastHash, Last, Event
    <2> QED
        BY <2>1, <2>2
<1>3. v \in Event /\ v.prev = LastHash(s) /\ v.id = id
    BY <1>2 DEF Event
<1>4. a = [d EXCEPT !.events = e]
    BY <1>1 DEF AppendEvent, Database, Chains
<1> HIDE DEF v
<1>5. t \in Seq(Event) /\ IsPrefix(s, t)
    BY <1>1, <1>3, PrefixAppend
<1>6. /\ Len(t) = Len(s) + 1 /\ Len(s) \in Nat /\ t[Len(s) + 1] = v
      /\ \A i \in 1 .. Len(s) : t[i] = s[i]
    BY <1>1, <1>3
<1> HIDE DEF t, s
<1>7. e \in Chains /\ e[w] = t /\ \A x \in Workspaces \ {w} : e[x] = d.events[x]
    BY <1>1, <1>5 DEF Chains
<1> HIDE DEF e, a
<1>8. a \in Database /\ a.events = e /\ a.version = d.version
    BY <1>1, <1>4, <1>7 DEF Database
<1>9. Prefixed(d.events, e)
    <2>1. \A x \in Workspaces : d.events[x] \in Seq(Event)
        BY <1>1 DEF Chains
    <2>2. \A x \in Workspaces \ {w} : IsPrefix(d.events[x], e[x])
        BY <1>7, <2>1, PrefixOrder
    <2>3. IsPrefix(d.events[w], e[w])
        BY <1>5, <1>7 DEF s
    <2> QED
        BY <2>2, <2>3 DEF Prefixed
<1>10. Linked(e)
    <2>1. Linked(d.events)
        BY DEF DbHeld
    <2>2. ASSUME NEW x \in Workspaces \ {w}, NEW i \in 1 .. Len(e[x])
          PROVE  e[x][i].prev = IF i = 1 THEN 0 ELSE e[x][i - 1].id
        BY <1>7, <2>1 DEF Linked
    <2>3. \A i \in 1 .. Len(s) : s[i].prev = IF i = 1 THEN 0 ELSE s[i - 1].id
        BY <2>1 DEF Linked, s
    <2>4. LastHash(s) = IF Len(s) = 0 THEN 0 ELSE s[Len(s)].id
        BY <1>1, EmptySeq DEF LastHash, Last
    <2>5. ASSUME NEW i \in 1 .. Len(t)
          PROVE  t[i].prev = IF i = 1 THEN 0 ELSE t[i - 1].id
        <3>1. CASE i \in 1 .. Len(s)
            <4>1. t[i] = s[i] /\ (i # 1 => t[i - 1] = s[i - 1])
                BY <1>6, <3>1
            <4> QED
                BY <2>3, <3>1, <4>1
        <3>2. CASE i = Len(s) + 1
            <4>1. t[i].prev = LastHash(s)
                BY <1>3, <1>6, <3>2
            <4>2. i # 1 => t[i - 1] = s[Len(s)] /\ Len(s) # 0
                BY <1>6, <3>2
            <4>3. i = 1 => Len(s) = 0
                BY <1>6, <3>2
            <4> QED
                BY <2>4, <4>1, <4>2, <4>3
        <3> QED
            BY <1>6, <2>5, <3>1, <3>2
    <2> QED
        BY <1>7, <2>2, <2>5 DEF Linked
<1>11. d.version < PartitionVersion => \A x \in Workspaces \ {Legacy} : e[x] = << >>
    <2>1. ASSUME d.version < PartitionVersion PROVE w = Legacy
        BY <1>1, <2>1
    <2> QED
        BY <1>7, <2>1 DEF DbHeld
<1>12. DbHeld(a)
    BY <1>8, <1>10, <1>11 DEF DbHeld
<1> QED
    BY <1>7, <1>8, <1>9, <1>12 DEF a

(* A database that differs in other fields only, or is of a later version. *)
LEMMA SameChains ==
    ASSUME UpkeepConstants, NEW d, DbHeld(d), NEW d2 \in Database, d2.events = d.events,
           d2.version >= d.version
    PROVE  DbHeld(d2) /\ Prefixed(d.events, d2.events)
<1>1. d.version \in Nat /\ d2.version \in Nat /\ PartitionVersion \in Nat /\ d.events \in Chains
    BY DEF DbHeld, Database, UpkeepConstants
<1>2. Prefixed(d.events, d2.events)
    BY <1>1, ChainsOrder
<1> QED
    BY <1>1, <1>2 DEF DbHeld

(* The files, images and flushers after a step that only adds rows.        *)
LEMMA Carry ==
    ASSUME IInv, DbHeld(db'), Prefixed(db.events, db'.events), UNCHANGED <<images, log, flush>>
    PROVE  /\ ImagesHeld(images', db'.events) /\ LogHeld(log', db'.events)
           /\ FlushHeld(flush', log', db'.events)
<1>1. db.events \in Chains /\ db'.events \in Chains
    BY DEF IInv, DbHeld, Database
<1>2. ImagesHeld(images, db.events) /\ LogHeld(log, db.events) /\ FlushHeld(flush, log, db.events)
    BY DEF IInv
<1>3. /\ ImagesHeld(images, db'.events) /\ LogHeld(log, db'.events)
      /\ FlushHeld(flush, log, db'.events)
    BY ONLY <1>1, <1>2, GrowthKeeps, Prefixed(db.events, db'.events)
<1> QED
    BY <1>3

(* The owner's progress after a step that only adds rows.                  *)
LEMMA StepGrows ==
    ASSUME NEW step, NEW cur, NEW d, StepHeld(step, cur, d), NEW d2, NEW step2,
           DbHeld(d), DbHeld(d2), Prefixed(d.events, d2.events),
           step2 \notin {"restore", "recover"}, step2 \in {"serve", "migrated"} => d2.version = Target
    PROVE  StepHeld(step2, cur, d2)
<1>1. d.events \in Chains /\ d2.events \in Chains
    BY DEF DbHeld, Database
<1>2. \A b \in cur.before : b.events \in Chains /\ Prefixed(b.events, d.events)
    BY DEF StepHeld
<1>3. \A b \in cur.before : Prefixed(b.events, d2.events)
    BY <1>1, <1>2, ChainsOrder
<1> QED
    BY <1>2, <1>3 DEF StepHeld

(* Nothing is being applied.                                               *)
LEMMA NoPlanHeld ==
    ASSUME NEW pl, NEW im, NEW d, \A p \in pl : p.image \in 1 .. Len(im)
    PROVE  PlansHeld(pl, NoPlan, im) /\ StepHeld("idle", NoPlan, d)
BY DEF PlansHeld, StepHeld, NoPlan

(* The owner lock is taken, and given back by a process that ends or dies. *)
LEMMA OwnerOK ==
    ASSUME UpkeepConstants, IInv,
           (\E who \in {"daemon", "maint"} : Acquire(who)) \/ DaemonEnds \/ CommandRefused \/ OwnerCrash
    PROVE  IInv'
<1>1. UNCHANGED <<db, images, plans, log, flush>>
    BY DEF Acquire, DaemonEnds, CommandRefused, OwnerCrash
<1>2. /\ TypeOK /\ DbHeld(db) /\ ImagesHeld(images, db.events) /\ LogHeld(log, db.events)
      /\ FlushHeld(flush, log, db.events) /\ PlansHeld(plans, current, images)
      /\ StepHeld(pc, current, db)
    BY DEF IInv
<1>3. TypeOK'
    BY <1>2 DEF TypeOK, Acquire, DaemonEnds, CommandRefused, OwnerCrash, Release, Steps
<1>4. PlansHeld(plans, current', images) /\ StepHeld(pc', current', db)
    <2>1. CASE \E who \in {"daemon", "maint"} : Acquire(who)
        <3>1. current' = current /\ pc' \in {"migrate", "command"}
            BY <2>1 DEF Acquire
        <3> QED
            BY <1>2, <3>1 DEF StepHeld
    <2>2. CASE DaemonEnds \/ CommandRefused \/ OwnerCrash
        <3>1. current' = NoPlan /\ pc' = "idle"
            BY <2>2 DEF DaemonEnds, CommandRefused, OwnerCrash, Release
        <3>2. \A p \in plans : p.image \in 1 .. Len(images)
            BY <1>2 DEF PlansHeld
        <3> QED
            BY <3>1, <3>2, NoPlanHeld
    <2> QED
        BY <2>1, <2>2
<1> QED
    BY <1>1, <1>2, <1>3, <1>4 DEF IInv

(* The daemon appends an event of a workspace.                             *)
LEMMA DaemonAppendOK ==
    ASSUME UpkeepConstants, IInv, NEW w \in Workspaces, DaemonAppend(w)
    PROVE  IInv'
<1>1. /\ TypeOK /\ DbHeld(db) /\ PlansHeld(plans, current, images) /\ StepHeld(pc, current, db)
      /\ pc = "serve" /\ db' = AppendEvent(db, w, nextId) /\ nextId \in Nat
      /\ UNCHANGED <<images, plans, log, flush, current, pc>>
    BY DEF IInv, DaemonAppend, TypeOK
<1>2. db.version >= PartitionVersion
    BY <1>1 DEF StepHeld, UpkeepConstants
<1>3. DbHeld(db') /\ Prefixed(db.events, db'.events) /\ db'.version = db.version
    BY <1>1, <1>2, AppendKeeps
<1>4. TypeOK'
    BY DEF IInv, TypeOK, DaemonAppend
<1>5. StepHeld("serve", current, db')
    <2>1. db'.version = Target
        BY <1>1, <1>3 DEF StepHeld
    <2> QED
        BY <1>1, <1>3, <2>1, StepGrows
<1>6. /\ ImagesHeld(images', db'.events) /\ LogHeld(log', db'.events)
      /\ FlushHeld(flush', log', db'.events)
    BY <1>1, <1>3, Carry
<1> QED
    BY <1>1, <1>3, <1>4, <1>5, <1>6 DEF IInv

(* Tasks start and end.                                                    *)
LEMMA DaemonWorkOK ==
    ASSUME UpkeepConstants, IInv, DaemonWork
    PROVE  IInv'
<1>1. /\ TypeOK /\ DbHeld(db) /\ PlansHeld(plans, current, images) /\ StepHeld(pc, current, db)
      /\ pc = "serve" /\ db' = [db EXCEPT !.active = ~@]
      /\ UNCHANGED <<images, plans, log, flush, current, pc>>
    BY DEF IInv, DaemonWork
<1>2. db' \in Database /\ db'.events = db.events /\ db'.version = db.version /\ db.version \in Nat
    BY <1>1 DEF DbHeld, Database
<1>3. DbHeld(db') /\ Prefixed(db.events, db'.events)
    <2>1. db'.version >= db.version
        BY <1>2
    <2> QED
        BY <1>1, <1>2, <2>1, SameChains
<1>4. TypeOK'
    BY DEF IInv, TypeOK, DaemonWork
<1>5. StepHeld("serve", current, db')
    BY <1>1, <1>2, <1>3, StepGrows DEF StepHeld
<1>6. /\ ImagesHeld(images', db'.events) /\ LogHeld(log', db'.events)
      /\ FlushHeld(flush', log', db'.events)
    BY <1>1, <1>3, Carry
<1> QED
    BY <1>1, <1>3, <1>4, <1>5, <1>6 DEF IInv

(* An audit event of a maintenance command, if the legacy workspace exists. *)
LEMMA AuditedOK ==
    ASSUME UpkeepConstants, IInv, NEW next, Audited(next), UNCHANGED <<images, log, flush>>
    PROVE  /\ DbHeld(db') /\ Prefixed(db.events, db'.events) /\ db'.version = db.version
           /\ nextId' \in Nat /\ pc' = next
           /\ ImagesHeld(images', db'.events) /\ LogHeld(log', db'.events)
           /\ FlushHeld(flush', log', db'.events)
<1>1. DbHeld(db) /\ nextId \in Nat /\ Legacy \in Workspaces
    BY DEF IInv, TypeOK, UpkeepConstants
<1>2. DbHeld(db') /\ Prefixed(db.events, db'.events) /\ db'.version = db.version
    <2>1. CASE LegacyPresent(db)
        BY <1>1, <2>1, AppendKeeps DEF Audited
    <2>2. CASE ~LegacyPresent(db)
        <3>1. db' = db /\ db.events \in Chains
            BY <1>1, <2>2 DEF Audited, DbHeld, Database
        <3> QED
            BY <1>1, <3>1, ChainsOrder
    <2> QED
        BY <2>1, <2>2
<1>3. nextId' \in Nat /\ pc' = next
    BY <1>1 DEF Audited
<1>4. /\ ImagesHeld(images', db'.events) /\ LogHeld(log', db'.events)
      /\ FlushHeld(flush', log', db'.events)
    BY <1>2, Carry
<1> QED
    BY <1>2, <1>3, <1>4

(* The audit events of the migrate commands.                               *)
LEMMA AuditStepsOK ==
    ASSUME UpkeepConstants, IInv, MigrateStarts \/ RollbackPlanned \/ RollbackCompleted
    PROVE  IInv'
<1>1. /\ TypeOK /\ DbHeld(db) /\ PlansHeld(plans, current, images) /\ StepHeld(pc, current, db)
      /\ UNCHANGED <<images, plans, log, flush>>
    BY DEF IInv, MigrateStarts, RollbackPlanned, RollbackCompleted
<1>2. PICK next \in {"migrate", "completed", "idle"} : Audited(next)
    BY DEF MigrateStarts, RollbackPlanned, RollbackCompleted
<1>3. /\ DbHeld(db') /\ Prefixed(db.events, db'.events) /\ db'.version = db.version
      /\ nextId' \in Nat /\ pc' = next
      /\ ImagesHeld(images', db'.events) /\ LogHeld(log', db'.events)
      /\ FlushHeld(flush', log', db'.events)
    BY <1>1, <1>2, AuditedOK
<1>4. TypeOK'
    BY <1>1, <1>2, <1>3 DEF TypeOK, MigrateStarts, RollbackPlanned, RollbackCompleted, Steps
<1>5. StepHeld(next, current, db')
    BY <1>1, <1>2, <1>3, StepGrows
<1>6. PlansHeld(plans, current', images) /\ StepHeld(pc', current', db')
    <2>1. CASE current' = current
        BY <1>1, <1>3, <1>5, <2>1
    <2>2. CASE RollbackCompleted
        <3>1. current' = NoPlan /\ Audited("idle")
            BY <2>2 DEF RollbackCompleted
        <3>2. pc' = "idle"
            BY <3>1 DEF Audited
        <3>3. \A p \in plans : p.image \in 1 .. Len(images)
            BY <1>1 DEF PlansHeld
        <3> QED
            BY <3>1, <3>2, <3>3, NoPlanHeld
    <2> QED
        BY <2>1, <2>2 DEF MigrateStarts, RollbackPlanned
<1> QED
    BY <1>1, <1>3, <1>4, <1>6 DEF IInv

(* The end of a migration.                                                 *)
LEMMA MigratedOK ==
    ASSUME UpkeepConstants, IInv, Migrated
    PROVE  IInv'
<1>1. /\ TypeOK /\ DbHeld(db) /\ PlansHeld(plans, current, images) /\ StepHeld(pc, current, db)
      /\ pc = "migrated" /\ UNCHANGED <<images, plans, log, flush, current>>
    BY DEF IInv, Migrated
<1>2. CASE owner = "daemon" /\ pc' = "serve" /\ UNCHANGED <<db, nextId, owner, current>>
    <2>1. TypeOK'
        BY <1>1, <1>2 DEF TypeOK, Migrated, Steps
    <2>2. StepHeld("serve", current, db)
        BY <1>1 DEF StepHeld
    <2>3. ImagesHeld(images, db.events) /\ LogHeld(log, db.events) /\ FlushHeld(flush, log, db.events)
        BY DEF IInv
    <2> QED
        BY <1>1, <1>2, <2>1, <2>2, <2>3 DEF IInv
<1>3. CASE owner = "maint" /\ Audited("idle") /\ owner' = "none"
    <2>1. /\ DbHeld(db') /\ Prefixed(db.events, db'.events)
          /\ nextId' \in Nat /\ pc' = "idle"
          /\ ImagesHeld(images', db'.events) /\ LogHeld(log', db'.events)
          /\ FlushHeld(flush', log', db'.events)
        BY <1>1, <1>3, AuditedOK
    <2>2. TypeOK'
        BY <1>1, <1>3, <2>1 DEF TypeOK, Migrated, Steps
    <2>3. StepHeld("idle", current, db')
        BY <1>1, <2>1, StepGrows
    <2> QED
        BY <1>1, <2>1, <2>2, <2>3 DEF IInv
<1> QED
    BY <1>2, <1>3 DEF Migrated

(* A version is applied.                                                   *)
LEMMA ApplyVersionOK ==
    ASSUME UpkeepConstants, IInv, ApplyVersion
    PROVE  IInv'
<1>1. /\ TypeOK /\ DbHeld(db) /\ PlansHeld(plans, current, images) /\ StepHeld(pc, current, db)
      /\ pc = "apply" /\ UNCHANGED <<images, plans, log, flush, current>>
    BY DEF IInv, ApplyVersion
<1>2. TypeOK'
    BY <1>1 DEF TypeOK, ApplyVersion, Steps
<1>3. CASE db.version = Target /\ pc' = "migrated" /\ db' = db
    <2>1. StepHeld("migrated", current, db)
        BY <1>1, <1>3 DEF StepHeld
    <2>2. ImagesHeld(images, db.events) /\ LogHeld(log, db.events) /\ FlushHeld(flush, log, db.events)
        BY DEF IInv
    <2> QED
        BY <1>1, <1>2, <1>3, <2>1, <2>2 DEF IInv
<1>4. CASE db.version # Target
    <2>1. PICK l \in BOOLEAN : db' = [db EXCEPT !.version = @ + 1, !.legacy = l]
        BY <1>1, <1>4 DEF ApplyVersion, DbHeld, Database
    <2>2. db \in Database /\ db.version \in Nat
        BY <1>1 DEF DbHeld, Database
    <2> DEFINE n == db.version + 1
    <2>3. n \in Nat /\ n >= db.version
        BY <2>2
    <2>4. db' = [db EXCEPT !.version = n, !.legacy = l]
        BY <2>1, <2>2 DEF Database
    <2> HIDE DEF n
    <2>5. db' \in Database /\ db'.events = db.events /\ db'.version = n
        BY <2>2, <2>3, <2>4 DEF Database
    <2>6. DbHeld(db') /\ Prefixed(db.events, db'.events)
        BY <1>1, <2>3, <2>5, SameChains
    <2>7. StepHeld("apply", current, db')
        BY <1>1, <2>6, StepGrows
    <2>8. /\ ImagesHeld(images', db'.events) /\ LogHeld(log', db'.events)
          /\ FlushHeld(flush', log', db'.events)
        BY <1>1, <2>6, Carry
    <2>9. pc' = pc
        BY <1>4 DEF ApplyVersion
    <2> QED
        BY <1>1, <1>2, <2>6, <2>7, <2>8, <2>9 DEF IInv
<1> QED
    BY <1>3, <1>4 DEF ApplyVersion

(* A copy of the live database is not ahead of it.                         *)
LEMMA ImageAdded ==
    ASSUME NEW d, DbHeld(d), NEW im, ImagesHeld(im, d.events), NEW kind \in {"backup", "recovery"},
           NEW x, x = [db |-> d, kind |-> kind, ok |-> TRUE]
    PROVE  /\ ImagesHeld(Append(im, x), d.events)
           /\ Len(Append(im, x)) = Len(im) + 1 /\ Len(im) \in Nat
           /\ \A i \in 1 .. Len(im) : Append(im, x)[i] = im[i]
           /\ Append(im, x)[Len(im) + 1] = x
<1>1. d \in Database /\ d.events \in Chains /\ im \in Seq(ImageRecord)
    BY DEF DbHeld, Database, ImagesHeld
<1>2. x \in ImageRecord /\ x.db = d
    BY <1>1 DEF ImageRecord
<1>3. Prefixed(d.events, d.events)
    BY <1>1, ChainsOrder
<1> DEFINE t == Append(im, x)
<1>4. /\ t \in Seq(ImageRecord) /\ Len(t) = Len(im) + 1 /\ Len(im) \in Nat
      /\ (\A i \in 1 .. Len(im) : t[i] = im[i]) /\ t[Len(im) + 1] = x
    BY <1>1, <1>2
<1> HIDE DEF t
<1>5. ASSUME NEW i \in 1 .. Len(t)
      PROVE  DbHeld(t[i].db) /\ Prefixed(t[i].db.events, d.events)
    <2>1. CASE i \in 1 .. Len(im)
        BY <1>4, <2>1 DEF ImagesHeld
    <2>2. CASE i = Len(im) + 1
        BY <1>2, <1>3, <1>4, <2>2
    <2> QED
        BY <1>4, <2>1, <2>2
<1>6. ImagesHeld(t, d.events)
    BY <1>4, <1>5 DEF ImagesHeld
<1> QED
    BY <1>4, <1>6 DEF t

(* An image more moves none of the others.                                 *)
LEMMA PlansStay ==
    ASSUME NEW pl, NEW cur, NEW im, PlansHeld(pl, cur, im), NEW t, Len(im) \in Nat, Len(t) \in Nat,
           Len(t) >= Len(im), \A i \in 1 .. Len(im) : t[i].db = im[i].db
    PROVE  PlansHeld(pl, cur, t)
BY DEF PlansHeld

(* migrate_with_backup.                                                    *)
LEMMA MigrateWithBackupOK ==
    ASSUME UpkeepConstants, IInv, MigrateWithBackup
    PROVE  IInv'
<1>1. /\ TypeOK /\ DbHeld(db) /\ PlansHeld(plans, current, images) /\ StepHeld(pc, current, db)
      /\ ImagesHeld(images, db.events) /\ LogHeld(log, db.events) /\ FlushHeld(flush, log, db.events)
      /\ UNCHANGED <<db, plans, log, flush, current>>
    BY DEF IInv, MigrateWithBackup
<1>2. TypeOK'
    BY <1>1 DEF TypeOK, MigrateWithBackup, Steps
<1>3. StepHeld(pc', current, db)
    BY <1>1 DEF StepHeld, MigrateWithBackup
<1>4. ImagesHeld(images', db.events) /\ PlansHeld(plans, current, images')
    <2>1. CASE images' = images
        BY <1>1, <2>1
    <2>2. CASE images' = Append(images, Image("backup"))
        <3> DEFINE x == Image("backup")
        <3>1. x = [db |-> db, kind |-> "backup", ok |-> TRUE]
            BY DEF Image
        <3> HIDE DEF x
        <3>2. /\ ImagesHeld(Append(images, x), db.events)
              /\ Len(Append(images, x)) = Len(images) + 1 /\ Len(images) \in Nat
              /\ \A i \in 1 .. Len(images) : Append(images, x)[i] = images[i]
            BY <1>1, <3>1, ImageAdded
        <3> DEFINE t == Append(images, x)
        <3>3. /\ Len(t) \in Nat /\ Len(t) >= Len(images)
              /\ \A i \in 1 .. Len(images) : t[i].db = images[i].db
            BY <3>2
        <3> HIDE DEF t
        <3>4. PlansHeld(plans, current, t)
            BY <1>1, <3>2, <3>3, PlansStay
        <3> QED
            BY <2>2, <3>2, <3>4 DEF t, x
    <2> QED
        BY <2>1, <2>2 DEF MigrateWithBackup
<1> QED
    BY <1>1, <1>2, <1>3, <1>4 DEF IInv

(* A rollback plan is sealed.                                              *)
LEMMA PlanRollbackOK ==
    ASSUME UpkeepConstants, IInv, NEW i \in TrustedBackups, PlanRollback(i)
    PROVE  IInv'
<1>1. /\ TypeOK /\ DbHeld(db) /\ PlansHeld(plans, current, images)
      /\ ImagesHeld(images, db.events) /\ LogHeld(log, db.events) /\ FlushHeld(flush, log, db.events)
      /\ UNCHANGED <<db, images, log, flush>>
    BY DEF IInv, PlanRollback
<1>2. TypeOK'
    BY <1>1 DEF TypeOK, PlanRollback, Release, Steps
<1>3. current' = NoPlan /\ pc' = "idle" /\ plans' = plans \cup {SealedPlan(i)}
    BY DEF PlanRollback, Release
<1>4. SealedPlan(i).image = i /\ i \in 1 .. Len(images)
    BY DEF SealedPlan, TrustedBackups
<1>5. \A p \in plans' : p.image \in 1 .. Len(images)
    BY <1>1, <1>3, <1>4 DEF PlansHeld
<1>6. PlansHeld(plans', NoPlan, images) /\ StepHeld("idle", NoPlan, db)
    BY <1>5, NoPlanHeld
<1> QED
    BY <1>1, <1>2, <1>3, <1>6 DEF IInv

(* One image is replaced by another.                                       *)
Replaced(im, i, x) == [im EXCEPT ![i] = x]

(* The other images stay where they are.                                   *)
LEMMA ReplaceImage ==
    ASSUME NEW im \in Seq(ImageRecord), NEW i \in 1 .. Len(im), NEW x \in ImageRecord
    PROVE  /\ Replaced(im, i, x) \in Seq(ImageRecord) /\ Len(Replaced(im, i, x)) = Len(im)
           /\ \A j \in 1 .. Len(im) : Replaced(im, i, x)[j] = IF j = i THEN x ELSE im[j]
BY ExceptSeq DEF Replaced

(* An image is damaged: what it should hold is still known.                *)
LEMMA DamageImageOK ==
    ASSUME UpkeepConstants, IInv, NEW i \in TrustedBackups, DamageImage(i)
    PROVE  IInv'
<1>1. /\ TypeOK /\ DbHeld(db) /\ PlansHeld(plans, current, images) /\ StepHeld(pc, current, db)
      /\ ImagesHeld(images, db.events) /\ LogHeld(log, db.events) /\ FlushHeld(flush, log, db.events)
      /\ UNCHANGED <<db, plans, log, flush, current, pc>>
    BY DEF IInv, DamageImage
<1>2. TypeOK'
    BY <1>1 DEF TypeOK, DamageImage
<1>3. images \in Seq(ImageRecord) /\ i \in 1 .. Len(images) /\ images' = [images EXCEPT ![i].ok = FALSE]
    BY <1>1 DEF ImagesHeld, TrustedBackups, DamageImage
<1>4. /\ images' \in Seq(ImageRecord) /\ Len(images') = Len(images) /\ Len(images) \in Nat
      /\ \A j \in 1 .. Len(images) : images'[j].db = images[j].db
    <2>1. \A j \in 1 .. Len(images) : images[j] \in ImageRecord
        BY <1>3
    <2> DEFINE x == [images[i] EXCEPT !.ok = FALSE]
    <2>2. x \in ImageRecord /\ x.db = images[i].db
        BY <1>3, <2>1 DEF ImageRecord
    <2>3. images' = [images EXCEPT ![i] = x]
        BY <1>3
    <2> HIDE DEF x
    <2>4. images' = Replaced(images, i, x)
        BY <2>3 DEF Replaced
    <2>5. /\ Replaced(images, i, x) \in Seq(ImageRecord)
          /\ Len(Replaced(images, i, x)) = Len(images)
          /\ \A j \in 1 .. Len(images) : Replaced(images, i, x)[j] = IF j = i THEN x ELSE images[j]
        BY <1>3, <2>2, ReplaceImage
    <2>6. \A j \in 1 .. Len(images) : Replaced(images, i, x)[j].db = images[j].db
        BY <2>2, <2>5
    <2>7. Len(images) \in Nat
        BY <1>3
    <2> QED
        BY ONLY <2>4, <2>5, <2>6, <2>7
<1>5. ImagesHeld(images', db.events)
    BY <1>1, <1>4 DEF ImagesHeld
<1>6. PlansHeld(plans, current, images')
    <2>1. Len(images') \in Nat /\ Len(images') >= Len(images)
        BY <1>4
    <2> QED
        BY <1>1, <1>4, <2>1, PlansStay
<1> QED
    BY <1>1, <1>2, <1>5, <1>6 DEF IInv

(* The recovery image of a rollback.                                       *)
LEMMA RollbackBackupOK ==
    ASSUME UpkeepConstants, IInv, NEW p \in plans, RollbackBackup(p)
    PROVE  IInv'
<1>1. /\ TypeOK /\ DbHeld(db) /\ PlansHeld(plans, current, images)
      /\ ImagesHeld(images, db.events) /\ LogHeld(log, db.events) /\ FlushHeld(flush, log, db.events)
      /\ UNCHANGED <<db, plans, log, flush>> /\ pc' = "restore"
    BY DEF IInv, RollbackBackup
<1>2. TypeOK'
    BY <1>1 DEF TypeOK, RollbackBackup, Steps
<1> DEFINE x == Image("recovery")
           t == Append(images, x)
<1>3. x = [db |-> db, kind |-> "recovery", ok |-> TRUE]
    BY DEF Image
<1>4. images' = t /\ current' = [plan |-> {p}, recovery |-> Len(images) + 1, before |-> {db}]
    BY DEF RollbackBackup
<1> HIDE DEF x
<1>5. /\ ImagesHeld(t, db.events) /\ Len(t) = Len(images) + 1 /\ Len(images) \in Nat
      /\ (\A i \in 1 .. Len(images) : t[i] = images[i]) /\ t[Len(images) + 1] = x
    BY <1>1, <1>3, ImageAdded
<1> HIDE DEF t
<1>6. x.db = db
    BY <1>3
<1>7. PlansHeld(plans, current', t)
    <2>1. \A q \in plans : q.image \in 1 .. Len(t)
        BY <1>1, <1>5 DEF PlansHeld
    <2>2. current'.plan \subseteq plans
        BY <1>4
    <2>3. \A d \in current'.before :
              current'.recovery \in 1 .. Len(t) /\ t[current'.recovery].db.events = d.events
        BY <1>4, <1>5, <1>6
    <2> QED
        BY <2>1, <2>2, <2>3 DEF PlansHeld
<1>8. StepHeld("restore", current', db)
    <2>1. db.events \in Chains
        BY <1>1 DEF DbHeld, Database
    <2>2. Prefixed(db.events, db.events)
        BY <2>1, ChainsOrder
    <2> QED
        BY <1>4, <2>1, <2>2 DEF StepHeld
<1> QED
    BY <1>1, <1>2, <1>4, <1>5, <1>7, <1>8 DEF IInv

(* What the revalidation lets through has the rows of the live database.   *)
LEMMA ValidatedImage ==
    ASSUME UpkeepConstants, IInv, NEW p \in current.plan, ValidateRollback(p)
    PROVE  /\ DbHeld(images[p.image].db)
           /\ images[p.image].db.events = db.events
<1>1. p.image \in 1 .. Len(images)
    BY DEF IInv, PlansHeld
<1>2. DbHeld(images[p.image].db) /\ Prefixed(images[p.image].db.events, db.events) /\ DbHeld(db)
    BY <1>1 DEF IInv, ImagesHeld
<1>3. LastEventSequence(images[p.image].db) = LastEventSequence(db)
    BY DEF ValidateRollback, LiveGuards
<1> QED
    BY <1>2, <1>3, SameRows

(* The restore, or its failure.                                            *)
LEMMA RestoreOK ==
    ASSUME UpkeepConstants, IInv, Restore
    PROVE  IInv'
<1>1. /\ TypeOK /\ DbHeld(db) /\ PlansHeld(plans, current, images) /\ StepHeld(pc, current, db)
      /\ UNCHANGED <<images, plans, log, flush, current>> /\ pc = "restore"
    BY DEF IInv, Restore
<1>2. TypeOK'
    BY <1>1 DEF TypeOK, Restore, Steps
<1>3. DbHeld(db') /\ db'.events = db.events /\ pc' \in {"result", "recover"}
    <2>1. PICK p \in current.plan :
             /\ ValidateRollback(p)
             /\ \/ db' = images[p.image].db /\ pc' = "result"
                \/ db' \in {db, [db EXCEPT !.ok = FALSE]} /\ pc' = "recover"
        BY DEF Restore
    <2>2. CASE db' = images[p.image].db
        BY <2>1, <2>2, ValidatedImage
    <2>3. CASE db' = db
        BY <1>1, <2>1, <2>3
    <2>4. CASE db' = [db EXCEPT !.ok = FALSE]
        <3>1. /\ db' \in Database /\ db'.events = db.events /\ db'.version = db.version
              /\ db.version \in Nat
            BY <1>1, <2>4 DEF DbHeld, Database
        <3>2. db'.version >= db.version
            BY <3>1
        <3> QED
            BY <1>1, <2>1, <3>1, <3>2, SameChains
    <2> QED
        BY <2>1, <2>2, <2>3, <2>4
<1>4. Prefixed(db.events, db'.events)
    <2>1. db.events \in Chains
        BY <1>1 DEF DbHeld, Database
    <2> QED
        BY <1>3, <2>1, ChainsOrder
<1>5. StepHeld(pc', current, db')
    BY <1>1, <1>3 DEF StepHeld
<1>6. /\ ImagesHeld(images', db'.events) /\ LogHeld(log', db'.events)
      /\ FlushHeld(flush', log', db'.events)
    BY <1>1, <1>3, <1>4, Carry
<1> QED
    BY <1>1, <1>2, <1>3, <1>5, <1>6 DEF IInv

(* The recovery image is restored: it has the rows of the live database.   *)
LEMMA RecoverOK ==
    ASSUME UpkeepConstants, IInv, Recover
    PROVE  IInv'
<1>1. /\ TypeOK /\ DbHeld(db) /\ PlansHeld(plans, current, images) /\ StepHeld(pc, current, db)
      /\ ImagesHeld(images, db.events)
      /\ UNCHANGED <<images, plans, log, flush>> /\ pc = "recover"
      /\ current' = NoPlan /\ pc' = "idle"
    BY DEF IInv, Recover, Release
<1>2. TypeOK'
    BY <1>1 DEF TypeOK, Recover, Release, Steps
<1>3. DbHeld(db') /\ db'.events = db.events
    <2>1. PICK b \in current.before : b.events = db.events
        BY <1>1 DEF StepHeld
    <2>2. current.recovery \in 1 .. Len(images) /\ images[current.recovery].db.events = b.events
        BY <1>1 DEF PlansHeld
    <2>3. DbHeld(images[current.recovery].db)
        BY <1>1, <2>2 DEF ImagesHeld
    <2> QED
        BY <1>1, <2>1, <2>2, <2>3 DEF Recover
<1>4. Prefixed(db.events, db'.events)
    <2>1. db.events \in Chains
        BY <1>1 DEF DbHeld, Database
    <2> QED
        BY <1>3, <2>1, ChainsOrder
<1>5. \A p \in plans : p.image \in 1 .. Len(images)
    BY <1>1 DEF PlansHeld
<1>6. PlansHeld(plans, NoPlan, images) /\ StepHeld("idle", NoPlan, db')
    BY <1>5, NoPlanHeld
<1>7. /\ ImagesHeld(images', db'.events) /\ LogHeld(log', db'.events)
      /\ FlushHeld(flush', log', db'.events)
    BY <1>1, <1>3, <1>4, Carry
<1> QED
    BY <1>1, <1>2, <1>3, <1>6, <1>7 DEF IInv

(* The result artifact of a rollback.                                      *)
LEMMA RollbackResultOK ==
    ASSUME UpkeepConstants, IInv, RollbackResult
    PROVE  IInv'
<1>1. /\ TypeOK /\ DbHeld(db) /\ PlansHeld(plans, current, images) /\ StepHeld(pc, current, db)
      /\ ImagesHeld(images, db.events) /\ LogHeld(log, db.events) /\ FlushHeld(flush, log, db.events)
      /\ UNCHANGED <<db, images, plans, log, flush>>
    BY DEF IInv, RollbackResult
<1>2. TypeOK'
    BY <1>1 DEF TypeOK, RollbackResult, Release, Steps
<1>3. (pc' = "planned" /\ current' = current) \/ (pc' = "idle" /\ current' = NoPlan)
    BY DEF RollbackResult, Release
<1>4. PlansHeld(plans, current', images) /\ StepHeld(pc', current', db)
    <2>1. CASE pc' = "planned" /\ current' = current
        BY <1>1, <2>1 DEF StepHeld
    <2>2. CASE pc' = "idle" /\ current' = NoPlan
        <3>1. \A p \in plans : p.image \in 1 .. Len(images)
            BY <1>1 DEF PlansHeld
        <3> QED
            BY <2>2, <3>1, NoPlanHeld
    <2> QED
        BY <1>3, <2>1, <2>2
<1> QED
    BY <1>1, <1>2, <1>4 DEF IInv

(* A step of a flusher leaves the owner alone.                             *)
LEMMA FlusherLeaves ==
    ASSUME IInv, NEW f, FlushStep(f), refused' \in BOOLEAN
    PROVE  /\ TypeOK' /\ UNCHANGED <<images, plans, current, pc>>
           /\ PlansHeld(plans, current, images) /\ StepHeld(pc, current, db)
BY DEF IInv, TypeOK, FlushStep

(* The record of one flusher is replaced.                                  *)
LEMMA FlusherMoves ==
    ASSUME NEW fl, NEW l, NEW e, FlushHeld(fl, l, e), NEW f \in Flushers, NEW x \in FlushRecord,
           x.at # "idle" =>
             /\ x.cursor = Len(l[x.ws].lines)
             /\ x.at = "writing" => Continues(x.pending, x.cursor, e[x.ws])
             /\ \A g \in Flushers \ {f} : fl[g].at # "idle" => fl[g].ws # x.ws
    PROVE  FlushHeld([fl EXCEPT ![f] = x], l, e)
<1> DEFINE t == [fl EXCEPT ![f] = x]
<1>1. /\ t \in [Flushers -> FlushRecord] /\ t[f] = x
      /\ \A g \in Flushers \ {f} : t[g] = fl[g]
    BY DEF FlushHeld
<1> HIDE DEF t
<1>2. \A g \in Flushers : t[g].at # "idle" =>
        /\ t[g].cursor = Len(l[t[g].ws].lines)
        /\ t[g].at = "writing" => Continues(t[g].pending, t[g].cursor, e[t[g].ws])
    BY <1>1 DEF FlushHeld
<1>3. \A g, h \in Flushers :
        t[g].at # "idle" /\ t[h].at # "idle" /\ t[g].ws = t[h].ws => g = h
    BY <1>1 DEF FlushHeld
<1>4. FlushHeld(t, l, e)
    BY <1>1, <1>2, <1>3 DEF FlushHeld
<1> QED
    BY <1>4 DEF t

(* Resting flushers need nothing.                                          *)
LEMMA RestingRecord ==
    ASSUME UpkeepConstants
    PROVE  Resting \in FlushRecord /\ Resting.at = "idle"
BY DEF Resting, FlushRecord, UpkeepConstants

(* The lock of the file is taken and the file verified.                    *)
LEMMA FlushVerifyOK ==
    ASSUME UpkeepConstants, IInv, NEW f \in Flushers, NEW w \in Workspaces, FlushVerify(f, w)
    PROVE  IInv'
<1>1. /\ DbHeld(db) /\ ImagesHeld(images, db.events) /\ LogHeld(log, db.events)
      /\ FlushHeld(flush, log, db.events) /\ UNCHANGED <<db, log>> /\ FlushStep(f)
      /\ refused' \in BOOLEAN
    BY DEF IInv, TypeOK, FlushVerify
<1>2. /\ TypeOK' /\ UNCHANGED <<images, plans, current, pc>>
      /\ PlansHeld(plans, current, images) /\ StepHeld(pc, current, db)
    BY <1>1, FlusherLeaves
<1>3. FlushHeld(flush', log, db.events)
    <2>1. CASE flush' = flush
        BY <1>1, <2>1
    <2> DEFINE x == [at |-> "verified", ws |-> w, cursor |-> Len(log[w].lines), pending |-> << >>]
    <2>2. CASE flush' = [flush EXCEPT ![f] = x]
        <3>1. x \in FlushRecord
            BY <1>1 DEF FlushRecord, LogHeld, LogFile
        <3>2. x.at = "verified" /\ x.ws = w /\ x.cursor = Len(log[w].lines)
            OBVIOUS
        <3>3. \A g \in Flushers \ {f} : flush[g].at # "idle" => flush[g].ws # w
            BY DEF FlushVerify
        <3> HIDE DEF x
        <3>4. FlushHeld([flush EXCEPT ![f] = x], log, db.events)
            BY <1>1, <3>1, <3>2, <3>3, FlusherMoves
        <3> QED
            BY <2>2, <3>4
    <2> QED
        BY <2>1, <2>2 DEF FlushVerify
<1> QED
    BY <1>1, <1>2, <1>3 DEF IInv

(* The exported marker of the rows is moved.                               *)
LEMMA FlushMarkOK ==
    ASSUME UpkeepConstants, IInv, NEW f \in Flushers, FlushMark(f)
    PROVE  IInv'
<1>1. /\ DbHeld(db) /\ FlushHeld(flush, log, db.events) /\ UNCHANGED log /\ FlushStep(f)
      /\ refused' \in BOOLEAN /\ flush \in [Flushers -> FlushRecord]
    BY DEF IInv, TypeOK, FlushMark, FlushHeld
<1>2. /\ TypeOK' /\ UNCHANGED <<images, plans, current, pc>>
      /\ PlansHeld(plans, current, images) /\ StepHeld(pc, current, db)
    BY <1>1, FlusherLeaves
<1>3. db' \in Database /\ db'.events = db.events /\ db'.version = db.version
    <2>1. CASE db' = db
        BY <1>1, <2>1 DEF DbHeld
    <2>2. CASE db' = MarkExported(db, flush[f].ws, flush[f].cursor)
        <3> DEFINE n == IF db.exported[flush[f].ws] <= flush[f].cursor THEN flush[f].cursor
                        ELSE db.exported[flush[f].ws]
                   m == [db.exported EXCEPT ![flush[f].ws] = n]
        <3>1. /\ db \in Database /\ flush[f].ws \in Workspaces /\ flush[f].cursor \in Nat
              /\ db.exported \in [Workspaces -> Nat]
            BY <1>1 DEF DbHeld, FlushRecord, Database
        <3>2. n \in Nat
            BY <3>1
        <3>3. m \in [Workspaces -> Nat]
            BY <3>1, <3>2
        <3>4. db' = [db EXCEPT !.exported = m]
            BY <2>2, <3>1 DEF MarkExported, Database
        <3> HIDE DEF m
        <3> QED
            BY <3>1, <3>3, <3>4 DEF Database
    <2> QED
        BY <2>1, <2>2 DEF FlushMark
<1>4. DbHeld(db')
    <2>1. db'.version >= db.version
        BY <1>1, <1>3 DEF DbHeld, Database
    <2> QED
        BY <1>1, <1>3, <2>1, SameChains
<1>5. ImagesHeld(images, db.events) /\ LogHeld(log, db.events)
    BY DEF IInv
<1>6. StepHeld(pc, current, db')
    BY <1>2, <1>3 DEF StepHeld
<1>7. FlushHeld(flush', log, db.events)
    <2> DEFINE x == [flush[f] EXCEPT !.at = "marked"]
    <2>1. flush[f] \in FlushRecord /\ flush[f].at # "idle"
        BY <1>1 DEF FlushMark
    <2>2. x \in FlushRecord /\ x.at = "marked" /\ x.ws = flush[f].ws /\ x.cursor = flush[f].cursor
        BY <2>1 DEF FlushRecord
    <2>3. flush' = [flush EXCEPT ![f] = x]
        BY DEF FlushMark
    <2>4. x.cursor = Len(log[x.ws].lines)
        BY <1>1, <2>1, <2>2 DEF FlushHeld
    <2>5. \A g \in Flushers \ {f} : flush[g].at # "idle" => flush[g].ws # x.ws
        BY <1>1, <2>1, <2>2 DEF FlushHeld
    <2> HIDE DEF x
    <2>6. FlushHeld([flush EXCEPT ![f] = x], log, db.events)
        BY <1>1, <2>2, <2>4, <2>5, FlusherMoves
    <2> QED
        BY <2>3, <2>6
<1> QED
    BY <1>1, <1>2, <1>3, <1>4, <1>5, <1>6, <1>7 DEF IInv

(* A page of the outbox continues the cursor.                              *)
LEMMA PageContinues ==
    ASSUME NEW chain \in Seq(Event), NEW n \in Nat, NEW k \in Nat, k <= Len(chain)
    PROVE  /\ SubSeq(chain, n + 1, k) \in Seq(Event)
           /\ Continues(SubSeq(chain, n + 1, k), n, chain)
<1>1. Len(chain) \in Nat
    OBVIOUS
<1> DEFINE page == SubSeq(chain, n + 1, k)
<1>2. CASE n + 1 <= k
    <2> DEFINE m == k - n
    <2>1. m \in Nat /\ \A j \in 1 .. m : n + j \in 1 .. Len(chain)
        BY <1>1, <1>2
    <2>2. \A j \in 1 .. m : chain[n + j] \in Event
        BY <2>1
    <2>3. page = [j \in 1 .. m |-> chain[n + j]]
        <3>1. page = [j \in 1 .. (k - (n + 1) + 1) |-> chain[j + (n + 1) - 1]]
            BY <1>1, <1>2, <2>1
        <3>2. k - (n + 1) + 1 = m
            OBVIOUS
        <3>3. \A j \in 1 .. m : j + (n + 1) - 1 = n + j
            OBVIOUS
        <3> QED
            BY <3>1, <3>2, <3>3
    <2> HIDE DEF m, page
    <2>4. page \in Seq(Event) /\ Len(page) = m /\ \A j \in 1 .. m : page[j] = chain[n + j]
        BY <2>1, <2>2, <2>3
    <2>5. Continues(page, n, chain)
        BY <2>1, <2>4 DEF Continues
    <2> QED
        BY <2>4, <2>5 DEF page
<1>3. CASE ~(n + 1 <= k)
    <2>1. page = << >>
        BY <1>3
    <2>2. Len(<< >>) = 0 /\ << >> \in Seq(Event)
        OBVIOUS
    <2> QED
        BY <2>1, <2>2 DEF Continues
<1> QED
    BY <1>2, <1>3

(* The next page of the outbox.                                            *)
LEMMA FlushFetchOK ==
    ASSUME UpkeepConstants, IInv, NEW f \in Flushers, FlushFetch(f)
    PROVE  IInv'
<1>1. /\ DbHeld(db) /\ ImagesHeld(images, db.events) /\ LogHeld(log, db.events)
      /\ FlushHeld(flush, log, db.events) /\ UNCHANGED <<db, log>> /\ FlushStep(f)
      /\ refused' \in BOOLEAN /\ flush \in [Flushers -> FlushRecord]
    BY DEF IInv, TypeOK, FlushFetch, FlushHeld
<1>2. /\ TypeOK' /\ UNCHANGED <<images, plans, current, pc>>
      /\ PlansHeld(plans, current, images) /\ StepHeld(pc, current, db)
    BY <1>1, FlusherLeaves
<1>3. flush[f] \in FlushRecord /\ flush[f].at = "marked" /\ flush[f].ws \in Workspaces /\ flush[f].cursor \in Nat
    BY <1>1 DEF FlushFetch, FlushRecord
<1> DEFINE page == OutboxAfter(db, flush[f].ws, flush[f].cursor)
           chain == db.events[flush[f].ws]
           k == Min({Len(chain), flush[f].cursor + Batch})
<1>4. chain \in Seq(Event) /\ Len(chain) \in Nat
    BY <1>1, <1>3 DEF DbHeld, Database, Chains
<1>5. k \in Nat /\ k <= Len(chain)
    <2>1. Len(chain) \in Nat /\ flush[f].cursor + Batch \in Nat
        BY <1>3, <1>4 DEF UpkeepConstants
    <2>2. \A a, b \in Nat : Min({a, b}) \in Nat /\ Min({a, b}) <= a
        BY DEF Min
    <2> QED
        BY <2>1, <2>2
<1>6. page = SubSeq(chain, flush[f].cursor + 1, k)
    BY DEF OutboxAfter, Rows
<1> HIDE DEF k, chain
<1>7. page \in Seq(Event) /\ Continues(page, flush[f].cursor, chain)
    BY <1>3, <1>4, <1>5, <1>6, PageContinues
<1>8. flush' = [flush EXCEPT ![f] = IF page = << >> THEN Resting
                                     ELSE [flush[f] EXCEPT !.at = "writing", !.pending = page]]
    BY DEF FlushFetch
<1> HIDE DEF page
<1>9. FlushHeld(flush', log, db.events)
    <2>1. CASE page = << >>
        <3>1. flush' = [flush EXCEPT ![f] = Resting]
            BY <1>8, <2>1
        <3>2. FlushHeld([flush EXCEPT ![f] = Resting], log, db.events)
            BY <1>1, RestingRecord, FlusherMoves
        <3> QED
            BY <3>1, <3>2
    <2>2. CASE page # << >>
        <3> DEFINE x == [flush[f] EXCEPT !.at = "writing", !.pending = page]
        <3>1. x \in FlushRecord /\ x.ws = flush[f].ws /\ x.cursor = flush[f].cursor /\ x.pending = page
              /\ x.at = "writing"
            BY <1>3, <1>7 DEF FlushRecord
        <3>2. flush' = [flush EXCEPT ![f] = x]
            BY <1>8, <2>2
        <3> HIDE DEF x
        <3>3. x.cursor = Len(log[x.ws].lines)
            BY <1>1, <1>3, <3>1 DEF FlushHeld
        <3>4. Continues(x.pending, x.cursor, db.events[x.ws])
            BY <1>7, <3>1 DEF chain
        <3>5. \A g \in Flushers \ {f} : flush[g].at # "idle" => flush[g].ws # x.ws
            BY <1>1, <1>3, <3>1 DEF FlushHeld
        <3>6. FlushHeld([flush EXCEPT ![f] = x], log, db.events)
            BY <1>1, <3>1, <3>3, <3>4, <3>5, FlusherMoves
        <3> QED
            BY <3>2, <3>6
    <2> QED
        BY <2>1, <2>2
<1> QED
    BY <1>1, <1>2, <1>9 DEF IInv

(* A flusher stands at the end of its file as long as nobody else writes to it. *)
LEMMA FilesStay ==
    ASSUME NEW fl, NEW l, NEW e, FlushHeld(fl, l, e), NEW l2,
           \A f \in Flushers : fl[f].at # "idle" => Len(l2[fl[f].ws].lines) = Len(l[fl[f].ws].lines)
    PROVE  FlushHeld(fl, l2, e)
BY DEF FlushHeld

(* A file is replaced by one whose lines are still rows.                   *)
LEMMA FileReplaced ==
    ASSUME NEW l, NEW e, LogHeld(l, e), NEW w \in Workspaces, NEW y \in LogFile, IsPrefix(y.lines, e[w])
    PROVE  /\ LogHeld([l EXCEPT ![w] = y], e) /\ [l EXCEPT ![w] = y][w] = y
           /\ \A v \in Workspaces \ {w} : [l EXCEPT ![w] = y][v] = l[v]
<1> DEFINE t == [l EXCEPT ![w] = y]
<1>1. /\ t \in [Workspaces -> LogFile] /\ t[w] = y /\ \A v \in Workspaces \ {w} : t[v] = l[v]
    BY DEF LogHeld
<1> HIDE DEF t
<1>2. LogHeld(t, e)
    BY <1>1 DEF LogHeld
<1> QED
    BY <1>1, <1>2 DEF t

(* The line that is written is the next row.                               *)
LEMMA LineWritten ==
    ASSUME NEW lines \in Seq(Event), NEW chain \in Seq(Event), NEW page \in Seq(Event), page # << >>,
           IsPrefix(lines, chain), Continues(page, Len(lines), chain)
    PROVE  /\ Append(lines, Head(page)) \in Seq(Event) /\ Len(Append(lines, Head(page))) = Len(lines) + 1
           /\ IsPrefix(Append(lines, Head(page)), chain)
           /\ Tail(page) \in Seq(Event) /\ Continues(Tail(page), Len(lines) + 1, chain)
<1> DEFINE n == Len(lines)
           t == Append(lines, Head(page))
           rest == Tail(page)
<1>1. n \in Nat /\ Len(chain) \in Nat /\ Len(page) \in Nat /\ Len(page) >= 1
    <2>1. Len(page) # 0
        BY EmptySeq
    <2> QED
        BY <2>1
<1>2. Head(page) = page[1] /\ page[1] \in Event
    BY <1>1
<1>3. n + 1 <= Len(chain) /\ page[1] = chain[n + 1]
    BY <1>1 DEF Continues
<1>4. /\ t \in Seq(Event) /\ Len(t) = n + 1 /\ t[n + 1] = page[1]
      /\ \A i \in 1 .. n : t[i] = lines[i]
    BY <1>2
<1>5. n <= Len(chain) /\ \A i \in 1 .. n : lines[i] = chain[i]
    BY PrefixPlaces
<1> HIDE DEF t
<1>6. \A i \in 1 .. Len(t) : t[i] = chain[i]
    <2> SUFFICES ASSUME NEW i \in 1 .. Len(t) PROVE t[i] = chain[i]
        OBVIOUS
    <2>1. CASE i \in 1 .. n
        BY <1>4, <1>5, <2>1
    <2>2. CASE i = n + 1
        BY <1>3, <1>4, <2>2
    <2> QED
        BY <1>1, <1>4, <2>1, <2>2
<1>7. IsPrefix(t, chain)
    <2>1. Len(t) <= Len(chain)
        BY <1>3, <1>4
    <2> QED
        BY <1>4, <1>6, <2>1, PrefixPlaces
<1>8. /\ rest \in Seq(Event) /\ Len(rest) = Len(page) - 1
      /\ \A j \in 1 .. Len(page) - 1 : rest[j] = page[j + 1]
    BY <1>1, HeadTailProperties
<1> HIDE DEF rest
<1>9. Continues(rest, n + 1, chain)
    <2> SUFFICES ASSUME NEW j \in 1 .. Len(rest)
                 PROVE  n + 1 + j <= Len(chain) /\ rest[j] = chain[n + 1 + j]
        BY DEF Continues
    <2>1. j + 1 \in 1 .. Len(page) /\ n + (j + 1) = n + 1 + j
        BY <1>1, <1>8
    <2>2. n + (j + 1) <= Len(chain) /\ page[j + 1] = chain[n + (j + 1)]
        BY <2>1 DEF Continues
    <2> QED
        BY <1>8, <2>1, <2>2
<1> QED
    BY <1>4, <1>7, <1>8, <1>9 DEF t, rest

(* Two replacements of one record.                                         *)
LEMMA TwiceReplaced ==
    ASSUME NEW fl \in [Flushers -> FlushRecord], NEW f \in Flushers, NEW x, NEW y
    PROVE  [[fl EXCEPT ![f] = y] EXCEPT ![f] = x] = [fl EXCEPT ![f] = x]
OBVIOUS

(* Once it has let go of its file nobody stands in it.                     *)
LEMMA Released ==
    ASSUME UpkeepConstants, NEW fl, NEW l, NEW e, FlushHeld(fl, l, e), NEW f \in Flushers
    PROVE  /\ FlushHeld([fl EXCEPT ![f] = Resting], l, e)
           /\ fl[f].at # "idle" =>
                 \A g \in Flushers : [fl EXCEPT ![f] = Resting][g].at # "idle" =>
                     [fl EXCEPT ![f] = Resting][g].ws # fl[f].ws
           /\ \A g \in Flushers : [fl EXCEPT ![f] = Resting][g].at # "idle" =>
                     [fl EXCEPT ![f] = Resting][g].ws \in Workspaces
<1>1. FlushHeld([fl EXCEPT ![f] = Resting], l, e)
    BY RestingRecord, FlusherMoves
<1> DEFINE t == [fl EXCEPT ![f] = Resting]
<1>2. t[f] = Resting /\ \A g \in Flushers \ {f} : t[g] = fl[g]
    BY DEF FlushHeld
<1> HIDE DEF t
<1>3. \A g \in Flushers : t[g].at # "idle" => g # f /\ t[g] = fl[g]
    BY <1>2, RestingRecord
<1>4. fl[f].at # "idle" => \A g \in Flushers : t[g].at # "idle" => t[g].ws # fl[f].ws
    BY <1>3 DEF FlushHeld
<1>5. \A g \in Flushers : t[g].at # "idle" => t[g].ws \in Workspaces
    BY <1>3 DEF FlushHeld, FlushRecord
<1> QED
    BY <1>1, <1>4, <1>5 DEF t

(* A flusher writes a line, or gives up.                                   *)
LEMMA FlushWriteOK ==
    ASSUME UpkeepConstants, IInv, NEW f \in Flushers, FlushWrite(f)
    PROVE  IInv'
<1>1. /\ DbHeld(db) /\ ImagesHeld(images, db.events) /\ LogHeld(log, db.events)
      /\ FlushHeld(flush, log, db.events) /\ UNCHANGED db /\ FlushStep(f)
      /\ refused' \in BOOLEAN /\ flush \in [Flushers -> FlushRecord]
    BY DEF IInv, TypeOK, FlushWrite, FlushHeld
<1>2. /\ TypeOK' /\ UNCHANGED <<images, plans, current, pc>>
      /\ PlansHeld(plans, current, images) /\ StepHeld(pc, current, db)
    BY <1>1, FlusherLeaves
<1> DEFINE w == flush[f].ws
           page == flush[f].pending
           n == flush[f].cursor
           lines == log[w].lines
           chain == db.events[w]
<1>3. /\ flush[f] \in FlushRecord /\ flush[f].at = "writing" /\ page # << >>
      /\ w \in Workspaces /\ n \in Nat /\ page \in Seq(Event)
    BY <1>1 DEF FlushWrite, FlushRecord
<1>4. /\ lines \in Seq(Event) /\ chain \in Seq(Event) /\ IsPrefix(lines, chain)
      /\ n = Len(lines) /\ Continues(page, n, chain) /\ log[w] \in LogFile
    BY <1>1, <1>3 DEF DbHeld, Database, Chains, LogHeld, LogFile, FlushHeld
<1> DEFINE idle == [flush EXCEPT ![f] = Resting]
<1>5. /\ FlushHeld(idle, log, db.events)
      /\ \A g \in Flushers : idle[g].at # "idle" => idle[g].ws # w /\ idle[g].ws \in Workspaces
    BY <1>1, <1>3, Released
<1>6. CASE flush' = idle /\ log' = log
    BY <1>1, <1>2, <1>5, <1>6 DEF IInv
<1>7. CASE /\ log' = [log EXCEPT ![w].lines = Append(@, Head(page))]
           /\ flush' = [flush EXCEPT ![f].pending = Tail(@), ![f].cursor = @ + 1]
    <2> DEFINE written == Append(lines, Head(page))
               rest == Tail(page)
               m == n + 1
               y == [log[w] EXCEPT !.lines = written]
               x == [flush[f] EXCEPT !.pending = rest, !.cursor = m]
               files == [log EXCEPT ![w] = y]
    <2>1. log' = files
        BY <1>1, <1>3, <1>7 DEF LogHeld
    <2>2. flush' = [flush EXCEPT ![f] = x]
        BY <1>1, <1>3, <1>7
    <2>3. /\ written \in Seq(Event) /\ Len(written) = n + 1 /\ IsPrefix(written, chain)
          /\ rest \in Seq(Event) /\ Continues(rest, n + 1, chain)
        BY <1>3, <1>4, LineWritten
    <2>4. m \in Nat /\ m = n + 1
        BY <1>3
    <2> HIDE DEF m, written, rest
    <2>5. y \in LogFile /\ y.lines = written
        BY <1>4, <2>3 DEF LogFile
    <2>6. x \in FlushRecord /\ x.at = "writing" /\ x.ws = w /\ x.cursor = m /\ x.pending = rest
        BY <1>3, <2>3, <2>4 DEF FlushRecord
    <2> HIDE DEF x, y
    <2>7. LogHeld(files, db.events) /\ files[w] = y /\ \A v \in Workspaces \ {w} : files[v] = log[v]
        BY <1>1, <1>3, <2>3, <2>5, FileReplaced
    <2> HIDE DEF files, idle
    <2>8. FlushHeld(idle, files, db.events)
        <3>1. \A g \in Flushers : idle[g].at # "idle" =>
                  Len(files[idle[g].ws].lines) = Len(log[idle[g].ws].lines)
            BY <1>5, <2>7
        <3> QED
            BY <1>5, <3>1, FilesStay
    <2>9. FlushHeld([idle EXCEPT ![f] = x], files, db.events)
        <3>1. x.cursor = Len(files[x.ws].lines)
            BY <2>3, <2>4, <2>5, <2>6, <2>7
        <3>2. Continues(x.pending, x.cursor, db.events[x.ws])
            BY <2>3, <2>4, <2>6
        <3>3. \A g \in Flushers \ {f} : idle[g].at # "idle" => idle[g].ws # x.ws
            BY <1>5, <2>6
        <3> QED
            BY <2>6, <2>8, <3>1, <3>2, <3>3, FlusherMoves
    <2>10. [idle EXCEPT ![f] = x] = [flush EXCEPT ![f] = x]
        BY <1>1, TwiceReplaced DEF idle
    <2>11. FlushHeld(flush', log', db.events) /\ LogHeld(log', db.events)
        BY <2>1, <2>2, <2>7, <2>9, <2>10
    <2> QED
        BY <1>1, <1>2, <2>11 DEF IInv
<1> QED
    BY <1>6, <1>7 DEF FlushWrite

(* The lines are synced.                                                   *)
LEMMA FlushSyncOK ==
    ASSUME UpkeepConstants, IInv, NEW f \in Flushers, FlushSync(f)
    PROVE  IInv'
<1>1. /\ DbHeld(db) /\ ImagesHeld(images, db.events) /\ LogHeld(log, db.events)
      /\ FlushHeld(flush, log, db.events) /\ UNCHANGED db /\ FlushStep(f)
      /\ refused' \in BOOLEAN /\ flush \in [Flushers -> FlushRecord]
    BY DEF IInv, TypeOK, FlushSync, FlushHeld
<1>2. /\ TypeOK' /\ UNCHANGED <<images, plans, current, pc>>
      /\ PlansHeld(plans, current, images) /\ StepHeld(pc, current, db)
    BY <1>1, FlusherLeaves
<1> DEFINE w == flush[f].ws
           n == Len(log[w].lines)
           y == [log[w] EXCEPT !.synced = n]
           x == [flush[f] EXCEPT !.at = "synced"]
           files == [log EXCEPT ![w] = y]
<1>3. flush[f] \in FlushRecord /\ flush[f].at = "writing" /\ w \in Workspaces
    BY <1>1 DEF FlushSync, FlushRecord
<1>4. log[w] \in LogFile /\ n \in Nat /\ IsPrefix(log[w].lines, db.events[w])
    BY <1>1, <1>3 DEF LogHeld, LogFile
<1>5. log' = files
    BY <1>1, <1>3 DEF FlushSync, LogHeld
<1>6. flush' = [flush EXCEPT ![f] = x]
    BY <1>1, <1>3 DEF FlushSync
<1>7. y \in LogFile /\ y.lines = log[w].lines
    BY <1>4 DEF LogFile
<1>8. /\ x \in FlushRecord /\ x.at = "synced" /\ x.ws = w /\ x.cursor = flush[f].cursor
    BY <1>3 DEF FlushRecord
<1> HIDE DEF x, y, n
<1>9. LogHeld(files, db.events) /\ files[w] = y /\ \A v \in Workspaces \ {w} : files[v] = log[v]
    BY <1>1, <1>3, <1>4, <1>7, FileReplaced
<1> HIDE DEF files
<1>10. FlushHeld(flush, files, db.events)
    <2>1. \A g \in Flushers : flush[g].ws \in Workspaces
        BY <1>1 DEF FlushRecord
    <2>2. \A v \in Workspaces : files[v].lines = log[v].lines
        BY <1>7, <1>9
    <2>3. \A g \in Flushers : flush[g].at # "idle" =>
              Len(files[flush[g].ws].lines) = Len(log[flush[g].ws].lines)
        BY <2>1, <2>2
    <2> QED
        BY <1>1, <2>3, FilesStay
<1>11. FlushHeld([flush EXCEPT ![f] = x], files, db.events)
    <2>1. x.cursor = Len(files[x.ws].lines)
        BY <1>3, <1>8, <1>10 DEF FlushHeld
    <2>2. \A g \in Flushers \ {f} : flush[g].at # "idle" => flush[g].ws # x.ws
        BY <1>3, <1>8, <1>10 DEF FlushHeld
    <2> QED
        BY <1>8, <1>10, <2>1, <2>2, FlusherMoves
<1>12. FlushHeld(flush', log', db.events) /\ LogHeld(log', db.events)
    BY <1>5, <1>6, <1>9, <1>11
<1> QED
    BY <1>1, <1>2, <1>12 DEF IInv

(* A flusher dies, at most in the middle of a line.                        *)
LEMMA FlusherCrashOK ==
    ASSUME UpkeepConstants, IInv, NEW f \in Flushers, FlusherCrash(f)
    PROVE  IInv'
<1>1. /\ DbHeld(db) /\ ImagesHeld(images, db.events) /\ LogHeld(log, db.events)
      /\ FlushHeld(flush, log, db.events) /\ flush \in [Flushers -> FlushRecord]
      /\ PlansHeld(plans, current, images) /\ StepHeld(pc, current, db)
      /\ UNCHANGED <<db, images, plans, owner, pc, current, refused, nextId>>
      /\ TypeOK /\ flush' = [flush EXCEPT ![f] = Resting]
    BY DEF IInv, FlusherCrash, FlushHeld
<1>2. TypeOK'
    BY <1>1 DEF TypeOK, FlusherCrash
<1> DEFINE idle == [flush EXCEPT ![f] = Resting]
           w == flush[f].ws
<1>3. FlushHeld(idle, log, db.events) /\ \A g \in Flushers : idle[g].at # "idle" => idle[g].ws \in Workspaces
    BY <1>1, Released
<1>4. CASE log' = log
    BY <1>1, <1>2, <1>3, <1>4 DEF IInv
<1>5. CASE log' = [log EXCEPT ![w].torn = TRUE]
    <2> DEFINE y == [log[w] EXCEPT !.torn = TRUE]
               files == [log EXCEPT ![w] = y]
    <2>1. w \in Workspaces /\ log[w] \in LogFile /\ IsPrefix(log[w].lines, db.events[w])
        BY <1>1 DEF FlushRecord, LogHeld
    <2>2. y \in LogFile /\ y.lines = log[w].lines
        BY <2>1 DEF LogFile
    <2>3. log' = files
        BY <1>1, <1>5, <2>1 DEF LogHeld
    <2> HIDE DEF y
    <2>4. LogHeld(files, db.events) /\ files[w] = y /\ \A v \in Workspaces \ {w} : files[v] = log[v]
        BY <1>1, <2>1, <2>2, FileReplaced
    <2> HIDE DEF files, idle
    <2>5. FlushHeld(idle, files, db.events)
        <3>1. \A v \in Workspaces : files[v].lines = log[v].lines
            BY <2>2, <2>4
        <3>2. \A g \in Flushers : idle[g].at # "idle" =>
                  Len(files[idle[g].ws].lines) = Len(log[idle[g].ws].lines)
            BY <1>3, <3>1
        <3> QED
            BY <1>3, <3>2, FilesStay
    <2>6. FlushHeld(flush', log', db.events) /\ LogHeld(log', db.events)
        BY <1>1, <2>3, <2>4, <2>5 DEF idle
    <2> QED
        BY <1>1, <1>2, <2>6 DEF IInv
<1> QED
    BY <1>4, <1>5 DEF FlusherCrash

(* Nobody is flushing.                                                     *)
LEMMA AllRest ==
    ASSUME UpkeepConstants, NEW l, NEW e
    PROVE  FlushHeld([f \in Flushers |-> Resting], l, e)
<1> DEFINE fl == [f \in Flushers |-> Resting]
<1>1. fl \in [Flushers -> FlushRecord] /\ \A f \in Flushers : fl[f].at = "idle"
    BY RestingRecord
<1> HIDE DEF fl
<1>2. FlushHeld(fl, l, e)
    BY <1>1 DEF FlushHeld
<1> QED
    BY <1>2 DEF fl

(* Power is lost: the files keep at least what was synced.                 *)
LEMMA PowerLossOK ==
    ASSUME UpkeepConstants, IInv, PowerLoss
    PROVE  IInv'
<1>1. /\ DbHeld(db) /\ ImagesHeld(images, db.events) /\ LogHeld(log, db.events)
      /\ PlansHeld(plans, current, images) /\ TypeOK
      /\ UNCHANGED <<db, images, plans, refused, nextId>>
      /\ flush' = [f \in Flushers |-> Resting]
      /\ owner' = "none" /\ pc' = "idle" /\ current' = NoPlan /\ faults' = faults + 1
    BY DEF IInv, PowerLoss, Release
<1>2. TypeOK'
    BY <1>1 DEF TypeOK, Steps
<1>3. PICK keep \in [Workspaces -> 0 .. MaxEvents] :
          /\ \A w \in Workspaces : keep[w] \in log[w].synced .. Len(log[w].lines)
          /\ log' = [w \in Workspaces |-> [log[w] EXCEPT !.lines = SubSeq(@, 1, keep[w])]]
    BY DEF PowerLoss
<1>4. ASSUME NEW w \in Workspaces
      PROVE  log'[w] \in LogFile /\ IsPrefix(log'[w].lines, db.events[w])
    <2> DEFINE cut == SubSeq(log[w].lines, 1, keep[w])
    <2>1. /\ log[w] \in LogFile /\ log[w].lines \in Seq(Event) /\ log[w].synced \in Nat
          /\ IsPrefix(log[w].lines, db.events[w]) /\ db.events[w] \in Seq(Event)
        BY <1>1 DEF LogHeld, LogFile, DbHeld, Database, Chains
    <2>2. keep[w] \in Nat /\ keep[w] <= Len(log[w].lines)
        <3>1. keep[w] \in log[w].synced .. Len(log[w].lines)
            BY <1>3
        <3>2. Len(log[w].lines) \in Nat
            BY <2>1
        <3> QED
            BY <2>1, <3>1, <3>2
    <2>3. cut \in Seq(Event) /\ IsPrefix(cut, db.events[w])
        BY <2>1, <2>2, PrefixCut
    <2>4. log'[w] = [log[w] EXCEPT !.lines = cut]
        BY <1>3
    <2> HIDE DEF cut
    <2>5. log'[w] \in LogFile /\ log'[w].lines = cut
        BY <2>1, <2>3, <2>4 DEF LogFile
    <2> QED
        BY <2>3, <2>5
<1>5. LogHeld(log', db.events)
    <2>1. log' \in [Workspaces -> LogFile]
        BY <1>3, <1>4
    <2> QED
        BY <1>4, <2>1 DEF LogHeld
<1>6. FlushHeld(flush', log', db.events)
    BY <1>1, AllRest
<1>7. PlansHeld(plans, NoPlan, images) /\ StepHeld("idle", NoPlan, db)
    BY <1>1, NoPlanHeld DEF PlansHeld
<1> QED
    BY <1>1, <1>2, <1>5, <1>6, <1>7 DEF IInv

(* The initial states.                                                     *)
LEMMA InitOK ==
    ASSUME UpkeepConstants, Init
    PROVE  IInv
<1>1. TypeOK
    BY DEF Init, TypeOK, Steps
<1>2. \A v \in Nat : DbHeld(EmptyDb(v)) /\ EmptyDb(v).events = [w \in Workspaces |-> << >>]
    <2> SUFFICES ASSUME NEW v \in Nat
                 PROVE  DbHeld(EmptyDb(v)) /\ EmptyDb(v).events = [w \in Workspaces |-> << >>]
        OBVIOUS
    <2>1. << >> \in Seq(Event) /\ Len(<< >>) = 0
        OBVIOUS
    <2> DEFINE none == [w \in Workspaces |-> << >>]
    <2>2. none \in Chains /\ \A w \in Workspaces : none[w] = << >>
        BY <2>1 DEF Chains
    <2>3. Linked(none)
        BY <2>1, <2>2 DEF Linked
    <2> HIDE DEF none
    <2>4. EmptyDb(v) = [version |-> v, events |-> none, exported |-> [w \in Workspaces |-> 0],
                        legacy |-> FALSE, active |-> FALSE, ok |-> TRUE]
        BY DEF EmptyDb, none
    <2>5. EmptyDb(v) \in Database /\ EmptyDb(v).events = none
        BY <2>2, <2>4 DEF Database
    <2> QED
        BY <2>2, <2>3, <2>5 DEF DbHeld, none
<1>3. DbHeld(db)
    <2>1. CASE db = EmptyDb(0) \/ db = EmptyDb(Target + 1)
        BY <1>2, <2>1 DEF UpkeepConstants
    <2>2. CASE db = [EmptyDb(1) EXCEPT !.events[Legacy] = << [id |-> 1, prev |-> 0] >>]
        <3> DEFINE d == EmptyDb(1)
                   one == << [id |-> 1, prev |-> 0] >>
                   ev == [d.events EXCEPT ![Legacy] = one]
        <3>1. DbHeld(d) /\ d \in Database /\ d.events \in Chains /\ Legacy \in Workspaces
              /\ d.events = [w \in Workspaces |-> << >>]
            BY <1>2 DEF DbHeld, Database, UpkeepConstants
        <3>2. one \in Seq(Event) /\ Len(one) = 1 /\ one[1].prev = 0
            BY DEF Event
        <3>3. db = [d EXCEPT !.events = ev]
            BY <2>2, <3>1 DEF Database
        <3> HIDE DEF d, one
        <3>4. ev \in Chains /\ ev[Legacy] = one /\ \A w \in Workspaces \ {Legacy} : ev[w] = << >>
            BY <3>1, <3>2 DEF Chains
        <3> HIDE DEF ev
        <3>5. Linked(ev)
            <4> SUFFICES ASSUME NEW w \in Workspaces, NEW i \in 1 .. Len(ev[w])
                         PROVE  ev[w][i].prev = IF i = 1 THEN 0 ELSE ev[w][i - 1].id
                BY DEF Linked
            <4>1. Len(<< >>) = 0
                OBVIOUS
            <4>2. w = Legacy
                BY <3>4, <4>1
            <4>3. i = 1
                <5>1. Len(ev[w]) = 1
                    BY <3>2, <3>4, <4>2
                <5> QED
                    BY <5>1
            <4> QED
                BY <3>2, <3>4, <4>2, <4>3
        <3>6. db \in Database /\ db.events = ev
            BY <3>1, <3>3, <3>4 DEF Database
        <3> QED
            BY <3>4, <3>5, <3>6 DEF DbHeld
    <2> QED
        BY <2>1, <2>2 DEF Init
<1>4. ImagesHeld(images, db.events)
    BY DEF Init, ImagesHeld
<1>5. LogHeld(log, db.events)
    <2>1. << >> \in Seq(Event) /\ Len(<< >>) = 0
        OBVIOUS
    <2> DEFINE empty == [lines |-> << >>, torn |-> FALSE, synced |-> 0]
    <2>2. empty \in LogFile /\ empty.lines = << >>
        BY <2>1 DEF LogFile
    <2>3. log = [w \in Workspaces |-> empty]
        BY DEF Init
    <2> HIDE DEF empty
    <2>4. \A w \in Workspaces : db.events[w] \in Seq(Event)
        BY <1>3 DEF DbHeld, Database, Chains
    <2>5. \A w \in Workspaces : IsPrefix(<< >>, db.events[w])
        <3> SUFFICES ASSUME NEW w \in Workspaces PROVE IsPrefix(<< >>, db.events[w])
            OBVIOUS
        <3> DEFINE none == << >>
        <3>1. none \in Seq(Event) /\ Len(none) = 0 /\ db.events[w] \in Seq(Event)
            BY <2>1, <2>4
        <3> HIDE DEF none
        <3>2. Len(db.events[w]) \in Nat
            BY <3>1
        <3>3. Len(none) <= Len(db.events[w]) /\ \A i \in 1 .. Len(none) : none[i] = db.events[w][i]
            BY <3>1, <3>2
        <3>4. IsPrefix(none, db.events[w])
            BY <3>1, <3>3, PrefixPlaces
        <3> QED
            BY <3>4 DEF none
    <2> QED
        BY <2>2, <2>3, <2>5 DEF LogHeld
<1>6. FlushHeld(flush, log, db.events)
    BY AllRest DEF Init
<1>7. PlansHeld(plans, current, images) /\ StepHeld(pc, current, db)
    <2>1. plans = {} /\ current = NoPlan /\ pc = "idle"
        BY DEF Init
    <2> QED
        BY <2>1, NoPlanHeld
<1> QED
    BY <1>1, <1>3, <1>4, <1>5, <1>6, <1>7 DEF IInv

(* A step that changes nothing.                                            *)
LEMMA StutterOK ==
    ASSUME IInv, UNCHANGED vars
    PROVE  IInv'
<1>1. UNCHANGED <<db, images, plans, results, log, owner, pc, current, flush, refused,
                  nextId, faults>>
    BY DEF vars
<1> QED
    BY <1>1 DEF IInv, TypeOK

(* Every step keeps the invariant.                                         *)
LEMMA StepOK ==
    ASSUME UpkeepConstants, IInv, [Next]_vars
    PROVE  IInv'
<1>1. CASE (\E who \in {"daemon", "maint"} : Acquire(who)) \/ DaemonEnds \/ CommandRefused \/ OwnerCrash
    BY <1>1, OwnerOK
<1>2. CASE \E w \in Workspaces \ {Legacy} : DaemonAppend(w)
    BY <1>2, DaemonAppendOK
<1>3. CASE DaemonWork
    BY <1>3, DaemonWorkOK
<1>4. CASE MigrateStarts \/ RollbackPlanned \/ RollbackCompleted
    BY <1>4, AuditStepsOK
<1>5. CASE MigrateWithBackup
    BY <1>5, MigrateWithBackupOK
<1>6. CASE ApplyVersion
    BY <1>6, ApplyVersionOK
<1>7. CASE Migrated
    BY <1>7, MigratedOK
<1>8. CASE \E i \in TrustedBackups : PlanRollback(i)
    BY <1>8, PlanRollbackOK
<1>9. CASE \E i \in TrustedBackups : DamageImage(i)
    BY <1>9, DamageImageOK
<1>10. CASE \E p \in plans : RollbackBackup(p)
    BY <1>10, RollbackBackupOK
<1>11. CASE Restore
    BY <1>11, RestoreOK
<1>12. CASE Recover
    BY <1>12, RecoverOK
<1>13. CASE RollbackResult
    BY <1>13, RollbackResultOK
<1>14. CASE \E f \in Flushers, w \in Workspaces : FlushVerify(f, w)
    BY <1>14, FlushVerifyOK
<1>15. CASE \E f \in Flushers : FlushMark(f)
    BY <1>15, FlushMarkOK
<1>16. CASE \E f \in Flushers : FlushFetch(f)
    BY <1>16, FlushFetchOK
<1>17. CASE \E f \in Flushers : FlushWrite(f)
    BY <1>17, FlushWriteOK
<1>18. CASE \E f \in Flushers : FlushSync(f)
    BY <1>18, FlushSyncOK
<1>19. CASE \E f \in Flushers : FlusherCrash(f)
    BY <1>19, FlusherCrashOK
<1>20. CASE PowerLoss
    BY <1>20, PowerLossOK
<1>21. CASE UNCHANGED vars
    BY <1>21, StutterOK
<1> QED
    BY <1>1, <1>2, <1>3, <1>4, <1>5, <1>6, <1>7, <1>8, <1>9, <1>10, <1>11, <1>12, <1>13, <1>14,
       <1>15, <1>16, <1>17, <1>18, <1>19, <1>20, <1>21 DEF Next

(* Every reachable state of the database, its images, its plans and the    *)
(* event logs satisfies the inductive invariant.                           *)
THEOREM UpkeepInvariant == UpkeepConstants /\ Spec => []IInv
<1>1. UpkeepConstants /\ Init => IInv
    BY InitOK
<1>2. UpkeepConstants /\ IInv /\ [Next]_vars => IInv'
    BY StepOK
<1>3. UpkeepConstants => []UpkeepConstants
    <2>1. UpkeepConstants => UpkeepConstants'
        BY DEF UpkeepConstants
    <2> QED
        BY <2>1, PTL
<1> QED
    BY <1>1, <1>2, <1>3, PTL DEF Spec

(* Whatever is migrated, restored, crashed or flushed, every complete line  *)
(* of an event log is the row of its sequence: reconcile_workspace only      *)
(* adds rows, and a rollback that would lose one is refused.                *)
THEOREM LogsArePrefixes == UpkeepConstants /\ Spec => []LogIsPrefix
<1>1. IInv => LogIsPrefix
    BY DEF IInv, LogHeld, LogIsPrefix
<1> QED
    BY <1>1, UpkeepInvariant, PTL

(* No rollback loses an event: apply_rollback leaves the rows it began with  *)
(* in the live database, or in the recovery image it retains.               *)
THEOREM RollbacksKeepEvents == UpkeepConstants /\ Spec => []RollbackKeepsEvents
<1>1. ASSUME IInv PROVE RollbackKeepsEvents
    <2>1. /\ \A b \in current.before : b.events \in Chains /\ Prefixed(b.events, db.events)
          /\ \A b \in current.before : images[current.recovery].db.events = b.events
        BY <1>1 DEF IInv, StepHeld, PlansHeld
    <2>2. \A b \in current.before : Prefixed(b.events, b.events)
        BY <2>1, ChainsOrder
    <2> QED
        BY <2>1, <2>2 DEF RollbackKeepsEvents, Prefixed
<1> QED
    BY <1>1, UpkeepInvariant, PTL

(* The chain of every workspace is linked, in the live database and in      *)
(* every image a plan can restore.                                          *)
THEOREM ChainsAreLinked == UpkeepConstants /\ Spec => []ChainLinked
<1>1. IInv => ChainLinked
    BY DEF IInv, DbHeld, Linked, ChainLinked
<1> QED
    BY <1>1, UpkeepInvariant, PTL

(* A restore, and the recovery after one that failed, leave the rows as they *)
(* were: the image holds as many of them, hence the same.                   *)
LEMMA RestoresSameRows ==
    ASSUME UpkeepConstants, IInv, Restore \/ Recover
    PROVE  db'.events = db.events
<1>1. DbHeld(db) /\ PlansHeld(plans, current, images) /\ StepHeld(pc, current, db)
    BY DEF IInv
<1>2. CASE Restore
    <2>1. PICK p \in current.plan :
             /\ ValidateRollback(p)
             /\ db' = images[p.image].db \/ db' \in {db, [db EXCEPT !.ok = FALSE]}
        BY <1>2 DEF Restore
    <2>2. CASE db' = images[p.image].db
        BY <2>1, <2>2, ValidatedImage
    <2>3. CASE db' \in {db, [db EXCEPT !.ok = FALSE]}
        BY <1>1, <2>3 DEF DbHeld, Database
    <2> QED
        BY <2>1, <2>2, <2>3
<1>3. CASE Recover
    <2>1. PICK b \in current.before : b.events = db.events
        BY <1>1, <1>3 DEF StepHeld, Recover
    <2>2. images[current.recovery].db.events = b.events
        BY <1>1 DEF PlansHeld
    <2> QED
        BY <1>3, <2>1, <2>2 DEF Recover
<1> QED
    BY <1>2, <1>3

(* No step drops or rewrites a row.                                        *)
LEMMA RowsStay ==
    ASSUME UpkeepConstants, IInv, [Next]_vars
    PROVE  Prefixed(db.events, db'.events)
<1>1. DbHeld(db) /\ db \in Database /\ Prefixed(db.events, db.events) /\ nextId \in Nat
    <2>1. DbHeld(db) /\ nextId \in Nat
        BY DEF IInv, TypeOK
    <2>2. db \in Database /\ db.events \in Chains
        BY <2>1 DEF DbHeld, Database
    <2> QED
        BY <2>1, <2>2, ChainsOrder
<1>2. CASE \E w \in Workspaces \ {Legacy} : DaemonAppend(w)
    <2>1. PICK w \in Workspaces : db' = AppendEvent(db, w, nextId) /\ pc = "serve"
        BY <1>2 DEF DaemonAppend
    <2>2. db.version >= PartitionVersion
        BY <2>1 DEF IInv, StepHeld, UpkeepConstants
    <2> QED
        BY <1>1, <2>1, <2>2, AppendKeeps
<1>3. CASE MigrateStarts \/ RollbackPlanned \/ RollbackCompleted
    <2>1. PICK next \in {"migrate", "completed", "idle"} : Audited(next)
        BY <1>3 DEF MigrateStarts, RollbackPlanned, RollbackCompleted
    <2>2. UNCHANGED <<images, log, flush>>
        BY <1>3 DEF MigrateStarts, RollbackPlanned, RollbackCompleted
    <2> QED
        BY <2>1, <2>2, AuditedOK
<1>4. CASE Migrated
    <2>1. UNCHANGED <<images, log, flush>> /\ (Audited("idle") \/ db' = db)
        BY <1>4 DEF Migrated
    <2> QED
        BY <1>1, <2>1, AuditedOK
<1>5. CASE Restore \/ Recover
    BY <1>1, <1>5, RestoresSameRows
<1>6. CASE DaemonWork \/ ApplyVersion
    <2>1. db'.events = db.events
        <3>1. CASE DaemonWork
            BY <1>1, <3>1 DEF DaemonWork, Database
        <3>2. CASE ApplyVersion
            BY <1>1, <3>2 DEF ApplyVersion, Database
        <3> QED
            BY <1>6, <3>1, <3>2
    <2> QED
        BY <1>1, <2>1
<1>7. CASE \E f \in Flushers : FlushMark(f)
    <2>1. db'.events = db.events
        BY <1>1, <1>7 DEF FlushMark, MarkExported, Database
    <2> QED
        BY <1>1, <2>1
<1>8. CASE \/ (\E who \in {"daemon", "maint"} : Acquire(who)) \/ DaemonEnds \/ CommandRefused \/ OwnerCrash
           \/ MigrateWithBackup \/ (\E i \in TrustedBackups : PlanRollback(i) \/ DamageImage(i))
           \/ (\E p \in plans : RollbackBackup(p)) \/ RollbackResult \/ PowerLoss
    <2>1. db' = db
        BY <1>8 DEF Acquire, DaemonEnds, CommandRefused, OwnerCrash, MigrateWithBackup, PlanRollback,
                    DamageImage, RollbackBackup, RollbackResult, PowerLoss
    <2> QED
        BY <1>1, <2>1
<1>9. CASE \/ \E f \in Flushers, w \in Workspaces : FlushVerify(f, w)
           \/ \E f \in Flushers : FlushFetch(f) \/ FlushWrite(f) \/ FlushSync(f) \/ FlusherCrash(f)
    <2>1. db' = db
        BY <1>9 DEF FlushVerify, FlushFetch, FlushWrite, FlushSync, FlusherCrash
    <2> QED
        BY <1>1, <2>1
<1>10. CASE UNCHANGED vars
    BY <1>1, <1>10 DEF vars
<1> QED
    BY <1>2, <1>3, <1>4, <1>5, <1>6, <1>7, <1>8, <1>9, <1>10 DEF Next

(* The outbox is append-only: no step of the daemon, of a migration, of a   *)
(* rollback, of a flusher or of a crash drops or rewrites an event.         *)
THEOREM EventsAreAppendOnly ==
    UpkeepConstants /\ Spec => [][Prefixed(db.events, db'.events)]_vars
<1>1. UpkeepConstants /\ IInv /\ [Next]_vars => [Prefixed(db.events, db'.events)]_vars
    BY RowsStay
<1>2. UpkeepConstants => []UpkeepConstants
    <2>1. UpkeepConstants => UpkeepConstants'
        BY DEF UpkeepConstants
    <2> QED
        BY <2>1, PTL
<1> QED
    BY <1>1, <1>2, UpkeepInvariant, PTL DEF Spec

-----------------------------------------------------------------------------
(* The release rollback: the plans and variables of ReleaseRollback.  The  *)
(* two specifications are never conjoined, so that Workspaces, MaxFaults   *)
(* and faults serve for both.                                              *)
CONSTANTS Plans, Own
VARIABLES dest, backup, side, journal, plan, evidence, active, run, last

Apply == INSTANCE ReleaseRollback

(* The touched steps are those up to some number: one more is appended, or *)
(* the last one is taken away.                                             *)
LEMMA PrefixFacts ==
    \A t \in Apply!Prefixes :
        /\ Len(t) \in 0 .. 2
        /\ t = <<>> <=> Len(t) = 0
        /\ Len(t) < 2 => /\ Append(t, Len(t) + 1) \in Apply!Prefixes
                         /\ Len(Append(t, Len(t) + 1)) = Len(t) + 1
        /\ t # <<>> => /\ t[Len(t)] = Len(t)
                       /\ SubSeq(t, 1, Len(t) - 1) \in Apply!Prefixes
                       /\ Len(SubSeq(t, 1, Len(t) - 1)) = Len(t) - 1
<1> SUFFICES ASSUME NEW t \in Apply!Prefixes
             PROVE  /\ Len(t) \in 0 .. 2
                    /\ t = <<>> <=> Len(t) = 0
                    /\ Len(t) < 2 => /\ Append(t, Len(t) + 1) \in Apply!Prefixes
                                     /\ Len(Append(t, Len(t) + 1)) = Len(t) + 1
                    /\ t # <<>> => /\ t[Len(t)] = Len(t)
                                   /\ SubSeq(t, 1, Len(t) - 1) \in Apply!Prefixes
                                   /\ Len(SubSeq(t, 1, Len(t) - 1)) = Len(t) - 1
    OBVIOUS
<1>1. PICK n \in 0 .. 2 : t = [i \in 1 .. n |-> i]
    BY DEF Apply!Prefixes
<1>2. t \in Seq(Nat) /\ Len(t) = n /\ \A i \in 1 .. n : t[i] = i
    BY <1>1
<1>3. t = <<>> <=> n = 0
    BY <1>2
<1>4. ASSUME n < 2
      PROVE  Append(t, n + 1) = [i \in 1 .. n + 1 |-> i]
    BY <1>2, <1>4
<1>5. ASSUME n # 0
      PROVE  SubSeq(t, 1, n - 1) = [i \in 1 .. n - 1 |-> i]
    BY <1>2, <1>5
<1> QED
    BY <1>2, <1>3, <1>4, <1>5 DEF Apply!Prefixes

(* A phase is added to the journal.                                        *)
LEMMA JournalWritten ==
    ASSUME Apply!TypeOK, NEW h \in Plans, NEW phase \in Apply!Phases, Apply!Journalled(h, phase)
    PROVE  journal' \in [Plans -> Seq(Apply!Phases)]
BY DEF Apply!TypeOK, Apply!Journalled

(* A fresh installation satisfies the invariant.                           *)
LEMMA FilesInitOK == Apply!Init => Apply!IInv
<1> SUFFICES ASSUME Apply!Init PROVE Apply!IInv
    OBVIOUS
<1>1. Apply!TypeOK
    BY DEF Apply!Init, Apply!TypeOK, Apply!Sides, Apply!RunStates, Apply!Runs, Apply!Reports, Apply!Idle, Apply!NoSide, Apply!Siblings, Apply!Contents, Apply!Steps, Apply!Paths, Apply!Prefixes
<1>2. Apply!PlansSealed /\ Apply!ReportHeld /\ Apply!RunHeld /\ Apply!AllOrNothing /\ Apply!OriginalKept
    BY DEF Apply!Init, Apply!PlansSealed, Apply!ReportHeld, Apply!RunHeld, Apply!AllOrNothing, Apply!OriginalKept, Apply!Idle
<1> QED
    BY <1>1, <1>2 DEF Apply!IInv

(* While an apply runs, Hash and Sealed are the plan it was given.         *)
LEMMA PlanInHand ==
    ASSUME Apply!IInv, run.at # "idle"
    PROVE  \E h \in Plans : \E p \in plan[h] :
             /\ Apply!ApplyHeld(h, p) /\ Apply!Hash = h /\ Apply!Sealed = p /\ p \in Apply!SealedPlans
             /\ plan[h] = {p} /\ p.steps[1] = "config" /\ p.steps[2] \in {"codexA", "codexB"}
<1>1. PICK h \in Plans : \E p \in plan[h] : Apply!ApplyHeld(h, p)
    BY DEF Apply!IInv, Apply!RunHeld
<1>2. PICK p \in plan[h] : Apply!ApplyHeld(h, p)
    BY <1>1
<1>3. plan[h] = {p} /\ p.steps[1] = "config" /\ p.steps[2] \in {"codexA", "codexB"}
    BY <1>2 DEF Apply!IInv, Apply!PlansSealed
<1>4. p \in Apply!SealedPlans
    BY <1>2 DEF Apply!IInv, Apply!TypeOK
<1>5. Apply!Hash = h
    BY <1>2, Zenon DEF Apply!ApplyHeld, Apply!Hash, Apply!The
<1>6. Apply!Sealed = p
    BY <1>3, <1>5, Zenon DEF Apply!Sealed, Apply!The
<1> QED
    BY <1>2, <1>3, <1>4, <1>5, <1>6

(* The parts of the invariant that an apply in progress leaves alone.      *)
LEMMA PlansKept ==
    ASSUME Apply!IInv, UNCHANGED plan, last'.hash \in {last.hash, run.hash, {}},
           run.at # "idle"
    PROVE  Apply!PlansSealed' /\ Apply!ReportHeld'
<1>1. PICK h \in Plans : \E p \in plan[h] : Apply!ApplyHeld(h, p)
    BY DEF Apply!IInv, Apply!RunHeld
<1>2. run.hash = {h} /\ plan[h] # {}
    BY <1>1 DEF Apply!ApplyHeld
<1> QED
    BY <1>2 DEF Apply!IInv, Apply!PlansSealed, Apply!ReportHeld

(* An end of the apply reports its plan and what it found.                 *)
LEMMA Reported ==
    ASSUME Apply!TypeOK, NEW outcome \in {"applied", "failed"}, Apply!End(outcome)
    PROVE  /\ run' \in Apply!Runs /\ last' \in Apply!Reports /\ run'.at = "idle"
           /\ last'.outcome = outcome /\ last'.hash = run.hash
           /\ last'.before = run.before /\ last'.lost = run.lost
<1>1. <<>> \in Apply!Prefixes
    BY DEF Apply!Prefixes
<1>2. run \in Apply!Runs
    BY DEF Apply!TypeOK
<1>3. run' \in Apply!Runs /\ run'.at = "idle"
    BY <1>1 DEF Apply!End, Apply!Idle, Apply!RunStates, Apply!Runs, Apply!Paths, Apply!Contents
<1>4. last' \in Apply!Reports
    BY <1>2 DEF Apply!End, Apply!Reports, Apply!Runs
<1> QED
    BY <1>3, <1>4 DEF Apply!End

(* Staging a source changes no destination (rollback.rs stage_file).       *)
LEMMA StageOK ==
    ASSUME Apply!IInv, Apply!StageFile
    PROVE  Apply!IInv'
<1>1. run.at = "stage" /\ Apply!TypeOK /\ run \in Apply!Runs /\ side \in Apply!Sides /\ faults \in Nat
    BY DEF Apply!StageFile, Apply!IInv, Apply!TypeOK
<1>2. PICK h \in Plans : \E p \in plan[h] :
             /\ Apply!ApplyHeld(h, p) /\ Apply!Hash = h /\ Apply!Sealed = p /\ p \in Apply!SealedPlans
             /\ plan[h] = {p} /\ p.steps[1] = "config" /\ p.steps[2] \in {"codexA", "codexB"}
    BY <1>1, PlanInHand
<1>3. PICK p \in plan[h] :
             /\ Apply!ApplyHeld(h, p) /\ Apply!Hash = h /\ Apply!Sealed = p /\ p \in Apply!SealedPlans
             /\ plan[h] = {p} /\ p.steps[1] = "config" /\ p.steps[2] \in {"codexA", "codexB"}
    BY <1>2
<1>4. PICK i \in Apply!Steps : run.step = i /\ run.hash = {h} /\ ~ run.lost /\ Len(p.steps) = 2
    BY <1>1, <1>3 DEF Apply!ApplyHeld, Apply!SealedPlans, Apply!Steps
<1>5. side[h][i].staged \in Apply!Contents /\ backup[i] \in Apply!Contents
    BY <1>1, <1>4 DEF Apply!TypeOK, Apply!Sides, Apply!Siblings, Apply!Contents
<1>6. \E w \in Apply!Contents : side' = [side EXCEPT ![h][i].staged = w] /\
        \/ /\ w = p.sha[i] /\ UNCHANGED <<last, faults>>
           /\ run' = IF i = 2 THEN [run EXCEPT !.at = "preserve", !.step = 1]
                              ELSE [run EXCEPT !.step = i + 1]
        \/ Apply!End("failed") /\ faults' \in Nat
    BY <1>1, <1>3, <1>4, <1>5 DEF Apply!StageFile, Apply!Fault
<1>7. PICK w \in Apply!Contents : side' = [side EXCEPT ![h][i].staged = w] /\
        \/ /\ w = p.sha[i] /\ UNCHANGED <<last, faults>>
           /\ run' = IF i = 2 THEN [run EXCEPT !.at = "preserve", !.step = 1]
                              ELSE [run EXCEPT !.step = i + 1]
        \/ Apply!End("failed") /\ faults' \in Nat
    BY <1>6
<1>8. UNCHANGED <<dest, backup, plan, evidence, active>>
    BY DEF Apply!StageFile
<1>9. /\ side' \in Apply!Sides
      /\ side'[h][i].staged = w
      /\ \A j \in Apply!Steps : j # i => side'[h][j].staged = side[h][j].staged
      /\ \A g \in Plans, j \in Apply!Steps : side'[g][j].recovery = side[g][j].recovery
    <2>1. /\ side' \in Apply!Sides /\ side'[h][i].staged = w
          /\ side'[h][i].recovery = side[h][i].recovery
          /\ \A g \in Plans, k \in Apply!Steps : g # h \/ k # i => side'[g][k] = side[g][k]
        <3>1. side' = [side EXCEPT ![h][i].staged = w]
            BY <1>7
        <3>2. side \in Apply!Sides
            BY <1>1
        <3>3. side' \in Apply!Sides
            BY <3>1, <3>2 DEF Apply!Sides, Apply!Siblings
        <3>4. side'[h][i].staged = w /\ side'[h][i].recovery = side[h][i].recovery
            BY <3>1, <3>2 DEF Apply!Sides, Apply!Siblings
        <3>5. \A g \in Plans, k \in Apply!Steps : g # h \/ k # i => side'[g][k] = side[g][k]
            BY <3>1, <3>2 DEF Apply!Sides, Apply!Siblings
        <3> QED
            BY <3>3, <3>4, <3>5
    <2> QED
        BY <2>1
<1>10. journal' \in [Plans -> Seq(Apply!Phases)]
    <2>1. Apply!Journalled(h, "source_staged") \/ Apply!Journalled(h, "transaction_failed")
        BY <1>1, <1>3 DEF Apply!StageFile
    <2>2. "source_staged" \in Apply!Phases /\ "transaction_failed" \in Apply!Phases
        BY DEF Apply!Phases
    <2> QED
        BY <1>1, <2>1, <2>2, JournalWritten
<1>11. Apply!OriginalKept'
    BY <1>8, <1>9 DEF Apply!IInv, Apply!OriginalKept
<1>12. run.touched \in Apply!Prefixes /\ Len(run.touched) \in 0 .. 2
    BY <1>1, PrefixFacts DEF Apply!Runs
<1>13. \A j \in Apply!Steps : /\ ~ (j <= Len(run.touched))
                              /\ dest[p.steps[j]] = run.before[p.steps[j]]
                              /\ side[h][j].recovery = "none"
                              /\ j < i => side[h][j].staged = p.sha[j]
    BY <1>1, <1>3, <1>4 DEF Apply!ApplyHeld, Apply!StepHeld
<1>14. \A f \in Apply!Paths : dest[f] = run.before[f]
    BY <1>3, <1>13 DEF Apply!ApplyHeld, Apply!Steps
<1>15. CASE Apply!End("failed") /\ faults' \in Nat
    <2>1. /\ run' \in Apply!Runs /\ last' \in Apply!Reports /\ run'.at = "idle"
          /\ last'.outcome = "failed" /\ last'.hash = run.hash /\ last'.before = run.before
        BY <1>1, <1>15, Reported
    <2>2. Apply!TypeOK'
        BY <1>1, <1>8, <1>9, <1>10, <1>15, <2>1 DEF Apply!TypeOK
    <2>3. Apply!PlansSealed' /\ Apply!ReportHeld'
        BY <1>1, <1>8, <2>1, PlansKept
    <2>4. dest = run.before
        BY <1>1, <1>14 DEF Apply!TypeOK, Apply!Runs
    <2>5. Apply!AllOrNothing'
        BY <1>8, <2>1, <2>4 DEF Apply!AllOrNothing
    <2> QED
        BY <1>11, <2>1, <2>2, <2>3, <2>5 DEF Apply!IInv, Apply!RunHeld
<1>16. CASE /\ w = p.sha[i] /\ UNCHANGED <<last, faults>>
            /\ run' = IF i = 2 THEN [run EXCEPT !.at = "preserve", !.step = 1]
                               ELSE [run EXCEPT !.step = i + 1]
    <2>1. /\ run' \in Apply!Runs /\ run'.at # "idle" /\ run'.hash = {h} /\ ~ run'.lost
          /\ run'.touched = run.touched /\ run'.before = run.before
          /\ \/ i = 2 /\ run'.at = "preserve" /\ run'.step = 1
             \/ i = 1 /\ run'.at = "stage" /\ run'.step = 2
        <3>1. "preserve" \in Apply!RunStates /\ "preserve" # "idle"
            BY DEF Apply!RunStates
        <3>2. i = 1 \/ i = 2
            BY DEF Apply!Steps
        <3>3. run' \in Apply!Runs
            <4>1. CASE i = 1
                BY <1>1, <1>16, <4>1 DEF Apply!Runs
            <4>2. CASE i = 2
                <5>1. PICK n \in 0 .. 2 : n = 1
                    OBVIOUS
                <5>2. run' = [run EXCEPT !.at = "preserve", !.step = n] /\ run \in Apply!Runs
                    BY <1>1, <1>16, <4>2, <5>1
                <5> QED
                    BY <3>1, <5>2 DEF Apply!Runs
            <4> QED
                BY <3>2, <4>1, <4>2
        <3> QED
            BY <1>1, <1>4, <1>16, <3>2, <3>3 DEF Apply!Runs
    <2>2. Apply!TypeOK'
        BY <1>1, <1>8, <1>9, <1>10, <1>16, <2>1 DEF Apply!TypeOK
    <2>3. Apply!PlansSealed' /\ Apply!ReportHeld'
        BY <1>1, <1>8, <1>16, PlansKept
    <2>4. Apply!AllOrNothing'
        BY <2>1 DEF Apply!AllOrNothing
    <2>5. \A j \in Apply!Steps : Apply!StepHeld(h, p, j)'
        <3>1. SUFFICES ASSUME NEW j \in Apply!Steps PROVE Apply!StepHeld(h, p, j)'
            OBVIOUS
        <3>2. ~ (j <= Len(run'.touched)) /\ dest'[p.steps[j]] = run'.before[p.steps[j]]
              /\ side'[h][j].recovery = "none"
            BY <1>8, <1>9, <1>13, <2>1
        <3>3. j < run'.step \/ run'.at = "preserve" => side'[h][j].staged = p.sha[j]
            BY <1>9, <1>13, <1>16, <2>1 DEF Apply!Steps
        <3>4. j >= 1
            BY DEF Apply!Steps
        <3> QED
            BY <2>1, <3>2, <3>3, <3>4 DEF Apply!StepHeld, Apply!Steps
    <2>6. Apply!ApplyHeld(h, p)'
        BY <1>8, <1>14, <2>1, <2>5 DEF Apply!ApplyHeld, Apply!Steps
    <2> QED
        BY <1>8, <1>11, <2>2, <2>3, <2>4, <2>6 DEF Apply!IInv, Apply!RunHeld
<1> QED
    BY <1>7, <1>15, <1>16

(* The destination of a step is set aside before anything takes its place  *)
(* (rollback.rs preserve_destination).                                     *)
LEMMA PreserveOK ==
    ASSUME Apply!IInv, Apply!Preserve
    PROVE  Apply!IInv'
<1>1. run.at = "preserve" /\ Apply!TypeOK /\ run \in Apply!Runs /\ side \in Apply!Sides /\ faults \in Nat
    BY DEF Apply!Preserve, Apply!IInv, Apply!TypeOK
<1>2. PICK h \in Plans : \E p \in plan[h] :
             /\ Apply!ApplyHeld(h, p) /\ Apply!Hash = h /\ Apply!Sealed = p /\ p \in Apply!SealedPlans
             /\ plan[h] = {p} /\ p.steps[1] = "config" /\ p.steps[2] \in {"codexA", "codexB"}
    BY <1>1, PlanInHand
<1>3. PICK p \in plan[h] :
             /\ Apply!ApplyHeld(h, p) /\ Apply!Hash = h /\ Apply!Sealed = p /\ p \in Apply!SealedPlans
             /\ plan[h] = {p} /\ p.steps[1] = "config" /\ p.steps[2] \in {"codexA", "codexB"}
    BY <1>2
<1>4. PICK i \in Apply!Steps : run.step = i /\ run.hash = {h} /\ ~ run.lost
    BY <1>1, <1>3 DEF Apply!ApplyHeld
<1>5. PICK f \in Apply!Paths : f = p.steps[i] /\ Apply!Path(i) = f
    BY <1>3 DEF Apply!SealedPlans, Apply!Path
<1>6. \A j \in Apply!Steps : Apply!StepHeld(h, p, j)
    BY <1>3 DEF Apply!ApplyHeld
<1>7. \A j \in Apply!Steps : j <= Len(run.touched) <=> j < i
    <2>1. \A j \in Apply!Steps : (j <= Len(run.touched)) = (j < i)
        BY <1>1, <1>4, <1>6 DEF Apply!StepHeld
    <2> QED
        BY <2>1
<1>8. /\ run.touched \in Apply!Prefixes /\ Len(run.touched) = i - 1
      /\ Append(run.touched, i) \in Apply!Prefixes /\ Len(Append(run.touched, i)) = i
    <2>1. run.touched \in Apply!Prefixes
        BY <1>1 DEF Apply!Runs
    <2>2. Len(run.touched) \in 0 .. 2
        BY <2>1, PrefixFacts
    <2>3. Len(run.touched) = i - 1
        BY <1>7, <2>2 DEF Apply!Steps
    <2>4. Len(run.touched) + 1 = i /\ Len(run.touched) < 2
        BY <2>2, <2>3 DEF Apply!Steps
    <2> QED
        BY <2>1, <2>3, <2>4, PrefixFacts
<1>9. dest[f] = run.before[f] /\ side[h][i].recovery = "none" /\ side[h][i].staged = p.sha[i]
    BY <1>1, <1>4, <1>5, <1>6, <1>7 DEF Apply!StepHeld, Apply!Steps
<1>10. UNCHANGED <<backup, plan, evidence, active, last>>
    BY DEF Apply!Preserve
<1> DEFINE now == Append(run.touched, i)
<1>11. /\ run' = [run EXCEPT !.at = "install", !.touched = now] \/ Apply!FailAndRecover(now) \/ Apply!FailAndRecover(run.touched)
       /\ faults' \in Nat
       /\ Apply!Journalled(h, "destination_preserved") \/ Apply!Journalled(h, "transaction_failed") \/ UNCHANGED journal
    BY <1>1, <1>3, <1>4, <1>5 DEF Apply!Preserve, Apply!Fault
<1>12. \/ /\ dest' = [dest EXCEPT ![f] = "none"]
          /\ side' = [side EXCEPT ![h][i].recovery = dest[f]]
          /\ run' = [run EXCEPT !.at = "install", !.touched = now] \/ Apply!FailAndRecover(now)
       \/ /\ dest[f] = "none" /\ UNCHANGED <<dest, side>>
          /\ run' = [run EXCEPT !.at = "install", !.touched = now] \/ Apply!FailAndRecover(now)
       \/ UNCHANGED <<dest, side>> /\ Apply!FailAndRecover(run.touched)
    BY <1>1, <1>3, <1>4, <1>5 DEF Apply!Preserve
<1> HIDE DEF now
<1>13. now \in Apply!Prefixes /\ Len(now) = i
    BY <1>8 DEF now
<1>14. "install" \in Apply!RunStates /\ "recover" \in Apply!RunStates
    BY DEF Apply!RunStates
<1>15. PICK a \in Apply!RunStates, t \in Apply!Prefixes :
        /\ run' = [run EXCEPT !.at = a, !.touched = t]
        /\ \/ /\ t = now /\ a \in {"install", "recover"}
              /\ dest' = [dest EXCEPT ![f] = "none"]
              /\ side' = [side EXCEPT ![h][i].recovery = dest[f]]
           \/ /\ t = now /\ a \in {"install", "recover"}
              /\ dest[f] = "none" /\ UNCHANGED <<dest, side>>
           \/ t = run.touched /\ a = "recover" /\ UNCHANGED <<dest, side>>
    BY <1>8, <1>12, <1>13, <1>14 DEF Apply!FailAndRecover
<1>16. /\ run' \in Apply!Runs /\ run'.at = a /\ run'.touched = t /\ run'.step = i
       /\ run'.hash = {h} /\ run'.before = run.before /\ run'.lost = run.lost
       /\ (Len(t) = i /\ a \in {"install", "recover"}) \/ (Len(t) = i - 1 /\ a = "recover")
    <2>1. run' = [run EXCEPT !.at = a, !.touched = t] /\ run \in Apply!Runs
        BY <1>1, <1>15
    <2>2. run' \in Apply!Runs
        BY <2>1 DEF Apply!Runs
    <2>3. /\ run'.at = a /\ run'.touched = t /\ run'.step = run.step /\ run'.hash = run.hash
          /\ run'.before = run.before /\ run'.lost = run.lost
        BY <2>1 DEF Apply!Runs
    <2>4. (Len(t) = i /\ a \in {"install", "recover"}) \/ (Len(t) = i - 1 /\ a = "recover")
        BY <1>8, <1>13, <1>15
    <2> QED
        BY <1>4, <2>2, <2>3, <2>4
<1>17. dest \in [Apply!Paths -> Apply!Contents] /\ dest[f] \in Apply!Contents /\ "none" \in Apply!Contents
    BY <1>1 DEF Apply!TypeOK, Apply!Contents
<1>18. /\ dest' \in [Apply!Paths -> Apply!Contents]
       /\ \A e \in Apply!Paths : e # f => dest'[e] = dest[e]
       /\ Len(t) = i => dest'[f] = "none"
       /\ Len(t) = i - 1 => dest'[f] = dest[f]
    <2>1. Len(now) = i /\ Len(run.touched) = i - 1 /\ i \in Nat
        BY <1>8, <1>13 DEF Apply!Steps
    <2> QED
        BY <1>15, <1>17, <2>1
<1>19. /\ side' \in Apply!Sides
       /\ \A g \in Plans, k \in Apply!Steps : g # h \/ k # i => side'[g][k] = side[g][k]
       /\ side'[h][i].staged = side[h][i].staged
       /\ Len(t) = i => side'[h][i].recovery = dest[f]
    <2>1. CASE side' = [side EXCEPT ![h][i].recovery = dest[f]]
        <3>1. side' = [side EXCEPT ![h][i].recovery = dest[f]] /\ side \in Apply!Sides
            BY <1>1, <2>1
        <3>2. side' \in Apply!Sides
            <4>1. PICK c \in Apply!Contents : c = dest[f]
                BY <1>17
            <4>2. side' = [side EXCEPT ![h][i].recovery = c] /\ side \in Apply!Sides
                BY <3>1, <4>1
            <4> QED
                BY <4>2 DEF Apply!Sides, Apply!Siblings
        <3>3. \A g \in Plans, k \in Apply!Steps : g # h \/ k # i => side'[g][k] = side[g][k]
            BY <3>1 DEF Apply!Sides, Apply!Siblings
        <3>4. side'[h][i].staged = side[h][i].staged /\ side'[h][i].recovery = dest[f]
            BY <3>1 DEF Apply!Sides, Apply!Siblings
        <3> QED
            BY <3>2, <3>3, <3>4
    <2>2. CASE UNCHANGED side /\ dest[f] = "none"
        BY <1>1, <1>9, <2>2
    <2>3. CASE UNCHANGED side /\ t = run.touched
        <3>1. Len(t) # i
            BY <1>8, <2>3 DEF Apply!Steps
        <3> QED
            BY <1>1, <2>3, <3>1
    <2> QED
        BY <1>15, <2>1, <2>2, <2>3
<1>20. Apply!TypeOK'
    <2>1. journal' \in [Plans -> Seq(Apply!Phases)]
        <3>1. "destination_preserved" \in Apply!Phases /\ "transaction_failed" \in Apply!Phases
            BY DEF Apply!Phases
        <3> QED
            BY <1>1, <1>11, <3>1, JournalWritten DEF Apply!TypeOK
    <2> QED
        BY <1>1, <1>10, <1>11, <1>16, <1>18, <1>19, <2>1 DEF Apply!TypeOK
<1>21. Apply!PlansSealed' /\ Apply!ReportHeld'
    BY <1>1, <1>10, PlansKept
<1>22. Apply!AllOrNothing'
    BY <1>16 DEF Apply!AllOrNothing
<1>23. \A k \in Apply!Steps : k # i => p.steps[k] # f /\ p.steps[k] \in Apply!Paths
    BY <1>3, <1>5 DEF Apply!Steps, Apply!SealedPlans
<1>24. Apply!OriginalKept'
    <2>1. SUFFICES ASSUME NEW e \in Apply!Paths, dest'[e] # "old"
                   PROVE  \E g \in Plans : \E q \in plan'[g] : \E k \in Apply!Steps :
                             q.steps[k] = e /\ side'[g][k].recovery = "old"
        BY DEF Apply!OriginalKept
    <2>2. CASE e = f /\ dest[f] = "old"
        BY <1>3, <1>5, <1>10, <1>16, <1>18, <1>19, <2>1, <2>2
    <2>3. CASE dest[e] # "old"
        <3>1. PICK g \in Plans : \E q \in plan[g] : \E k \in Apply!Steps :
                             q.steps[k] = e /\ side[g][k].recovery = "old"
            BY <2>3 DEF Apply!IInv, Apply!OriginalKept
        <3>2. PICK q \in plan[g], k \in Apply!Steps : q.steps[k] = e /\ side[g][k].recovery = "old"
            BY <3>1
        <3>3. g # h \/ k # i
            BY <1>9, <3>2
        <3> QED
            BY <1>10, <1>19, <3>2, <3>3
    <2> QED
        BY <1>18, <2>1, <2>2, <2>3
<1>25. \A j \in Apply!Steps : Apply!StepHeld(h, p, j)'
    <2>1. SUFFICES ASSUME NEW j \in Apply!Steps PROVE Apply!StepHeld(h, p, j)'
        OBVIOUS
    <2>2. CASE j = i
        BY <1>3, <1>4, <1>5, <1>9, <1>16, <1>18, <1>19, <2>2 DEF Apply!StepHeld, Apply!Steps
    <2>3. CASE j # i
        <3>1. dest'[p.steps[j]] = dest[p.steps[j]] /\ side'[h][j] = side[h][j]
            BY <1>18, <1>19, <1>23, <2>3
        <3>2. j <= Len(t) <=> j < i
            BY <1>16, <2>3 DEF Apply!Steps
        <3>3. Apply!StepHeld(h, p, j)
            BY <1>6
        <3> QED
            BY <1>1, <1>4, <1>7, <1>16, <2>3, <3>1, <3>2, <3>3 DEF Apply!StepHeld
    <2> QED
        BY <2>2, <2>3
<1>26. Apply!ApplyHeld(h, p)'
    BY <1>3, <1>4, <1>5, <1>16, <1>18, <1>25 DEF Apply!ApplyHeld, Apply!Steps
<1> QED
    BY <1>10, <1>20, <1>21, <1>22, <1>24, <1>26 DEF Apply!IInv, Apply!RunHeld

(* The staged artifact takes the place that was cleared for it; after the  *)
(* last one every destination holds what the plan sealed (rollback.rs      *)
(* install_staged).                                                        *)
LEMMA InstallOK ==
    ASSUME Apply!IInv, Apply!Install
    PROVE  Apply!IInv'
<1>1. run.at = "install" /\ Apply!TypeOK /\ run \in Apply!Runs /\ side \in Apply!Sides /\ faults \in Nat
    BY DEF Apply!Install, Apply!IInv, Apply!TypeOK
<1>2. PICK h \in Plans : \E p \in plan[h] :
             /\ Apply!ApplyHeld(h, p) /\ Apply!Hash = h /\ Apply!Sealed = p /\ p \in Apply!SealedPlans
             /\ plan[h] = {p} /\ p.steps[1] = "config" /\ p.steps[2] \in {"codexA", "codexB"}
    BY <1>1, PlanInHand
<1>3. PICK p \in plan[h] :
             /\ Apply!ApplyHeld(h, p) /\ Apply!Hash = h /\ Apply!Sealed = p /\ p \in Apply!SealedPlans
             /\ plan[h] = {p} /\ p.steps[1] = "config" /\ p.steps[2] \in {"codexA", "codexB"}
    BY <1>2
<1>4. PICK i \in Apply!Steps : run.step = i /\ run.hash = {h} /\ ~ run.lost /\ Len(p.steps) = 2
    BY <1>1, <1>3 DEF Apply!ApplyHeld, Apply!SealedPlans, Apply!Steps
<1>5. PICK f \in Apply!Paths : f = p.steps[i] /\ Apply!Path(i) = f
    BY <1>3 DEF Apply!SealedPlans, Apply!Path
<1>6. \A j \in Apply!Steps : Apply!StepHeld(h, p, j)
    BY <1>3 DEF Apply!ApplyHeld
<1>7. \A j \in Apply!Steps : j <= Len(run.touched) <=> j <= i
    <2>1. \A j \in Apply!Steps : (j <= Len(run.touched)) = (j < i \/ j = i)
        BY <1>1, <1>4, <1>6 DEF Apply!StepHeld
    <2> QED
        BY <2>1 DEF Apply!Steps
<1>8. run.touched \in Apply!Prefixes /\ Len(run.touched) \in 0 .. 2
    BY <1>1, PrefixFacts DEF Apply!Runs
<1>9. PICK w \in {"new", "newer"} : side[h][i].staged = w /\ p.sha[i] = w
    <2>1. side[h][i].staged = p.sha[i]
        BY <1>1, <1>4, <1>6 DEF Apply!StepHeld, Apply!Steps
    <2>2. p.sha[i] \in {"new", "newer"}
        BY <1>3 DEF Apply!SealedPlans
    <2> QED
        BY <2>1, <2>2
<1>10. dest[f] = "none" /\ w \in Apply!Contents /\ w # "old" /\ "none" \in Apply!Contents
    BY <1>1, <1>4, <1>5, <1>6, <1>9 DEF Apply!StepHeld, Apply!Contents
<1>11. \A k \in Apply!Steps : k # i => p.steps[k] # f /\ p.steps[k] \in Apply!Paths
    BY <1>3, <1>5 DEF Apply!Steps, Apply!SealedPlans
<1>12. UNCHANGED <<backup, plan, evidence, active>> /\ faults' \in Nat
    BY <1>1 DEF Apply!Install, Apply!Fault
<1>13. journal' \in [Plans -> Seq(Apply!Phases)]
    <2>1. \/ Apply!Journalled(h, "transaction_completed") \/ Apply!Journalled(h, "transaction_failed")
          \/ Apply!Journalled(h, "rollback_artifact_installed")
        BY <1>3 DEF Apply!Install
    <2>2. /\ "transaction_completed" \in Apply!Phases /\ "transaction_failed" \in Apply!Phases
          /\ "rollback_artifact_installed" \in Apply!Phases
        BY DEF Apply!Phases
    <2> QED
        BY <1>1, <2>1, <2>2, JournalWritten
<1>14. \/ /\ dest' = [dest EXCEPT ![f] = w] /\ side' = [side EXCEPT ![h][i].staged = "none"]
          /\ \/ i = 2 /\ Apply!End("applied")
             \/ i = 1 /\ run' = [run EXCEPT !.at = "preserve", !.step = i + 1] /\ UNCHANGED last
             \/ Apply!FailAndRecover(run.touched) /\ UNCHANGED last
       \/ Apply!FailAndRecover(run.touched) /\ UNCHANGED <<dest, side, last>>
    <2>1. i = 1 \/ i = 2
        BY DEF Apply!Steps
    <2> QED
        BY <1>3, <1>4, <1>5, <1>9, <2>1 DEF Apply!Install
<1>15. /\ dest' \in [Apply!Paths -> Apply!Contents]
       /\ \A e \in Apply!Paths : e # f => dest'[e] = dest[e]
       /\ dest' = [dest EXCEPT ![f] = w] => dest'[f] = w
       /\ dest'[f] # "old"
    BY <1>1, <1>10, <1>14 DEF Apply!TypeOK
<1>16. /\ side' \in Apply!Sides
       /\ \A g \in Plans, k \in Apply!Steps : g # h \/ k # i => side'[g][k] = side[g][k]
       /\ \A g \in Plans, k \in Apply!Steps : side'[g][k].recovery = side[g][k].recovery
    <2>1. CASE side' = [side EXCEPT ![h][i].staged = "none"]
        <3>1. side' = [side EXCEPT ![h][i].staged = "none"] /\ side \in Apply!Sides
            BY <1>1, <2>1
        <3>2. side' \in Apply!Sides
            BY <1>10, <3>1 DEF Apply!Sides, Apply!Siblings
        <3>3. \A g \in Plans, k \in Apply!Steps : g # h \/ k # i => side'[g][k] = side[g][k]
            BY <3>1 DEF Apply!Sides, Apply!Siblings
        <3>4. side'[h][i].recovery = side[h][i].recovery
            BY <3>1 DEF Apply!Sides, Apply!Siblings
        <3> QED
            BY <3>2, <3>3, <3>4
    <2>2. CASE UNCHANGED side
        BY <1>1, <2>2
    <2> QED
        BY <1>14, <2>1, <2>2
<1>17. Apply!OriginalKept'
    <2>1. SUFFICES ASSUME NEW e \in Apply!Paths, dest'[e] # "old"
                   PROVE  \E g \in Plans : \E q \in plan'[g] : \E k \in Apply!Steps :
                             q.steps[k] = e /\ side'[g][k].recovery = "old"
        BY DEF Apply!OriginalKept
    <2>2. dest[e] # "old"
        BY <1>10, <1>15, <2>1
    <2> QED
        BY <1>12, <1>16, <2>2 DEF Apply!IInv, Apply!OriginalKept
<1>18. \A j \in Apply!Steps : /\ j # i => dest'[p.steps[j]] = dest[p.steps[j]] /\ side'[h][j] = side[h][j]
                              /\ j <= i => side'[h][j].recovery = run.before[p.steps[j]]
                              /\ j < i => dest[p.steps[j]] = p.sha[j]
                              /\ j > i => /\ dest[p.steps[j]] = run.before[p.steps[j]]
                                          /\ side[h][j].recovery = "none"
                                          /\ side[h][j].staged = p.sha[j]
    <2>1. SUFFICES ASSUME NEW j \in Apply!Steps
                   PROVE  /\ j # i => dest'[p.steps[j]] = dest[p.steps[j]] /\ side'[h][j] = side[h][j]
                          /\ j <= i => side'[h][j].recovery = run.before[p.steps[j]]
                          /\ j < i => dest[p.steps[j]] = p.sha[j]
                          /\ j > i => /\ dest[p.steps[j]] = run.before[p.steps[j]]
                                      /\ side[h][j].recovery = "none"
                                      /\ side[h][j].staged = p.sha[j]
        OBVIOUS
    <2>2. Apply!StepHeld(h, p, j) /\ (j <= Len(run.touched) <=> j <= i)
        BY <1>6, <1>7
    <2>3. j # i => dest'[p.steps[j]] = dest[p.steps[j]] /\ side'[h][j] = side[h][j]
        BY <1>11, <1>15, <1>16
    <2> QED
        BY <1>1, <1>4, <1>16, <2>2, <2>3 DEF Apply!StepHeld, Apply!Steps
<1>19. CASE i = 2 /\ Apply!End("applied") /\ dest' = [dest EXCEPT ![f] = w]
    <2>1. /\ run' \in Apply!Runs /\ last' \in Apply!Reports /\ run'.at = "idle"
          /\ last'.outcome = "applied" /\ last'.hash = run.hash
        BY <1>1, <1>19, Reported
    <2>2. Apply!TypeOK'
        BY <1>1, <1>12, <1>13, <1>15, <1>16, <2>1 DEF Apply!TypeOK
    <2>3. Apply!PlansSealed' /\ Apply!ReportHeld'
        BY <1>1, <1>12, <2>1, PlansKept
    <2>4. \A j \in Apply!Steps : dest'[p.steps[j]] = p.sha[j]
        BY <1>5, <1>9, <1>15, <1>18, <1>19 DEF Apply!Steps
    <2>5. Apply!AllOrNothing'
        BY <1>3, <1>4, <1>12, <2>1, <2>4 DEF Apply!AllOrNothing
    <2> QED
        BY <1>17, <2>1, <2>2, <2>3, <2>5 DEF Apply!IInv, Apply!RunHeld
<1>20. CASE /\ i = 1 /\ run' = [run EXCEPT !.at = "preserve", !.step = i + 1] /\ UNCHANGED last
            /\ dest' = [dest EXCEPT ![f] = w]
    <2>1. PICK n \in 0 .. 2 : n = i + 1
        BY <1>20
    <2>2. run' = [run EXCEPT !.at = "preserve", !.step = n] /\ "preserve" \in Apply!RunStates /\ run \in Apply!Runs
        BY <1>1, <1>20, <2>1 DEF Apply!RunStates
    <2>3. run' \in Apply!Runs
        BY <2>2 DEF Apply!Runs
    <2>4. /\ run'.at = "preserve" /\ run'.step = 2 /\ run'.hash = {h} /\ ~ run'.lost
          /\ run'.touched = run.touched /\ run'.before = run.before
        BY <1>4, <1>20, <2>1, <2>2 DEF Apply!Runs
    <2>5. Apply!TypeOK'
        BY <1>1, <1>12, <1>13, <1>15, <1>16, <1>20, <2>3 DEF Apply!TypeOK
    <2>6. Apply!PlansSealed' /\ Apply!ReportHeld'
        BY <1>1, <1>12, <1>20, PlansKept
    <2>7. Apply!AllOrNothing'
        BY <2>4 DEF Apply!AllOrNothing
    <2>8. \A j \in Apply!Steps : Apply!StepHeld(h, p, j)'
        <3>1. Apply!StepHeld(h, p, 1)'
            BY <1>5, <1>7, <1>9, <1>15, <1>18, <1>20, <2>4 DEF Apply!StepHeld, Apply!Steps
        <3>2. Apply!StepHeld(h, p, 2)'
            BY <1>7, <1>18, <1>20, <2>4 DEF Apply!StepHeld, Apply!Steps
        <3> QED
            BY <3>1, <3>2 DEF Apply!Steps
    <2>9. Apply!ApplyHeld(h, p)'
        BY <1>3, <1>5, <1>15, <2>4, <2>8 DEF Apply!ApplyHeld, Apply!Steps
    <2> QED
        BY <1>12, <1>17, <2>5, <2>6, <2>7, <2>9 DEF Apply!IInv, Apply!RunHeld
<1>21. CASE Apply!FailAndRecover(run.touched) /\ UNCHANGED last
    <2>1. run' = [run EXCEPT !.at = "recover", !.touched = run.touched] /\ "recover" \in Apply!RunStates /\ run \in Apply!Runs
        BY <1>1, <1>21 DEF Apply!RunStates, Apply!FailAndRecover
    <2>2. run' \in Apply!Runs
        BY <2>1 DEF Apply!Runs
    <2>3. /\ run'.at = "recover" /\ run'.step = i /\ run'.hash = {h} /\ ~ run'.lost
          /\ run'.touched = run.touched /\ run'.before = run.before
        BY <1>4, <2>1 DEF Apply!Runs
    <2>4. Apply!TypeOK'
        BY <1>1, <1>12, <1>13, <1>15, <1>16, <1>21, <2>2 DEF Apply!TypeOK
    <2>5. Apply!PlansSealed' /\ Apply!ReportHeld'
        BY <1>1, <1>12, <1>21, PlansKept
    <2>6. Apply!AllOrNothing'
        BY <2>3 DEF Apply!AllOrNothing
    <2>7. ASSUME NEW j \in Apply!Steps PROVE Apply!StepHeld(h, p, j)'
        <3>1. j <= i => dest'[p.steps[j]] # "old"
            <4>1. p.sha[j] # "old"
                BY <1>3 DEF Apply!SealedPlans
            <4> QED
                BY <1>5, <1>15, <1>18, <4>1 DEF Apply!Steps
        <3>2. j > i => dest'[p.steps[j]] = run.before[p.steps[j]]
            BY <1>18 DEF Apply!Steps
        <3> QED
            BY <1>7, <1>18, <2>3, <3>1, <3>2 DEF Apply!StepHeld, Apply!Steps
    <2>8. Apply!ApplyHeld(h, p)'
        BY <1>3, <1>5, <1>15, <2>3, <2>7 DEF Apply!ApplyHeld, Apply!Steps
    <2> QED
        BY <1>12, <1>17, <2>4, <2>5, <2>6, <2>8 DEF Apply!IInv, Apply!RunHeld
<1> QED
    BY <1>14, <1>19, <1>20, <1>21

(* Recovery goes back over the touched steps: what was set aside returns   *)
(* to its destination, or stays in its sibling and the loss is noted       *)
(* (rollback.rs fail_and_recover).                                         *)
LEMMA FilesRecoverOK ==
    ASSUME Apply!IInv, Apply!RecoverStep
    PROVE  Apply!IInv'
<1>1. /\ run.at = "recover" /\ run.touched # <<>>
      /\ Apply!TypeOK /\ run \in Apply!Runs /\ side \in Apply!Sides /\ faults \in Nat
    BY DEF Apply!RecoverStep, Apply!IInv, Apply!TypeOK
<1>2. PICK h \in Plans : \E p \in plan[h] :
             /\ Apply!ApplyHeld(h, p) /\ Apply!Hash = h /\ Apply!Sealed = p /\ p \in Apply!SealedPlans
             /\ plan[h] = {p} /\ p.steps[1] = "config" /\ p.steps[2] \in {"codexA", "codexB"}
    BY <1>1, PlanInHand
<1>3. PICK p \in plan[h] :
             /\ Apply!ApplyHeld(h, p) /\ Apply!Hash = h /\ Apply!Sealed = p /\ p \in Apply!SealedPlans
             /\ plan[h] = {p} /\ p.steps[1] = "config" /\ p.steps[2] \in {"codexA", "codexB"}
    BY <1>2
<1>4. run.touched \in Apply!Prefixes
    BY <1>1 DEF Apply!Runs
<1>5. PICK i \in Apply!Steps : Len(run.touched) = i /\ run.touched[Len(run.touched)] = i
    <2>1. Len(run.touched) \in 0 .. 2 /\ Len(run.touched) # 0
        BY <1>1, <1>4, PrefixFacts
    <2>2. run.touched[Len(run.touched)] = Len(run.touched)
        BY <1>1, <1>4, PrefixFacts
    <2> QED
        BY <2>1, <2>2 DEF Apply!Steps
<1>6. PICK rest \in Apply!Prefixes : rest = SubSeq(run.touched, 1, Len(run.touched) - 1) /\ Len(rest) = i - 1
    <2>1. /\ SubSeq(run.touched, 1, Len(run.touched) - 1) \in Apply!Prefixes
          /\ Len(SubSeq(run.touched, 1, Len(run.touched) - 1)) = Len(run.touched) - 1
        BY <1>1, <1>4, PrefixFacts
    <2> QED
        BY <1>5, <2>1, Zenon
<1>7. PICK f \in Apply!Paths : f = p.steps[i] /\ Apply!Path(i) = f
    BY <1>3 DEF Apply!SealedPlans, Apply!Path
<1>8. run.step \in Apply!Steps /\ run.hash = {h} /\ \A j \in Apply!Steps : Apply!StepHeld(h, p, j)
    BY <1>3 DEF Apply!ApplyHeld
<1>9. PICK kept \in Apply!Contents : kept = side[h][i].recovery
    BY <1>1 DEF Apply!Sides, Apply!Siblings
<1>10. kept = run.before[f] /\ dest[f] # "old" /\ dest \in [Apply!Paths -> Apply!Contents] /\ "none" \in Apply!Contents
    <2>1. i <= Len(run.touched) /\ Apply!StepHeld(h, p, i)
        BY <1>5, <1>8 DEF Apply!Steps
    <2>2. kept = run.before[f] /\ dest[f] # "old"
        BY <1>7, <1>9, <2>1 DEF Apply!StepHeld
    <2> QED
        BY <1>1, <2>2 DEF Apply!TypeOK, Apply!Contents
<1>11. PICK aside \in Apply!Contents :
         aside = IF dest[f] # "none" THEN dest[f] ELSE side[h][i].failed
    <2>1. side[h][i].failed \in Apply!Contents /\ dest[f] \in Apply!Contents
        BY <1>1, <1>10 DEF Apply!Sides, Apply!Siblings
    <2> QED
        BY <2>1
<1>12. UNCHANGED <<backup, plan, evidence, active, last>>
    BY DEF Apply!RecoverStep
<1>13. journal' \in [Plans -> Seq(Apply!Phases)]
    <2>1. Apply!Journalled(h, "destination_restored")
        BY <1>3 DEF Apply!RecoverStep
    <2>2. "destination_restored" \in Apply!Phases
        BY DEF Apply!Phases
    <2> QED
        BY <1>1, <2>1, <2>2, JournalWritten
<1>14. \/ /\ side' = [side EXCEPT ![h][i].failed = aside, ![h][i].recovery = "none"]
          /\ dest' = [dest EXCEPT ![f] = kept]
          /\ run' = [run EXCEPT !.touched = rest] /\ UNCHANGED faults
       \/ /\ run' = [run EXCEPT !.touched = rest, !.lost = TRUE] /\ faults' \in Nat
          /\ \/ UNCHANGED <<dest, side>>
             \/ /\ side' = [side EXCEPT ![h][i].failed = aside]
                /\ dest' = [dest EXCEPT ![f] = "none"]
    <2>1. Apply!Hash = h /\ run.touched[Len(run.touched)] = i /\ Apply!Path(i) = f
        BY <1>3, <1>5, <1>7
    <2>2. rest = SubSeq(run.touched, 1, Len(run.touched) - 1) /\ kept = side[h][i].recovery
        BY <1>6, <1>9
    <2>3. \/ /\ side' = [side EXCEPT ![h][i].failed = aside, ![h][i].recovery = "none"]
             /\ dest' = [dest EXCEPT ![f] = kept]
             /\ run' = [run EXCEPT !.touched = rest] /\ UNCHANGED faults
          \/ /\ run' = [run EXCEPT !.touched = rest, !.lost = TRUE] /\ Apply!Fault
             /\ \/ UNCHANGED <<dest, side>>
                \/ /\ side' = [side EXCEPT ![h][i].failed = aside]
                   /\ dest' = [dest EXCEPT ![f] = "none"]
        BY <1>11, <2>1, <2>2, Zenon DEF Apply!RecoverStep
    <2> QED
        BY <1>1, <2>3 DEF Apply!Fault
<1>15. /\ run' \in Apply!Runs /\ run'.at = "recover" /\ run'.step = run.step /\ run'.hash = {h}
       /\ run'.touched = rest /\ run'.before = run.before
    <2>1. CASE run' = [run EXCEPT !.touched = rest]
        BY <1>1, <1>8, <2>1 DEF Apply!Runs
    <2>2. CASE run' = [run EXCEPT !.touched = rest, !.lost = TRUE]
        BY <1>1, <1>8, <2>2 DEF Apply!Runs
    <2> QED
        BY <1>14, <2>1, <2>2
<1>16. /\ dest' \in [Apply!Paths -> Apply!Contents]
       /\ \A e \in Apply!Paths : e # f => dest'[e] = dest[e]
       /\ dest' = [dest EXCEPT ![f] = kept] => dest'[f] = kept
    BY <1>10, <1>14
<1>17. /\ side' \in Apply!Sides
       /\ \A g \in Plans, k \in Apply!Steps : g # h \/ k # i => side'[g][k] = side[g][k]
       /\ side'[h][i].recovery = kept \/ dest' = [dest EXCEPT ![f] = kept]
    <2>1. CASE /\ side' = [side EXCEPT ![h][i].failed = aside, ![h][i].recovery = "none"]
               /\ dest' = [dest EXCEPT ![f] = kept]
        <3>1. PICK n \in Apply!Contents : n = "none"
            BY <1>10
        <3>2. side' = [side EXCEPT ![h][i].failed = aside, ![h][i].recovery = n] /\ side \in Apply!Sides
            BY <1>1, <2>1, <3>1
        <3>3. side' \in Apply!Sides
            BY <3>2 DEF Apply!Sides, Apply!Siblings
        <3>4. \A g \in Plans, k \in Apply!Steps : g # h \/ k # i => side'[g][k] = side[g][k]
            BY <3>2 DEF Apply!Sides, Apply!Siblings
        <3> QED
            BY <2>1, <3>3, <3>4
    <2>2. CASE side' = [side EXCEPT ![h][i].failed = aside]
        <3>1. side' = [side EXCEPT ![h][i].failed = aside] /\ side \in Apply!Sides
            BY <1>1, <2>2
        <3>2. side' \in Apply!Sides
            BY <3>1 DEF Apply!Sides, Apply!Siblings
        <3>3. \A g \in Plans, k \in Apply!Steps : g # h \/ k # i => side'[g][k] = side[g][k]
            BY <3>1 DEF Apply!Sides, Apply!Siblings
        <3>4. side'[h][i].recovery = kept
            BY <1>9, <3>1 DEF Apply!Sides, Apply!Siblings
        <3> QED
            BY <3>2, <3>3, <3>4
    <2>3. CASE UNCHANGED side
        BY <1>1, <1>9, <2>3
    <2> QED
        BY <1>14, <2>1, <2>2, <2>3
<1>18. Apply!TypeOK'
    BY <1>1, <1>12, <1>13, <1>14, <1>15, <1>16, <1>17 DEF Apply!TypeOK
<1>19. Apply!PlansSealed' /\ Apply!ReportHeld'
    BY <1>1, <1>12, PlansKept
<1>20. Apply!AllOrNothing'
    BY <1>15 DEF Apply!AllOrNothing
<1>21. \A k \in Apply!Steps : k # i => p.steps[k] # f /\ p.steps[k] \in Apply!Paths
    BY <1>3, <1>7 DEF Apply!Steps, Apply!SealedPlans
<1>22. Apply!OriginalKept'
    <2>1. SUFFICES ASSUME NEW e \in Apply!Paths, dest'[e] # "old"
                   PROVE  \E g \in Plans : \E q \in plan'[g] : \E k \in Apply!Steps :
                             q.steps[k] = e /\ side'[g][k].recovery = "old"
        BY DEF Apply!OriginalKept
    <2>2. dest[e] # "old"
        BY <1>10, <1>16, <2>1
    <2>3. PICK g \in Plans : \E q \in plan[g] : \E k \in Apply!Steps :
                             q.steps[k] = e /\ side[g][k].recovery = "old"
        BY <2>2 DEF Apply!IInv, Apply!OriginalKept
    <2>4. PICK q \in plan[g] : \E k \in Apply!Steps : q.steps[k] = e /\ side[g][k].recovery = "old"
        BY <2>3
    <2>5. PICK k \in Apply!Steps : q.steps[k] = e /\ side[g][k].recovery = "old"
        BY <2>4
    <2>6. CASE g # h \/ k # i
        BY <1>12, <1>17, <2>5, <2>6
    <2>7. CASE g = h /\ k = i
        <3>1. q = p /\ e = f /\ kept = "old"
            BY <1>3, <1>7, <1>9, <2>5, <2>7
        <3>2. side'[h][i].recovery = "old"
            BY <1>16, <1>17, <2>1, <3>1
        <3> QED
            BY <1>12, <2>5, <2>7, <3>2
    <2> QED
        BY <2>6, <2>7
<1>23. ASSUME NEW j \in Apply!Steps PROVE Apply!StepHeld(h, p, j)'
    <2>1. j <= Len(run'.touched) <=> j < i
        BY <1>6, <1>15 DEF Apply!Steps
    <2>2. CASE j = i
        <3>1. run'.lost \/ dest'[f] = run.before[f]
            <4>1. CASE run' = [run EXCEPT !.touched = rest, !.lost = TRUE]
                BY <1>1, <4>1 DEF Apply!Runs
            <4>2. CASE dest' = [dest EXCEPT ![f] = kept]
                BY <1>10, <1>16, <4>2
            <4> QED
                BY <1>14, <4>1, <4>2
        <3> QED
            BY <1>7, <1>15, <2>1, <2>2, <3>1 DEF Apply!StepHeld, Apply!Steps
    <2>3. CASE j # i
        <3>1. dest'[p.steps[j]] = dest[p.steps[j]] /\ side'[h][j] = side[h][j]
            BY <1>16, <1>17, <1>21, <2>3
        <3>2. Apply!StepHeld(h, p, j) /\ (j <= Len(run.touched) <=> j <= i)
            BY <1>5, <1>8
        <3>3. run.lost => run'.lost
            BY <1>1, <1>14 DEF Apply!Runs
        <3> QED
            BY <1>1, <1>15, <2>1, <2>3, <3>1, <3>2, <3>3 DEF Apply!StepHeld, Apply!Steps
    <2> QED
        BY <2>2, <2>3
<1>24. Apply!ApplyHeld(h, p)'
    BY <1>3, <1>7, <1>8, <1>15, <1>16, <1>23 DEF Apply!ApplyHeld, Apply!Steps
<1> QED
    BY <1>12, <1>18, <1>19, <1>20, <1>22, <1>24 DEF Apply!IInv, Apply!RunHeld

(* A recovery that ends without a loss has restored every destination.     *)
LEMMA RecoverEndsOK ==
    ASSUME Apply!IInv, Apply!RecoverEnds
    PROVE  Apply!IInv'
<1>1. run.at = "recover" /\ run.touched = <<>> /\ Apply!TypeOK /\ run \in Apply!Runs
    BY DEF Apply!RecoverEnds, Apply!IInv, Apply!TypeOK
<1>2. PICK h \in Plans : \E p \in plan[h] :
             /\ Apply!ApplyHeld(h, p) /\ Apply!Hash = h /\ Apply!Sealed = p /\ p \in Apply!SealedPlans
             /\ plan[h] = {p} /\ p.steps[1] = "config" /\ p.steps[2] \in {"codexA", "codexB"}
    BY <1>1, PlanInHand
<1>3. PICK p \in plan[h] : Apply!ApplyHeld(h, p) /\ Apply!Hash = h /\ p \in Apply!SealedPlans
    BY <1>2
<1>4. Len(run.touched) = 0
    BY <1>1, PrefixFacts DEF Apply!Runs
<1>5. \A j \in Apply!Steps : ~ run.lost => dest[p.steps[j]] = run.before[p.steps[j]]
    BY <1>1, <1>3, <1>4 DEF Apply!ApplyHeld, Apply!StepHeld, Apply!Steps
<1>6. ~ run.lost => \A f \in Apply!Paths : dest[f] = run.before[f]
    BY <1>3, <1>5 DEF Apply!ApplyHeld, Apply!Steps
<1>7. /\ run' \in Apply!Runs /\ last' \in Apply!Reports /\ run'.at = "idle"
      /\ last'.outcome = "failed" /\ last'.hash = run.hash
      /\ last'.before = run.before /\ last'.lost = run.lost
    BY <1>1, Reported DEF Apply!RecoverEnds
<1>8. UNCHANGED <<dest, backup, side, plan, evidence, active, faults>>
    BY DEF Apply!RecoverEnds
<1>9. journal' \in [Plans -> Seq(Apply!Phases)]
    <2>1. Apply!Journalled(h, "transaction_recovery_completed")
        BY <1>3 DEF Apply!RecoverEnds
    <2>2. "transaction_recovery_completed" \in Apply!Phases
        BY DEF Apply!Phases
    <2> QED
        BY <1>1, <2>1, <2>2, JournalWritten
<1>10. Apply!TypeOK'
    BY <1>1, <1>7, <1>8, <1>9 DEF Apply!TypeOK
<1>11. Apply!PlansSealed' /\ Apply!ReportHeld'
    BY <1>1, <1>7, <1>8, PlansKept
<1>12. ~ run.lost => dest = run.before
    BY <1>1, <1>6 DEF Apply!TypeOK, Apply!Runs
<1>13. Apply!AllOrNothing'
    BY <1>7, <1>8, <1>12 DEF Apply!AllOrNothing
<1>14. Apply!OriginalKept'
    BY <1>8 DEF Apply!IInv, Apply!OriginalKept
<1> QED
    BY <1>7, <1>10, <1>11, <1>13, <1>14 DEF Apply!IInv, Apply!RunHeld

(* A crash leaves the files where they are and reports nothing.            *)
LEMMA CrashOK ==
    ASSUME Apply!IInv, Apply!Crash
    PROVE  Apply!IInv'
<1>1. run.at # "idle" /\ Apply!TypeOK /\ run \in Apply!Runs
    BY DEF Apply!Crash, Apply!IInv, Apply!TypeOK
<1>2. UNCHANGED <<dest, backup, side, journal, plan, evidence, active>> /\ faults' \in Nat
    BY <1>1 DEF Apply!Crash, Apply!Fault, Apply!TypeOK
<1>3. run' \in Apply!Runs /\ run'.at = "idle"
    <2>1. <<>> \in Apply!Prefixes
        BY DEF Apply!Prefixes
    <2> QED
        BY <2>1 DEF Apply!Crash, Apply!Idle, Apply!RunStates, Apply!Runs, Apply!Paths, Apply!Contents
<1>4. last' \in Apply!Reports /\ last'.outcome = "none" /\ last'.hash = {}
    BY <1>1 DEF Apply!Crash, Apply!Reports, Apply!Runs
<1>5. Apply!TypeOK'
    BY <1>1, <1>2, <1>3, <1>4 DEF Apply!TypeOK
<1>6. Apply!PlansSealed' /\ Apply!ReportHeld'
    BY <1>1, <1>2, <1>4, PlansKept
<1>7. Apply!AllOrNothing' /\ Apply!OriginalKept' /\ Apply!RunHeld'
    BY <1>2, <1>3, <1>4 DEF Apply!IInv, Apply!AllOrNothing, Apply!OriginalKept, Apply!RunHeld
<1> QED
    BY <1>5, <1>6, <1>7 DEF Apply!IInv

(* A new plan seals two different destinations under a hash of its own.    *)
LEMMA PlanOK ==
    ASSUME Apply!IInv, NEW h \in Plans, Apply!PlanRelease(h)
    PROVE  Apply!IInv'
<1>1. Apply!TypeOK /\ run.at = "idle" /\ plan[h] = {} /\ evidence \in {"codexA", "codexB"}
    BY DEF Apply!PlanRelease, Apply!DestinationsTrusted, Apply!IInv, Apply!TypeOK
<1>2. UNCHANGED <<dest, backup, side, journal, evidence, active, run, last, faults>>
    BY DEF Apply!PlanRelease
<1>3. PICK p \in Apply!SealedPlans : /\ p.steps[1] = "config" /\ p.steps[2] \in {"codexA", "codexB"}
                                     /\ plan' = [plan EXCEPT ![h] = {p}]
    <2>1. [steps |-> Apply!ManifestSteps, sha |-> backup] \in Apply!SealedPlans
        BY <1>1 DEF Apply!ManifestSteps, Apply!TrustedDestination, Apply!SealedPlans, Apply!TypeOK, Apply!Paths, Apply!Steps
    <2>2. Apply!ManifestSteps[1] = "config" /\ Apply!ManifestSteps[2] \in {"codexA", "codexB"}
        BY <1>1 DEF Apply!ManifestSteps, Apply!TrustedDestination, Apply!Steps
    <2> QED
        BY <2>1, <2>2 DEF Apply!PlanRelease
<1>4. plan \in [Plans -> SUBSET Apply!SealedPlans]
    BY <1>1 DEF Apply!TypeOK
<1>5. plan' \in [Plans -> SUBSET Apply!SealedPlans] /\ plan'[h] = {p}
      /\ \A g \in Plans : g # h => plan'[g] = plan[g]
    BY <1>3, <1>4
<1>6. Apply!TypeOK'
    BY <1>1, <1>2, <1>5 DEF Apply!TypeOK
<1>7. Apply!PlansSealed'
    BY <1>3, <1>5 DEF Apply!IInv, Apply!PlansSealed
<1>8. last.hash \in SUBSET Plans /\ h \notin last.hash
    BY <1>1 DEF Apply!IInv, Apply!ReportHeld, Apply!TypeOK, Apply!Reports
<1>9. Apply!ReportHeld' /\ Apply!AllOrNothing'
    BY <1>1, <1>2, <1>5, <1>8 DEF Apply!IInv, Apply!ReportHeld, Apply!AllOrNothing
<1>10. Apply!OriginalKept'
    <2>1. \A g \in Plans : plan[g] \subseteq plan'[g]
        BY <1>1, <1>5
    <2> QED
        BY <1>2, <2>1 DEF Apply!IInv, Apply!OriginalKept
<1> QED
    BY <1>1, <1>2, <1>6, <1>7, <1>9, <1>10 DEF Apply!IInv, Apply!RunHeld

(* An apply begins with no sibling of its plan in the way.                 *)
LEMMA ApplyOK ==
    ASSUME Apply!IInv, NEW h \in Plans, Apply!ApplyRelease(h)
    PROVE  Apply!IInv'
<1>1. Apply!TypeOK /\ run.at = "idle" /\ dest \in [Apply!Paths -> Apply!Contents]
    BY DEF Apply!ApplyRelease, Apply!IInv, Apply!TypeOK
<1>2. UNCHANGED <<dest, backup, side, plan, evidence, active, last, faults>>
    BY DEF Apply!ApplyRelease
<1>3. PICK p \in plan[h] : p \in Apply!SealedPlans
    BY <1>1 DEF Apply!ApplyRelease, Apply!TypeOK
<1>4. \A i \in Apply!Steps : side[h][i].recovery = "none"
    BY DEF Apply!ApplyRelease, Apply!Begins, Apply!SiblingsFree, Apply!NoSide
<1>5. /\ run' \in Apply!Runs /\ run'.at = "stage" /\ run'.hash = {h} /\ run'.step = 1 /\ run'.lost = FALSE
      /\ run'.touched = <<>> /\ run'.before = dest
    <2>1. <<>> \in Apply!Prefixes /\ "stage" \in Apply!RunStates
        BY DEF Apply!Prefixes, Apply!RunStates
    <2> QED
        <3>1. PICK n \in 0 .. 2 : n = 1
            OBVIOUS
        <3>2. run' = [at |-> "stage", hash |-> {h}, step |-> n, touched |-> <<>>,
                      before |-> dest, lost |-> FALSE]
            BY <3>1 DEF Apply!ApplyRelease, Apply!Idle
        <3> QED
            BY <1>1, <2>1, <3>1, <3>2 DEF Apply!Runs
<1>6. journal' \in [Plans -> Seq(Apply!Phases)]
    <2>1. Apply!Journalled(h, "transaction_started")
        BY DEF Apply!ApplyRelease
    <2>2. "transaction_started" \in Apply!Phases
        BY DEF Apply!Phases
    <2> QED
        BY <1>1, <2>1, <2>2, JournalWritten
<1>7. Apply!TypeOK'
    BY <1>1, <1>2, <1>5, <1>6 DEF Apply!TypeOK
<1>8. Apply!PlansSealed' /\ Apply!ReportHeld' /\ Apply!OriginalKept' /\ Apply!AllOrNothing'
    BY <1>2, <1>5 DEF Apply!IInv, Apply!PlansSealed, Apply!ReportHeld, Apply!OriginalKept, Apply!AllOrNothing
<1>9. Len(run'.touched) = 0
    BY <1>5
<1>10. Apply!ApplyHeld(h, p)'
    BY <1>2, <1>4, <1>5, <1>9 DEF Apply!ApplyHeld, Apply!StepHeld, Apply!Steps
<1> QED
    BY <1>2, <1>7, <1>8, <1>10 DEF Apply!IInv, Apply!RunHeld

(* The environment moves no file of the transaction.                       *)
LEMMA EnvironmentOK ==
    ASSUME Apply!IInv,
           \/ \E i \in Apply!Steps : Apply!ProvisionBackup(i)
           \/ \E w \in Workspaces : Apply!Work(w)
           \/ \E path \in {"codexA", "codexB"} : Apply!AttemptCompletes(path)
           \/ UNCHANGED Apply!vars
    PROVE  Apply!IInv'
<1>1. UNCHANGED <<dest, side, journal, plan, run, last, faults>>
    BY DEF Apply!ProvisionBackup, Apply!Work, Apply!AttemptCompletes, Apply!vars
<1>2. backup' \in [Apply!Steps -> {"new", "newer"}]
    BY DEF Apply!IInv, Apply!TypeOK, Apply!ProvisionBackup, Apply!Work, Apply!AttemptCompletes, Apply!vars
<1>3. evidence' \in {"none", "codexA", "codexB"}
    BY DEF Apply!IInv, Apply!TypeOK, Apply!ProvisionBackup, Apply!Work, Apply!AttemptCompletes, Apply!vars
<1>4. active' \subseteq Workspaces
    BY DEF Apply!IInv, Apply!TypeOK, Apply!ProvisionBackup, Apply!Work, Apply!AttemptCompletes, Apply!vars
<1>5. Apply!TypeOK'
    BY <1>1, <1>2, <1>3, <1>4 DEF Apply!IInv, Apply!TypeOK
<1>6. Apply!PlansSealed' /\ Apply!ReportHeld' /\ Apply!AllOrNothing' /\ Apply!OriginalKept'
    BY <1>1 DEF Apply!IInv, Apply!PlansSealed, Apply!ReportHeld, Apply!AllOrNothing, Apply!OriginalKept
<1>7. Apply!RunHeld'
    BY <1>1 DEF Apply!IInv, Apply!RunHeld, Apply!ApplyHeld, Apply!StepHeld
<1> QED
    BY <1>5, <1>6, <1>7 DEF Apply!IInv

(* The transaction keeps its inductive invariant, whatever fails.          *)
THEOREM RollbackInvariant == Apply!Spec => []Apply!IInv
<1>1. Apply!IInv /\ [Apply!Next]_(Apply!vars) => Apply!IInv'
    BY StageOK, PreserveOK, InstallOK, FilesRecoverOK, RecoverEndsOK, CrashOK, PlanOK, ApplyOK,
       EnvironmentOK DEF Apply!Next
<1> QED
    BY <1>1, FilesInitOK, PTL DEF Apply!Spec

(* Plans, siblings, the journal and the run stay well formed.              *)
THEOREM FilesTypeCorrect == Apply!Spec => []Apply!TypeOK
<1>1. Apply!IInv => Apply!TypeOK
    BY DEF Apply!IInv
<1> QED
    BY <1>1, RollbackInvariant, PTL

(* An apply that reports success installed everything that its plan        *)
(* sealed; one that reports failure, and no loss, left every destination   *)
(* as it found it (rollback.rs apply, fail_and_recover).                   *)
THEOREM AppliesAllOrNothing == Apply!Spec => []Apply!AllOrNothing
<1>1. Apply!IInv => Apply!AllOrNothing
    BY DEF Apply!IInv
<1> QED
    BY <1>1, RollbackInvariant, PTL

(* What was installed before the first rollback is at its destination or   *)
(* in a recovery sibling, after any number of plans, failures and crashes. *)
THEOREM OriginalsAreKept == Apply!Spec => []Apply!OriginalKept
<1>1. Apply!IInv => Apply!OriginalKept
    BY DEF Apply!IInv
<1> QED
    BY <1>1, RollbackInvariant, PTL

-----------------------------------------------------------------------------
(* The import of a repository-local store: the constants and variables of  *)
(* LegacyImport; Workspaces serves for it too.                             *)
CONSTANTS Importers, Roots, Targets, Images, Files, Contents, Start, OwnIds, MaxWrites,
          MaxCrashes, None
VARIABLES source, seen, imp, scratch, staging, published, rows, events, ledger, writes, crashes

Import == INSTANCE LegacyImport


(* A ledger row stays what it is, and what it rests on only grows.         *)
LEMMA SeenGrows ==
    ASSUME NEW led, NEW pub, NEW sn, NEW sn2, Import!SnapshotHeld(led, pub, sn),
           led \in [Import!Fingerprints -> Import!LedgerRecord \cup {None}],
           \A r \in Roots : sn[r] \subseteq sn2[r]
    PROVE  Import!SnapshotHeld(led, pub, sn2)
<1>1. \A fp \in Import!Fingerprints : led[fp] # None => led[fp].root \in Roots
    BY DEF Import!LedgerRecord
<1> QED
    BY <1>1 DEF Import!SnapshotHeld

(* What a job does to its own record and, under the lock of its            *)
(* fingerprint, to one directory disturbs nobody else.                     *)
Owns(im, p, fp) == \A q \in Importers \ {p} : Import!Staged(im[q]) => im[q].plan.logical # fp

Elsewhere(stg, stg2, pub, pub2, w, fp) ==
    \A x \in Import!Places \ {<<w, fp>>} : stg2[x] = stg[x] /\ pub2[x] = pub[x]

Holds(im, p, j, src, sn, stg, pub, led) ==
    j # Import!NoImport => /\ Import!ReadHeld(j, src, sn) /\ Import!PlaceHeld(j, stg, pub, led)
                           /\ j.staged => Owns(im, p, j.plan.logical)

(* One job and one directory are replaced.                                 *)
LEMMA JobReplaced ==
    ASSUME NEW im \in [Importers -> Import!Job \cup {Import!NoImport}], NEW src, NEW sn, NEW stg, NEW pub, NEW led,
           Import!JobsHeld(im, src, sn, stg, pub, led), Import!AloneHeld(im), NEW p \in Importers,
           NEW j \in Import!Job \cup {Import!NoImport}, NEW stg2, NEW pub2, NEW w \in Workspaces, NEW fp \in Import!Fingerprints,
           Elsewhere(stg, stg2, pub, pub2, w, fp),
           Owns(im, p, fp) \/ (stg2 = stg /\ pub2 = pub),
           Holds(im, p, j, src, sn, stg2, pub2, led)
    PROVE  /\ Import!JobsHeld([im EXCEPT ![p] = j], src, sn, stg2, pub2, led)
           /\ Import!AloneHeld([im EXCEPT ![p] = j])
<1> DEFINE t == [im EXCEPT ![p] = j]
<1>1. t[p] = j /\ \A q \in Importers \ {p} : t[q] = im[q]
    OBVIOUS
<1> HIDE DEF t
<1>2. ASSUME NEW q \in Importers, t[q] # Import!NoImport
      PROVE  Import!ReadHeld(t[q], src, sn) /\ Import!PlaceHeld(t[q], stg2, pub2, led)
    <2>1. CASE q = p
        BY <1>1, <1>2, <2>1 DEF Holds
    <2>2. CASE q # p
        <3>1. im[q] # Import!NoImport /\ t[q] = im[q] /\ im[q] \in Import!Job
            BY <1>1, <1>2, <2>2
        <3>2. Import!ReadHeld(im[q], src, sn) /\ Import!PlaceHeld(im[q], stg, pub, led)
            BY <3>1 DEF Import!JobsHeld
        <3>3. CASE stg2 = stg /\ pub2 = pub
            BY <3>1, <3>2, <3>3
        <3>4. CASE Owns(im, p, fp)
            <4>1. im[q].staged => im[q].plan.logical # fp
                BY <2>2, <3>1, <3>4 DEF Owns, Import!Staged
            <4>2. <<im[q].ws, im[q].plan.logical>> \in Import!Places
                BY <3>1 DEF Import!Job, Import!Places
            <4>3. im[q].staged => <<im[q].ws, im[q].plan.logical>> # <<w, fp>>
                BY <4>1
            <4> QED
                BY <3>1, <3>2, <4>2, <4>3 DEF Import!PlaceHeld, Elsewhere
        <3> QED
            BY <3>3, <3>4
    <2> QED
        BY <2>1, <2>2
<1>3. Import!AloneHeld(t)
    <2> SUFFICES ASSUME NEW q \in Importers, NEW r \in Importers, Import!Staged(t[q]), Import!Staged(t[r]),
                        t[q].plan.logical = t[r].plan.logical, q # r
                 PROVE  FALSE
        BY DEF Import!AloneHeld
    <2>1. CASE q = p
        BY <1>1, <2>1 DEF Owns, Import!Staged, Holds
    <2>2. CASE r = p
        BY <1>1, <2>2 DEF Owns, Import!Staged, Holds
    <2>3. CASE q # p /\ r # p
        BY <1>1, <2>3 DEF Import!AloneHeld
    <2> QED
        BY <2>1, <2>2, <2>3
<1> QED
    BY <1>2, <1>3 DEF Import!JobsHeld, t

(* A job moves: the source, the ledger and the chains are as they were.    *)
LEMMA JobMoves ==
    ASSUME Import!ImportConstants, Import!IInv, NEW p \in Importers, NEW j \in Import!Job \cup {Import!NoImport},
           imp' = [imp EXCEPT ![p] = j], UNCHANGED <<source, seen, events, ledger>>,
           NEW w \in Workspaces, NEW fp \in Import!Fingerprints,
           staging' \in [Import!Places -> (Nat \X Nat) \cup {None}],
           published' \in [Import!Places -> (Nat \X Nat) \cup {None}],
           Elsewhere(staging, staging', published, published', w, fp),
           Owns(imp, p, fp) \/ (staging' = staging /\ published' = published),
           ledger[fp] = None \/ published' = published,
           Holds(imp, p, j, source, seen, staging', published', ledger)
    PROVE  Import!IInv'
<1>1. /\ Import!TypeOK /\ Import!SourceHeld /\ Import!JobsHeld(imp, source, seen, staging, published, ledger)
      /\ Import!AloneHeld(imp) /\ Import!SnapshotHeld(ledger, published, seen) /\ Import!EventsHeld(ledger, events)
    BY DEF Import!IInv
<1>2. imp \in [Importers -> Import!Job \cup {Import!NoImport}] /\ ledger \in [Import!Fingerprints -> Import!LedgerRecord \cup {None}]
    BY <1>1 DEF Import!TypeOK
<1>3. imp' \in [Importers -> Import!Job \cup {Import!NoImport}]
    BY <1>2
<1>4. Import!TypeOK'
    BY <1>1, <1>3 DEF Import!TypeOK
<1>5. Import!JobsHeld(imp', source, seen, staging', published', ledger) /\ Import!AloneHeld(imp')
    <2>1. /\ Import!JobsHeld([imp EXCEPT ![p] = j], source, seen, staging', published', ledger)
          /\ Import!AloneHeld([imp EXCEPT ![p] = j])
        BY <1>1, <1>2, JobReplaced
    <2> QED
        BY <2>1
<1>6. Import!SnapshotHeld(ledger, published', seen)
    <2>1. ASSUME NEW f \in Import!Fingerprints, ledger[f] # None
          PROVE  published'[<<ledger[f].ws, f>>] = published[<<ledger[f].ws, f>>]
        <3>1. ledger[f].ws \in Workspaces
            BY <1>2, <2>1 DEF Import!LedgerRecord
        <3>2. CASE published' = published
            BY <3>2
        <3>3. CASE ledger[fp] = None
            <4>1. f # fp
                BY <2>1, <3>3
            <4>2. <<ledger[f].ws, f>> \in Import!Places /\ <<ledger[f].ws, f>> # <<w, fp>>
                BY <3>1, <4>1 DEF Import!Places
            <4> QED
                BY <4>2 DEF Elsewhere
        <3> QED
            BY <3>2, <3>3
    <2> QED
        BY <1>1, <2>1 DEF Import!SnapshotHeld
<1> QED
    BY <1>1, <1>4, <1>5, <1>6 DEF Import!IInv, Import!SourceHeld

(* The record of a running importer, and what belongs to it.               *)
LEMMA JobIs ==
    ASSUME Import!IInv, NEW p \in Importers, imp[p].pc # "idle"
    PROVE  /\ imp[p] \in Import!Job /\ imp[p] # Import!NoImport
           /\ imp[p].ws \in Workspaces /\ imp[p].root \in Roots /\ imp[p].plan.logical \in Import!Fingerprints
           /\ Import!ReadHeld(imp[p], source, seen) /\ Import!PlaceHeld(imp[p], staging, published, ledger)
           /\ imp[p].staged => Owns(imp, p, imp[p].plan.logical)
<1>1. imp[p] \in Import!Job \cup {Import!NoImport} /\ imp[p] # Import!NoImport
    BY DEF Import!IInv, Import!TypeOK, Import!NoImport
<1>2. imp[p] \in Import!Job
    BY <1>1
<1>3. Import!ReadHeld(imp[p], source, seen) /\ Import!PlaceHeld(imp[p], staging, published, ledger)
    BY <1>1 DEF Import!IInv, Import!JobsHeld
<1>4. ASSUME imp[p].staged PROVE Owns(imp, p, imp[p].plan.logical)
    <2>1. Import!Staged(imp[p]) /\ Import!AloneHeld(imp)
        BY <1>1, <1>4 DEF Import!Staged, Import!IInv
    <2> QED
        BY <2>1 DEF Owns, Import!AloneHeld
<1> QED
    BY <1>1, <1>2, <1>3, <1>4 DEF Import!Job

(* A job ends: it removes at most its own directory.                       *)
LEMMA DropOK ==
    ASSUME Import!ImportConstants, Import!IInv, NEW p \in Importers, imp[p].pc # "idle", Import!DropImport(p),
           UNCHANGED <<source, seen, events, ledger>>
    PROVE  Import!IInv'
<1>1. /\ imp[p].ws \in Workspaces /\ imp[p].plan.logical \in Import!Fingerprints
      /\ imp[p].staged => Owns(imp, p, imp[p].plan.logical) /\ ledger[imp[p].plan.logical] = None
    BY JobIs DEF Import!PlaceHeld
<1> DEFINE w == imp[p].ws
           fp == imp[p].plan.logical
<1>2. /\ staging \in [Import!Places -> (Nat \X Nat) \cup {None}] /\ published \in [Import!Places -> (Nat \X Nat) \cup {None}]
    BY DEF Import!IInv, Import!TypeOK
<1>3. imp' = [imp EXCEPT ![p] = Import!NoImport] /\ Import!NoImport \in Import!Job \cup {Import!NoImport}
    BY DEF Import!DropImport
<1>4. Import!StagingOf(p) = <<w, fp>>
    BY DEF Import!StagingOf, Import!Fingerprint
<1>5. w \in Workspaces /\ fp \in Import!Fingerprints /\ (imp[p].staged => Owns(imp, p, fp) /\ ledger[fp] = None)
    BY <1>1
<1>6. \A stg, pub : Holds(imp, p, Import!NoImport, source, seen, stg, pub, ledger)
    BY DEF Holds
<1>7. \/ staging' = staging /\ published' = published
      \/ imp[p].staged /\ staging' = [staging EXCEPT ![<<w, fp>>] = None] /\ published' = published
      \/ imp[p].staged /\ published' = [published EXCEPT ![<<w, fp>>] = None] /\ staging' = staging
    BY <1>4 DEF Import!DropImport
<1> HIDE DEF w, fp
<1>8. <<w, fp>> \in Import!Places
    BY <1>5 DEF Import!Places
<1>9. /\ staging' \in [Import!Places -> (Nat \X Nat) \cup {None}] /\ published' \in [Import!Places -> (Nat \X Nat) \cup {None}]
      /\ Elsewhere(staging, staging', published, published', w, fp)
    BY <1>2, <1>7, <1>8 DEF Elsewhere
<1>10. /\ Owns(imp, p, fp) \/ (staging' = staging /\ published' = published)
       /\ ledger[fp] = None \/ published' = published
    BY <1>5, <1>7
<1> QED
    BY <1>3, <1>5, <1>6, <1>9, <1>10, JobMoves

(* A process dies: its directories stay, and what it held is free.         *)
LEMMA ImportCrashOK ==
    ASSUME Import!ImportConstants, Import!IInv, NEW p \in Importers, Import!Crash(p)
    PROVE  Import!IInv'
<1>1. imp' = [imp EXCEPT ![p] = Import!NoImport] /\ UNCHANGED <<source, seen, events, ledger, staging, published>>
    BY DEF Import!Crash, Import!sourceVars, Import!fsVars, Import!dbVars
<1>2. imp[p].pc # "idle"
    <2>1. imp[p] \in Import!Job \cup {Import!NoImport} /\ imp[p] # Import!NoImport
        BY DEF Import!Crash, Import!Running, Import!IInv, Import!TypeOK
    <2> QED
        BY <2>1 DEF Import!Job
<1>3. imp[p].ws \in Workspaces /\ imp[p].plan.logical \in Import!Fingerprints
    BY <1>2, JobIs
<1>4. /\ staging' \in [Import!Places -> (Nat \X Nat) \cup {None}] /\ published' \in [Import!Places -> (Nat \X Nat) \cup {None}]
      /\ \A w, fp : Elsewhere(staging, staging', published, published', w, fp)
    BY <1>1 DEF Import!IInv, Import!TypeOK, Elsewhere
<1>5. Holds(imp, p, Import!NoImport, source, seen, staging', published', ledger) /\ Import!NoImport \in Import!Job \cup {Import!NoImport}
    BY DEF Holds
<1> QED
    BY <1>1, <1>3, <1>4, <1>5, JobMoves

(* The database of a source is inspected.                                  *)
LEMMA InspectDatabaseOK ==
    ASSUME Import!ImportConstants, Import!IInv, NEW p \in Importers, NEW t \in Targets, Import!InspectDatabase(p, t[1], t[2])
    PROVE  Import!IInv'
<1> DEFINE r == t[1]
           w == t[2]
           n == source[r].image
           fp == Images[n].logical
           j == [pc |-> "files", root |-> r, ws |-> w, staged |-> FALSE,
                 plan |-> [image |-> n, logical |-> fp, files |-> 0]]
<1>1. r \in Roots /\ w \in Workspaces
    BY DEF Import!ImportConstants
<1>2. n \in 1 .. Len(Images) /\ n \in Nat /\ fp \in Import!Fingerprints
    BY <1>1 DEF Import!IInv, Import!TypeOK, Import!ImportConstants
<1>3. j \in Import!Job
    BY <1>1, <1>2 DEF Import!Job
<1>4. Holds(imp, p, j, source, seen, staging, published, ledger)
    BY <1>2 DEF Import!ReadHeld, Import!PlaceHeld, Holds
<1>5. /\ UNCHANGED <<source, seen, events, ledger, staging, published>>
      /\ imp' = imp \/ imp' = [imp EXCEPT ![p] = j]
    BY DEF Import!InspectDatabase, Import!sourceVars, Import!dbVars
<1>6. /\ staging \in [Import!Places -> (Nat \X Nat) \cup {None}] /\ published \in [Import!Places -> (Nat \X Nat) \cup {None}]
      /\ Elsewhere(staging, staging', published, published', w, fp)
    BY <1>5 DEF Import!IInv, Import!TypeOK, Elsewhere
<1> HIDE DEF j, fp, n, r, w
<1>7. CASE imp' = [imp EXCEPT ![p] = j]
    BY <1>1, <1>2, <1>3, <1>4, <1>5, <1>6, <1>7, JobMoves
<1>8. CASE imp' = imp
    BY <1>5, <1>8 DEF Import!IInv, Import!TypeOK, Import!SourceHeld
<1> QED
    BY <1>5, <1>7, <1>8

(* The files of a source are inspected: they and the database were there   *)
(* together if the database has not changed since.                         *)
LEMMA InspectFilesOK ==
    ASSUME Import!ImportConstants, Import!IInv, NEW p \in Importers, Import!InspectFiles(p)
    PROVE  Import!IInv'
<1> DEFINE w == imp[p].ws
           fp == imp[p].plan.logical
           r == imp[p].root
           n == source[r].files
           m == imp[p].plan.image
           j == [imp[p] EXCEPT !.pc = "inspected", !.plan.files = n]
<1>1. imp[p].pc = "files" /\ UNCHANGED <<source, seen, events, ledger>>
    BY DEF Import!InspectFiles, Import!sourceVars, Import!dbVars
<1>2. /\ imp[p] \in Import!Job /\ w \in Workspaces /\ r \in Roots /\ fp \in Import!Fingerprints
      /\ Import!ReadHeld(imp[p], source, seen)
    BY <1>1, JobIs
<1>3. n \in Nat /\ m \in Nat /\ <<source[r].image, n>> \in seen[r]
    BY <1>2 DEF Import!IInv, Import!TypeOK, Import!SourceHeld, Import!Job
<1>4. CASE Import!DropImport(p)
    BY <1>1, <1>4, DropOK
<1>5. CASE /\ imp' = [imp EXCEPT ![p].pc = "inspected", ![p].plan.files = n]
           /\ UNCHANGED <<staging, published>>
    <2>1. ~imp[p].staged /\ m <= source[r].image
        BY <1>1, <1>2 DEF Import!ReadHeld
    <2>2. imp \in [Importers -> Import!Job \cup {Import!NoImport}]
        BY DEF Import!IInv, Import!TypeOK
    <2>3. imp' = [imp EXCEPT ![p] = j]
        BY <1>5, <2>2
    <2>4. /\ j \in Import!Job /\ j.pc = "inspected" /\ j.root = r /\ ~j.staged
          /\ j.plan.image = m /\ j.plan.files = n
        BY <1>2, <1>3, <2>1 DEF Import!Job
    <2> HIDE DEF j
    <2>5. Holds(imp, p, j, source, seen, staging, published, ledger)
        BY <1>3, <2>1, <2>4 DEF Import!ReadHeld, Import!PlaceHeld, Import!ManifestOf, Holds
    <2>6. /\ staging \in [Import!Places -> (Nat \X Nat) \cup {None}] /\ published \in [Import!Places -> (Nat \X Nat) \cup {None}]
          /\ Elsewhere(staging, staging', published, published', w, fp)
        BY <1>5 DEF Import!IInv, Import!TypeOK, Elsewhere
    <2> QED
        BY <1>1, <1>2, <1>5, <2>3, <2>4, <2>5, <2>6, JobMoves
<1> QED
    BY <1>4, <1>5 DEF Import!InspectFiles, Import!fsVars

(* A job whose files are untouched goes on to its next step.               *)
LEMMA StepTaken ==
    ASSUME Import!ImportConstants, Import!IInv, NEW p \in Importers, imp[p].pc # "idle",
           NEW c \in {"inspected", "acquire", "staging", "captured", "prepared", "published"},
           NEW s \in BOOLEAN, imp' = [imp EXCEPT ![p] = [imp[p] EXCEPT !.pc = c, !.staged = s]],
           UNCHANGED <<source, seen, events, ledger>>,
           staging' \in [Import!Places -> (Nat \X Nat) \cup {None}],
           published' \in [Import!Places -> (Nat \X Nat) \cup {None}],
           Elsewhere(staging, staging', published, published', imp[p].ws, Import!Fingerprint(p)),
           Owns(imp, p, Import!Fingerprint(p)) \/ (staging' = staging /\ published' = published),
           ledger[Import!Fingerprint(p)] = None \/ published' = published,
           s <=> c \in {"staging", "captured", "prepared", "published"},
           s => Owns(imp, p, Import!Fingerprint(p)) /\ ledger[Import!Fingerprint(p)] = None,
           imp[p].pc # "files",
           c \in {"captured", "prepared", "published"} =>
               \/ source[imp[p].root].image = imp[p].plan.image
               \/ imp[p].pc \in {"captured", "prepared", "published"},
           c = "prepared" => staging'[Import!StagingOf(p)] = Import!Manifest(p),
           c = "published" => published'[Import!StagingOf(p)] = Import!Manifest(p)
    PROVE  Import!IInv'
<1> DEFINE w == imp[p].ws
           fp == imp[p].plan.logical
           j == [imp[p] EXCEPT !.pc = c, !.staged = s]
<1>1. /\ imp[p] \in Import!Job /\ w \in Workspaces /\ fp \in Import!Fingerprints
      /\ Import!ReadHeld(imp[p], source, seen)
    BY JobIs
<1>2. Import!StagingOf(p) = <<w, fp>> /\ Import!Fingerprint(p) = fp /\ Import!Manifest(p) = Import!ManifestOf(imp[p])
    BY DEF Import!StagingOf, Import!Fingerprint, Import!Manifest, Import!ManifestOf
<1>3. /\ j \in Import!Job /\ j.pc = c /\ j.staged = s /\ j.ws = w /\ j.plan = imp[p].plan /\ j.root = imp[p].root
    BY <1>1 DEF Import!Job
<1> HIDE DEF j
<1>4. Import!ManifestOf(j) = Import!ManifestOf(imp[p]) /\ j.plan.logical = fp
    BY <1>3 DEF Import!ManifestOf
<1>5. Import!ReadHeld(j, source, seen)
    <2>1. /\ j.plan.image = imp[p].plan.image /\ j.root = imp[p].root
          /\ (j.staged <=> j.pc \in {"staging", "captured", "prepared", "published"})
        BY <1>3
    <2>2. j.pc \in {"captured", "prepared", "published"} => Import!ManifestOf(imp[p]) \in seen[imp[p].root]
        BY <1>1, <1>3 DEF Import!ReadHeld
    <2> QED
        BY <1>1, <1>4, <2>1, <2>2 DEF Import!ReadHeld
<1>6. Import!PlaceHeld(j, staging', published', ledger)
    BY <1>2, <1>3, <1>4 DEF Import!PlaceHeld
<1>7. Holds(imp, p, j, source, seen, staging', published', ledger)
    BY <1>2, <1>3, <1>4, <1>5, <1>6 DEF Holds
<1>8. imp' = [imp EXCEPT ![p] = j]
    BY DEF j
<1>9. /\ Elsewhere(staging, staging', published, published', w, fp)
      /\ Owns(imp, p, fp) \/ (staging' = staging /\ published' = published)
      /\ ledger[fp] = None \/ published' = published
    BY <1>2
<1> HIDE DEF w, fp
<1> QED
    BY <1>1, <1>3, <1>7, <1>8, <1>9, JobMoves

(* The types the steps of a job need.                                      *)
LEMMA FilesTyped ==
    ASSUME Import!IInv
    PROVE  /\ staging \in [Import!Places -> (Nat \X Nat) \cup {None}]
           /\ published \in [Import!Places -> (Nat \X Nat) \cup {None}]
           /\ imp \in [Importers -> Import!Job \cup {Import!NoImport}]
BY DEF Import!IInv, Import!TypeOK

(* The ledger is read.                                                     *)
LEMMA CheckLedgerOK ==
    ASSUME Import!ImportConstants, Import!IInv, NEW p \in Importers, Import!CheckLedger(p)
    PROVE  Import!IInv'
<1>1. imp[p].pc = "inspected" /\ UNCHANGED <<source, seen, events, ledger>>
    BY DEF Import!CheckLedger, Import!sourceVars, Import!dbVars
<1>2. CASE Import!DropImport(p)
    BY <1>1, <1>2, DropOK
<1>3. CASE imp' = [imp EXCEPT ![p].pc = "acquire"] /\ UNCHANGED <<staging, published>>
    <2>1. imp[p] \in Import!Job /\ ~imp[p].staged
        BY <1>1, JobIs DEF Import!ReadHeld
    <2>2. imp' = [imp EXCEPT ![p] = [imp[p] EXCEPT !.pc = "acquire", !.staged = FALSE]]
        <3>1. [imp[p] EXCEPT !.pc = "acquire"] = [imp[p] EXCEPT !.pc = "acquire", !.staged = FALSE]
            BY <2>1 DEF Import!Job
        <3> QED
            BY <1>3, <3>1, FilesTyped
    <2>3. Elsewhere(staging, staging', published, published', imp[p].ws, Import!Fingerprint(p))
        BY <1>3 DEF Elsewhere
    <2> QED
        BY <1>1, <1>3, <2>2, <2>3, StepTaken, FilesTyped
<1> QED
    BY <1>2, <1>3 DEF Import!CheckLedger, Import!fsVars

(* The lock of a fingerprint has one holder.                               *)
LEMMA FreeIsOwned ==
    ASSUME NEW p \in Importers, NEW fp, Import!ScratchFree(fp)
    PROVE  Owns(imp, p, fp)
<1>1. ASSUME NEW q \in Importers, Import!Staged(imp[q]) PROVE imp[q].plan.logical # fp
    <2>1. fp \notin Import!ScratchKeys(q)
        BY DEF Import!ScratchFree
    <2>2. imp[q].plan.logical \in Import!ScratchKeys(q)
        BY <1>1 DEF Import!ScratchKeys, Import!Staged, Import!Running, Import!Fingerprint
    <2> QED
        BY <2>1, <2>2
<1> QED
    BY <1>1 DEF Owns

(* The lock of the staging directory is taken, or the job is over.         *)
LEMMA AcquireStagingOK ==
    ASSUME Import!ImportConstants, Import!IInv, NEW p \in Importers, Import!AcquireStaging(p)
    PROVE  Import!IInv'
<1>1. imp[p].pc = "acquire" /\ UNCHANGED <<source, seen, events, ledger>>
    BY DEF Import!AcquireStaging, Import!sourceVars, Import!dbVars
<1>2. /\ imp[p] \in Import!Job /\ imp[p].ws \in Workspaces /\ Import!Fingerprint(p) \in Import!Fingerprints
      /\ <<imp[p].ws, Import!Fingerprint(p)>> \in Import!Places
    BY <1>1, JobIs DEF Import!Fingerprint, Import!Places
<1>3. CASE Import!DropImport(p)
    BY <1>1, <1>3, DropOK
<1> DEFINE w == imp[p].ws
           fp == Import!Fingerprint(p)
<1>4. CASE Import!Acquirable(p) /\ ledger[fp] = None /\ Import!PrepareStaging(p)
    <2>1. Owns(imp, p, fp)
        BY <1>4, FreeIsOwned DEF Import!Acquirable
    <2>2. imp' = [imp EXCEPT ![p] = [imp[p] EXCEPT !.pc = "staging", !.staged = TRUE]]
        BY <1>4, FilesTyped DEF Import!PrepareStaging
    <2>3. /\ staging' = [staging EXCEPT ![<<w, fp>>] = <<0, 0>>]
          /\ published' = [published EXCEPT ![<<w, fp>>] = None]
        BY <1>4 DEF Import!PrepareStaging
    <2>4. /\ staging' \in [Import!Places -> (Nat \X Nat) \cup {None}]
          /\ published' \in [Import!Places -> (Nat \X Nat) \cup {None}]
        BY <1>2, <2>3, FilesTyped
    <2>5. Elsewhere(staging, staging', published, published', w, fp)
        BY <1>2, <2>3, FilesTyped DEF Elsewhere
    <2> QED
        BY <1>1, <1>4, <2>1, <2>2, <2>4, <2>5, StepTaken
<1>5. CASE /\ Import!Acquirable(p) /\ imp' = [imp EXCEPT ![p] = Import!NoImport]
           /\ staging' = [staging EXCEPT ![<<w, fp>>] = None] /\ published' = published
    <2>1. Owns(imp, p, fp)
        BY <1>5, FreeIsOwned DEF Import!Acquirable
    <2>2. /\ staging' \in [Import!Places -> (Nat \X Nat) \cup {None}]
          /\ published' \in [Import!Places -> (Nat \X Nat) \cup {None}]
          /\ Elsewhere(staging, staging', published, published', w, fp)
        BY <1>2, <1>5, FilesTyped DEF Elsewhere
    <2>3. Holds(imp, p, Import!NoImport, source, seen, staging', published', ledger) /\ Import!NoImport \in Import!Job \cup {Import!NoImport}
        BY DEF Holds
    <2> QED
        BY <1>1, <1>2, <1>5, <2>1, <2>2, <2>3, JobMoves
<1> QED
    BY <1>3, <1>4, <1>5 DEF Import!AcquireStaging

(* A job that has its staging directory writes to it and goes on.          *)
LEMMA StagedStep ==
    ASSUME Import!ImportConstants, Import!IInv, NEW p \in Importers,
           NEW c \in {"captured", "prepared"}, NEW m \in Nat \X Nat,
           imp[p].pc \in {"staging", "captured"},
           imp' = [imp EXCEPT ![p].pc = c], staging' = [staging EXCEPT ![Import!StagingOf(p)] = m],
           UNCHANGED <<source, seen, events, ledger, published>>,
           imp[p].pc = "captured" \/ source[imp[p].root].image = imp[p].plan.image,
           c = "prepared" => m = Import!Manifest(p)
    PROVE  Import!IInv'
<1>1. /\ imp[p] \in Import!Job /\ imp[p].ws \in Workspaces /\ Import!Fingerprint(p) \in Import!Fingerprints
      /\ imp[p].staged = TRUE /\ Owns(imp, p, Import!Fingerprint(p)) /\ ledger[Import!Fingerprint(p)] = None
      /\ Import!StagingOf(p) = <<imp[p].ws, Import!Fingerprint(p)>> /\ Import!StagingOf(p) \in Import!Places
    <2>1. imp[p] \in Import!Job /\ imp[p].staged /\ imp[p].ws \in Workspaces /\ Import!Fingerprint(p) \in Import!Fingerprints
          /\ Owns(imp, p, Import!Fingerprint(p)) /\ ledger[Import!Fingerprint(p)] = None
        BY JobIs DEF Import!ReadHeld, Import!PlaceHeld, Import!Fingerprint
    <2>2. imp[p].staged = TRUE
        BY <2>1 DEF Import!Job
    <2> QED
        BY <2>1, <2>2 DEF Import!StagingOf, Import!Places
<1>2. imp' = [imp EXCEPT ![p] = [imp[p] EXCEPT !.pc = c, !.staged = TRUE]]
    <2>1. [imp[p] EXCEPT !.pc = c] = [imp[p] EXCEPT !.pc = c, !.staged = TRUE]
        BY <1>1 DEF Import!Job
    <2> QED
        BY <2>1, FilesTyped
<1>3. /\ staging' \in [Import!Places -> (Nat \X Nat) \cup {None}]
      /\ published' \in [Import!Places -> (Nat \X Nat) \cup {None}]
      /\ staging'[Import!StagingOf(p)] = m
    BY <1>1, FilesTyped
<1>4. Elsewhere(staging, staging', published, published', imp[p].ws, Import!Fingerprint(p))
    BY <1>1, FilesTyped DEF Elsewhere
<1> QED
    BY <1>1, <1>2, <1>3, <1>4, StepTaken

(* The database is captured once more and has the bytes of the plan.       *)
LEMMA CaptureStagedOK ==
    ASSUME Import!ImportConstants, Import!IInv, NEW p \in Importers, Import!CaptureStaged(p)
    PROVE  Import!IInv'
<1>1. imp[p].pc = "staging" /\ UNCHANGED <<source, seen, events, ledger>>
    BY DEF Import!CaptureStaged, Import!sourceVars, Import!dbVars
<1>2. CASE Import!DropImport(p)
    BY <1>1, <1>2, DropOK
<1>3. CASE /\ source[imp[p].root].image = imp[p].plan.image
           /\ imp' = [imp EXCEPT ![p].pc = "captured"]
           /\ staging' = [staging EXCEPT ![Import!StagingOf(p)] = <<imp[p].plan.image, 0>>]
           /\ published' = published
    <2>1. <<imp[p].plan.image, 0>> \in Nat \X Nat
        BY <1>1, JobIs DEF Import!Job
    <2> QED
        BY <1>1, <1>3, <2>1, StagedStep
<1> QED
    BY <1>2, <1>3 DEF Import!CaptureStaged

(* The files are staged as the plan says.                                  *)
LEMMA StageFilesOK ==
    ASSUME Import!ImportConstants, Import!IInv, NEW p \in Importers, Import!StageFiles(p)
    PROVE  Import!IInv'
<1>1. imp[p].pc = "captured" /\ UNCHANGED <<source, seen, events, ledger>>
    BY DEF Import!StageFiles, Import!sourceVars, Import!dbVars
<1>2. CASE Import!DropImport(p)
    BY <1>1, <1>2, DropOK
<1>3. CASE /\ imp' = [imp EXCEPT ![p].pc = "prepared"]
           /\ staging' = [staging EXCEPT ![Import!StagingOf(p)] = Import!Manifest(p)]
           /\ published' = published
    <2>1. Import!Manifest(p) \in Nat \X Nat
        BY <1>1, JobIs DEF Import!Job, Import!Manifest
    <2> QED
        BY <1>1, <1>3, <2>1, StagedStep
<1> QED
    BY <1>2, <1>3 DEF Import!StageFiles

(* A prepared import is abandoned, or its commit fails.                    *)
LEMMA AbandonOK ==
    ASSUME Import!ImportConstants, Import!IInv, NEW p \in Importers, Import!Abandon(p) \/ Import!RollbackTransaction(p)
    PROVE  Import!IInv'
<1>1. /\ imp[p].pc # "idle" /\ Import!DropImport(p) /\ UNCHANGED <<source, seen, events, ledger>>
    BY DEF Import!Abandon, Import!RollbackTransaction, Import!sourceVars, Import!dbVars
<1> QED
    BY <1>1, DropOK

(* The staging directory is renamed inside the transaction.                *)
LEMMA PublishOK ==
    ASSUME Import!ImportConstants, Import!IInv, NEW p \in Importers, Import!Publish(p)
    PROVE  Import!IInv'
<1>1. imp[p].pc = "prepared" /\ UNCHANGED <<source, seen, events, ledger>>
    BY DEF Import!Publish, Import!sourceVars, Import!dbVars
<1>2. CASE Import!DropImport(p)
    BY <1>1, <1>2, DropOK
<1>3. CASE /\ imp' = [imp EXCEPT ![p].pc = "published"]
           /\ published' = [published EXCEPT ![Import!StagingOf(p)] = staging[Import!StagingOf(p)]]
           /\ staging' = [staging EXCEPT ![Import!StagingOf(p)] = None]
    <2>1. /\ imp[p] \in Import!Job /\ imp[p].ws \in Workspaces /\ Import!Fingerprint(p) \in Import!Fingerprints
          /\ imp[p].staged = TRUE /\ Owns(imp, p, Import!Fingerprint(p)) /\ ledger[Import!Fingerprint(p)] = None
          /\ Import!StagingOf(p) = <<imp[p].ws, Import!Fingerprint(p)>> /\ Import!StagingOf(p) \in Import!Places
          /\ staging[Import!StagingOf(p)] = Import!Manifest(p)
        <3>1. imp[p] \in Import!Job /\ imp[p].staged /\ imp[p].ws \in Workspaces /\ Import!Fingerprint(p) \in Import!Fingerprints
              /\ Owns(imp, p, Import!Fingerprint(p)) /\ ledger[Import!Fingerprint(p)] = None
              /\ Import!PlaceHeld(imp[p], staging, published, ledger)
            BY <1>1, JobIs DEF Import!ReadHeld, Import!PlaceHeld, Import!Fingerprint
        <3>2. imp[p].staged = TRUE
            BY <3>1 DEF Import!Job
        <3>3. staging[Import!StagingOf(p)] = Import!Manifest(p)
            BY <1>1, <3>1 DEF Import!PlaceHeld, Import!StagingOf, Import!Fingerprint, Import!Manifest, Import!ManifestOf
        <3> QED
            BY <3>1, <3>2, <3>3 DEF Import!StagingOf, Import!Places
    <2>2. imp' = [imp EXCEPT ![p] = [imp[p] EXCEPT !.pc = "published", !.staged = TRUE]]
        <3>1. [imp[p] EXCEPT !.pc = "published"] = [imp[p] EXCEPT !.pc = "published", !.staged = TRUE]
            BY <2>1 DEF Import!Job
        <3> QED
            BY <1>3, <3>1, FilesTyped
    <2>3. /\ staging' \in [Import!Places -> (Nat \X Nat) \cup {None}]
          /\ published' \in [Import!Places -> (Nat \X Nat) \cup {None}]
          /\ published'[Import!StagingOf(p)] = Import!Manifest(p)
        BY <1>3, <2>1, FilesTyped
    <2>4. Elsewhere(staging, staging', published, published', imp[p].ws, Import!Fingerprint(p))
        BY <1>3, <2>1, FilesTyped DEF Elsewhere
    <2> QED
        BY <1>1, <2>1, <2>2, <2>3, <2>4, StepTaken
<1> QED
    BY <1>2, <1>3 DEF Import!Publish

(* The older program writes the source: what a job has read stays behind.  *)
LEMMA WriteSourceOK ==
    ASSUME Import!ImportConstants, Import!IInv, NEW r \in Roots, NEW next \in [image : 1 .. Len(Images), files : Nat],
           source[r].image <= next.image, Import!WriteSource(r, next)
    PROVE  Import!IInv'
<1>1. /\ Import!TypeOK /\ Import!SourceHeld /\ Import!JobsHeld(imp, source, seen, staging, published, ledger)
      /\ Import!AloneHeld(imp) /\ Import!SnapshotHeld(ledger, published, seen) /\ Import!EventsHeld(ledger, events)
    BY DEF Import!IInv
<1>2. /\ source' = [source EXCEPT ![r] = next]
      /\ seen' = [seen EXCEPT ![r] = @ \cup {<<next.image, next.files>>}]
      /\ UNCHANGED <<imp, staging, published, events, ledger>>
    BY DEF Import!WriteSource, Import!fsVars, Import!dbVars
<1>3. /\ source \in [Roots -> [image : 1 .. Len(Images), files : Nat]]
      /\ seen \in [Roots -> SUBSET (Nat \X Nat)] /\ imp \in [Importers -> Import!Job \cup {Import!NoImport}]
      /\ ledger \in [Import!Fingerprints -> Import!LedgerRecord \cup {None}]
    BY <1>1 DEF Import!TypeOK
<1>4. <<next.image, next.files>> \in Nat \X Nat
    BY DEF Import!ImportConstants
<1>5. /\ source' \in [Roots -> [image : 1 .. Len(Images), files : Nat]]
      /\ seen' \in [Roots -> SUBSET (Nat \X Nat)]
    BY <1>2, <1>3, <1>4
<1>6. Import!TypeOK'
    BY <1>1, <1>2, <1>5 DEF Import!TypeOK
<1>7. /\ \A s \in Roots : seen[s] \subseteq seen'[s]
      /\ \A s \in Roots \ {r} : source'[s] = source[s]
      /\ source'[r] = next /\ <<next.image, next.files>> \in seen'[r]
    BY <1>2, <1>3
<1>8. Import!SourceHeld'
    BY <1>1, <1>7 DEF Import!SourceHeld
<1>9. Import!SnapshotHeld(ledger, published, seen')
    BY <1>1, <1>3, <1>7, SeenGrows
<1>10. ASSUME NEW j \in Import!Job, Import!ReadHeld(j, source, seen) PROVE Import!ReadHeld(j, source', seen')
    <2>1. /\ j.root \in Roots /\ j.plan.image \in Nat
          /\ source[j.root].image \in Nat /\ source'[j.root].image \in Nat
        BY <1>3, <1>5 DEF Import!Job, Import!ImportConstants
    <2>2. source[j.root].image <= source'[j.root].image
        BY <1>7, <2>1
    <2>3. seen[j.root] \subseteq seen'[j.root]
        BY <1>7, <2>1
    <2> QED
        BY <1>10, <2>1, <2>2, <2>3 DEF Import!ReadHeld
<1>11. Import!JobsHeld(imp, source', seen', staging, published, ledger)
    BY <1>1, <1>3, <1>10 DEF Import!JobsHeld
<1> QED
    BY <1>1, <1>2, <1>6, <1>8, <1>9, <1>11 DEF Import!IInv

(* The two writes of the older program.                                    *)
LEMMA LegacyWritesOK ==
    ASSUME Import!ImportConstants, Import!IInv, NEW r \in Roots, Import!LegacyDatabaseWrite(r) \/ Import!LegacyFileWrite(r)
    PROVE  Import!IInv'
<1>1. source[r] \in [image : 1 .. Len(Images), files : Nat] /\ Len(Images) \in Nat
    BY DEF Import!IInv, Import!TypeOK, Import!ImportConstants
<1>2. CASE Import!LegacyDatabaseWrite(r)
    <2> DEFINE next == [source[r] EXCEPT !.image = @ + 1]
    <2>1. /\ next \in [image : 1 .. Len(Images), files : Nat] /\ source[r].image <= next.image
          /\ Import!WriteSource(r, next)
        BY <1>1, <1>2 DEF Import!LegacyDatabaseWrite
    <2> QED
        BY <2>1, WriteSourceOK
<1>3. CASE Import!LegacyFileWrite(r)
    <2> DEFINE next == [source[r] EXCEPT !.files = @ + 1]
    <2>1. /\ next \in [image : 1 .. Len(Images), files : Nat] /\ source[r].image <= next.image
          /\ Import!WriteSource(r, next)
        BY <1>1, <1>3 DEF Import!LegacyFileWrite
    <2> QED
        BY <2>1, WriteSourceOK
<1> QED
    BY <1>2, <1>3

(* A chain grows, by nothing that marks the import of fp.                  *)
Grown(s, t, fp) ==
    /\ Len(s) <= Len(t)
    /\ \A i \in 1 .. Len(s) : t[i] = s[i]
    /\ \A i \in 1 .. Len(t) : i > Len(s) => t[i] # <<"anchor", fp>>

(* A prefix, place by place.                                               *)
LEMMA ImportPrefixPlaces ==
    ASSUME NEW S, NEW s \in Seq(S), NEW t \in Seq(S)
    PROVE  Import!IsPrefix(s, t) <=> Len(s) <= Len(t) /\ \A i \in 1 .. Len(s) : t[i] = s[i]
<1>1. SubSeq(s, 1, Len(s)) = s
    OBVIOUS
<1>2. ASSUME Len(s) <= Len(t)
      PROVE  /\ SubSeq(t, 1, Len(s)) \in Seq(S) /\ Len(SubSeq(t, 1, Len(s))) = Len(s)
             /\ \A i \in 1 .. Len(s) : SubSeq(t, 1, Len(s))[i] = t[i]
    BY <1>2
<1>3. ASSUME Len(s) <= Len(t), \A i \in 1 .. Len(s) : t[i] = s[i]
      PROVE  SubSeq(t, 1, Len(s)) = s
    BY <1>2, <1>3
<1> QED
    BY <1>1, <1>2, <1>3 DEF Import!IsPrefix

(* The chain of an import that was copied is a sequence of marks.          *)
LEMMA LegacyChainIs ==
    ASSUME Import!ImportConstants, NEW fp \in Import!Fingerprints
    PROVE  /\ Import!LegacyChain(fp) \in Seq(Import!Marks) /\ Len(Import!LegacyChain(fp)) = Contents[fp].events
           /\ Contents[fp].events \in Nat
           /\ \A g : Import!Unanchored(g, Import!LegacyChain(fp))
<1> DEFINE n == Contents[fp].events
<1>1. n \in Nat
    BY DEF Import!ImportConstants
<1> HIDE DEF n
<1>2. Import!LegacyChain(fp) = [i \in 1 .. n |-> <<"legacy", fp, i>>]
    BY DEF Import!LegacyChain, n
<1>3. \A i \in 1 .. n : <<"legacy", fp, i>> \in Import!Marks
    BY <1>1 DEF Import!Marks
<1>4. Import!LegacyChain(fp) \in Seq(Import!Marks) /\ Len(Import!LegacyChain(fp)) = n
    BY <1>1, <1>2, <1>3
<1>5. ASSUME NEW g, NEW i \in 1 .. n PROVE Import!LegacyChain(fp)[i] # <<"anchor", g>>
    <2>1. Import!LegacyChain(fp)[i] = <<"legacy", fp, i>>
        BY <1>2
    <2>2. Import!LegacyChain(fp)[i][1] = "legacy" /\ <<"anchor", g>>[1] = "anchor"
        BY <2>1
    <2> QED
        BY <2>2
<1> QED
    BY <1>1, <1>4, <1>5 DEF Import!Unanchored, n

(* What is added to a chain keeps the account of an earlier import.        *)
LEMMA AuditKept ==
    ASSUME Import!ImportConstants, NEW fp \in Import!Fingerprints, NEW row \in Import!LedgerRecord,
           NEW ev \in [Workspaces -> Seq(Import!Marks)], NEW ev2 \in [Workspaces -> Seq(Import!Marks)],
           \A w \in Workspaces : Grown(ev[w], ev2[w], fp), Import!AuditHeld(row, fp, ev)
    PROVE  Import!AuditHeld(row, fp, ev2)
<1> DEFINE s == ev[row.ws]
           t == ev2[row.ws]
<1>1. /\ row.ws \in Workspaces /\ s \in Seq(Import!Marks) /\ t \in Seq(Import!Marks) /\ row.anchor \in Nat
      /\ Grown(s, t, fp)
    BY DEF Import!LedgerRecord
<1>2. /\ row.copied => Import!IsPrefix(Import!LegacyChain(fp), s) /\ (~row.copied => row.anchor # 0)
      /\ row.anchor = 0 => row.mappings = {}
      /\ row.anchor # 0 => row.anchor \in 1 .. Len(s)
      /\ \A i \in 1 .. Len(s) : s[i] = <<"anchor", fp>> <=> i = row.anchor
    BY DEF Import!AuditHeld
<1> HIDE DEF s, t
<1>3. Len(s) \in Nat /\ Len(t) \in Nat
    BY <1>1
<1>4. ASSUME row.copied PROVE Import!IsPrefix(Import!LegacyChain(fp), t)
    <2>1. Import!LegacyChain(fp) \in Seq(Import!Marks)
        BY LegacyChainIs
    <2>2. Len(Import!LegacyChain(fp)) <= Len(s) /\ \A i \in 1 .. Len(Import!LegacyChain(fp)) : s[i] = Import!LegacyChain(fp)[i]
        BY <1>1, <1>2, <1>4, <2>1, ImportPrefixPlaces
    <2>3. Len(Import!LegacyChain(fp)) \in Nat
        BY <2>1
    <2>4. Len(Import!LegacyChain(fp)) <= Len(t) /\ \A i \in 1 .. Len(Import!LegacyChain(fp)) : t[i] = Import!LegacyChain(fp)[i]
        BY <1>1, <1>3, <2>2, <2>3 DEF Grown
    <2> QED
        BY <1>1, <2>1, <2>4, ImportPrefixPlaces
<1>5. \A i \in 1 .. Len(t) : t[i] = <<"anchor", fp>> <=> i = row.anchor
    <2> SUFFICES ASSUME NEW i \in 1 .. Len(t) PROVE t[i] = <<"anchor", fp>> <=> i = row.anchor
        OBVIOUS
    <2>1. CASE i <= Len(s)
        <3>1. i \in 1 .. Len(s)
            BY <1>3, <2>1
        <3>2. t[i] = s[i]
            BY <1>1, <3>1 DEF Grown
        <3>3. s[i] = <<"anchor", fp>> <=> i = row.anchor
            BY <1>2, <3>1
        <3> QED
            BY <3>2, <3>3
    <2>2. CASE i > Len(s)
        <3>1. t[i] # <<"anchor", fp>>
            BY <1>1, <2>2 DEF Grown
        <3>2. i # row.anchor
            BY <1>1, <1>2, <1>3, <2>2
        <3> QED
            BY <3>1, <3>2
    <2> QED
        BY <1>3, <2>1, <2>2
<1>6. row.anchor # 0 => row.anchor \in 1 .. Len(t)
    BY <1>1, <1>2, <1>3 DEF Grown
<1> QED
    BY <1>2, <1>4, <1>5, <1>6 DEF Import!AuditHeld, s, t

(* The same for the chains and the ledger as a whole.                      *)
LEMMA EventsGrow ==
    ASSUME Import!ImportConstants, NEW led \in [Import!Fingerprints -> Import!LedgerRecord \cup {None}], Import!EventsHeld(led, events),
           NEW ev2 \in [Workspaces -> Seq(Import!Marks)], events \in [Workspaces -> Seq(Import!Marks)],
           NEW fp \in Import!Fingerprints,
           \A w \in Workspaces : Grown(events[w], ev2[w], fp)
    PROVE  /\ led[fp] # None => Import!AuditHeld(led[fp], fp, ev2)
           /\ led[fp] = None => \A w \in Workspaces : Import!Unanchored(fp, ev2[w])
<1>1. ASSUME led[fp] # None PROVE Import!AuditHeld(led[fp], fp, ev2)
    <2>1. led[fp] \in Import!LedgerRecord /\ Import!AuditHeld(led[fp], fp, events)
        BY <1>1 DEF Import!EventsHeld
    <2> QED
        BY <2>1, AuditKept
<1>2. ASSUME led[fp] = None, NEW w \in Workspaces PROVE Import!Unanchored(fp, ev2[w])
    <2>1. Import!Unanchored(fp, events[w]) /\ Grown(events[w], ev2[w], fp)
        BY <1>2 DEF Import!EventsHeld
    <2>2. Len(events[w]) \in Nat /\ Len(ev2[w]) \in Nat
        OBVIOUS
    <2> QED
        BY <2>1, <2>2 DEF Import!Unanchored, Grown
<1> QED
    BY <1>1, <1>2

(* A chain that is left alone, and one to which a mark is added.           *)
LEMMA GrownBy ==
    ASSUME NEW s \in Seq(Import!Marks), NEW fp
    PROVE  /\ Grown(s, s, fp)
           /\ \A x \in Import!Marks : x # <<"anchor", fp>> => Grown(s, Append(s, x), fp)
<1>1. Len(s) \in Nat
    OBVIOUS
<1>2. Grown(s, s, fp)
    BY <1>1 DEF Grown
<1>3. ASSUME NEW x \in Import!Marks, x # <<"anchor", fp>> PROVE Grown(s, Append(s, x), fp)
    <2> DEFINE t == Append(s, x)
    <2>1. /\ Len(t) = Len(s) + 1 /\ t[Len(s) + 1] = x
          /\ \A i \in 1 .. Len(s) : t[i] = s[i]
        OBVIOUS
    <2> HIDE DEF t
    <2>2. \A i \in 1 .. Len(t) : i > Len(s) => t[i] # <<"anchor", fp>>
        <3> SUFFICES ASSUME NEW i \in 1 .. Len(t), i > Len(s) PROVE t[i] # <<"anchor", fp>>
            OBVIOUS
        <3>1. i = Len(s) + 1
            BY <1>1, <2>1
        <3> QED
            BY <1>3, <2>1, <3>1
    <2>3. Len(s) <= Len(t)
        BY <1>1, <2>1
    <2>4. Grown(s, t, fp)
        BY <2>1, <2>2, <2>3 DEF Grown
    <2> QED
        BY <2>4 DEF t
<1> QED
    BY <1>2, <1>3

(* Work of the program itself in a workspace.                              *)
LEMMA OwnWorkOK ==
    ASSUME Import!ImportConstants, Import!IInv, NEW w \in Workspaces, NEW id, Import!OwnWork(w, id)
    PROVE  Import!IInv'
<1>1. /\ Import!TypeOK /\ Import!SourceHeld /\ Import!JobsHeld(imp, source, seen, staging, published, ledger)
      /\ Import!AloneHeld(imp) /\ Import!SnapshotHeld(ledger, published, seen) /\ Import!EventsHeld(ledger, events)
    BY DEF Import!IInv
<1>2. /\ UNCHANGED <<source, seen, imp, staging, published, ledger>>
      /\ events' = [events EXCEPT ![w] = Append(@, <<"own">>)] \/ events' = events
    BY DEF Import!OwnWork, Import!sourceVars, Import!fsVars
<1>3. /\ events \in [Workspaces -> Seq(Import!Marks)] /\ ledger \in [Import!Fingerprints -> Import!LedgerRecord \cup {None}]
    BY <1>1 DEF Import!TypeOK
<1>4. CASE events' = events
    BY <1>1, <1>2, <1>4 DEF Import!IInv, Import!TypeOK, Import!SourceHeld
<1>5. CASE events' = [events EXCEPT ![w] = Append(@, <<"own">>)]
    <2>1. <<"own">> \in Import!Marks /\ events[w] \in Seq(Import!Marks)
        BY <1>3 DEF Import!Marks
    <2>2. Append(events[w], <<"own">>) \in Seq(Import!Marks)
        BY <2>1
    <2>3. events' \in [Workspaces -> Seq(Import!Marks)]
        BY <1>3, <1>5, <2>2
    <2>4. ASSUME NEW fp PROVE <<"own">> # <<"anchor", fp>>
        <3>1. <<"own">>[1] = "own" /\ <<"anchor", fp>>[1] = "anchor"
            OBVIOUS
        <3> QED
            BY <3>1
    <2>5. ASSUME NEW v \in Workspaces, NEW fp PROVE Grown(events[v], events'[v], fp)
        <3>1. events[v] \in Seq(Import!Marks)
            BY <1>3
        <3>2. events'[v] = IF v = w THEN Append(events[w], <<"own">>) ELSE events[v]
            BY <1>3, <1>5
        <3> QED
            BY <2>1, <2>4, <3>1, <3>2, GrownBy
    <2>6. Import!EventsHeld(ledger, events')
        <3>1. ASSUME NEW fp \in Import!Fingerprints
              PROVE  /\ ledger[fp] # None => Import!AuditHeld(ledger[fp], fp, events')
                     /\ ledger[fp] = None => \A v \in Workspaces : Import!Unanchored(fp, events'[v])
            BY <1>1, <1>3, <2>3, <2>5, EventsGrow
        <3> QED
            BY <3>1 DEF Import!EventsHeld
    <2>7. Import!TypeOK'
        BY <1>1, <1>2, <2>3 DEF Import!TypeOK
    <2> QED
        BY <1>1, <1>2, <2>6, <2>7 DEF Import!IInv, Import!SourceHeld
<1> QED
    BY <1>2, <1>4, <1>5

(* Whether an anchor is written.                                           *)
Anchors(w, fp) == events[w] # <<>> \/ Import!Replaced(w, fp) # {}

(* The chain after an import: nothing is marked but the import itself, and *)
(* its anchor is the last event, or there is none.                         *)
LEMMA ImportedEventsAre ==
    ASSUME Import!ImportConstants, NEW w \in Workspaces, NEW fp \in Import!Fingerprints, events[w] \in Seq(Import!Marks),
           Import!Unanchored(fp, events[w])
    PROVE  /\ Import!ImportedEvents(w, fp) \in Seq(Import!Marks)
           /\ \A g : g # fp => Grown(events[w], Import!ImportedEvents(w, fp), g)
           /\ events[w] = <<>> => Import!IsPrefix(Import!LegacyChain(fp), Import!ImportedEvents(w, fp))
           /\ Anchors(w, fp) =>
                 /\ Len(Import!ImportedEvents(w, fp)) \in Nat \ {0}
                 /\ \A i \in 1 .. Len(Import!ImportedEvents(w, fp)) :
                       Import!ImportedEvents(w, fp)[i] = <<"anchor", fp>> <=> i = Len(Import!ImportedEvents(w, fp))
           /\ ~Anchors(w, fp) => Import!Unanchored(fp, Import!ImportedEvents(w, fp))
<1> DEFINE C == Import!LegacyChain(fp)
           x == <<"anchor", fp>>
           E == events[w]
           R == Import!ImportedEvents(w, fp)
<1>1. /\ C \in Seq(Import!Marks) /\ \A g : Import!Unanchored(g, C)
    BY LegacyChainIs
<1>2. x \in Import!Marks /\ E \in Seq(Import!Marks) /\ Import!Unanchored(fp, E)
    BY DEF Import!Marks
<1>3. ASSUME NEW g, g # fp PROVE x # <<"anchor", g>>
    BY <1>3
<1>4. R = IF E # <<>> THEN Append(E, x)
          ELSE IF Import!Replaced(w, fp) # {} THEN Append(C, x) ELSE C
    BY DEF Import!ImportedEvents
<1>5. Anchors(w, fp) <=> E # <<>> \/ Import!Replaced(w, fp) # {}
    BY DEF Anchors
<1>x. x = <<"anchor", fp>>
    OBVIOUS
<1> HIDE DEF C, x, E, R
<1>6. ASSUME NEW S \in Seq(Import!Marks), Import!Unanchored(fp, S)
      PROVE  /\ Append(S, x) \in Seq(Import!Marks) /\ Len(Append(S, x)) \in Nat \ {0}
             /\ \A i \in 1 .. Len(Append(S, x)) : Append(S, x)[i] = x <=> i = Len(Append(S, x))
    <2>1. /\ Append(S, x) \in Seq(Import!Marks) /\ Len(S) \in Nat /\ Len(Append(S, x)) = Len(S) + 1
          /\ Append(S, x)[Len(S) + 1] = x
          /\ \A i \in 1 .. Len(S) : Append(S, x)[i] = S[i]
        BY <1>2
    <2>2. \A i \in 1 .. Len(S) : S[i] # x
        BY <1>6, <1>x DEF Import!Unanchored
    <2> QED
        BY <2>1, <2>2
<1>7. ASSUME NEW g, NEW S \in Seq(Import!Marks), Import!Unanchored(g, S), E = <<>> PROVE Grown(E, S, g)
    BY <1>7 DEF Import!Unanchored, Grown
<1>8. ASSUME NEW g, g # fp PROVE Grown(E, R, g)
    <2>1. CASE E # <<>>
        BY <1>2, <1>3, <1>4, <1>8, <2>1, GrownBy
    <2>2. CASE E = <<>> /\ Import!Replaced(w, fp) = {}
        BY <1>1, <1>4, <1>7, <2>2
    <2>3. CASE E = <<>> /\ Import!Replaced(w, fp) # {}
        <3>1. Import!Unanchored(g, Append(C, x)) /\ Append(C, x) \in Seq(Import!Marks)
            <4>1. x # <<"anchor", g>>
                BY <1>3, <1>8
            <4>2. Grown(C, Append(C, x), g) /\ Import!Unanchored(g, C)
                BY <1>1, <1>2, <4>1, GrownBy
            <4>3. Len(C) \in Nat /\ Len(Append(C, x)) \in Nat /\ Append(C, x) \in Seq(Import!Marks)
                BY <1>1, <1>2
            <4> QED
                BY <4>2, <4>3 DEF Grown, Import!Unanchored
        <3> QED
            BY <1>4, <1>7, <2>3, <3>1
    <2> QED
        BY <2>1, <2>2, <2>3
<1>9. ASSUME E = <<>> PROVE Import!IsPrefix(C, R)
    <2>1. R \in Seq(Import!Marks) /\ Len(C) <= Len(R) /\ \A i \in 1 .. Len(C) : R[i] = C[i]
        <3>1. Len(C) \in Nat /\ Append(C, x) \in Seq(Import!Marks) /\ Len(Append(C, x)) = Len(C) + 1
              /\ \A i \in 1 .. Len(C) : Append(C, x)[i] = C[i]
            BY <1>1, <1>2
        <3> QED
            BY <1>1, <1>4, <1>9, <3>1
    <2> QED
        BY <1>1, <2>1, ImportPrefixPlaces
<1>10. R \in Seq(Import!Marks)
    BY <1>1, <1>2, <1>4, <1>6
<1>11. ASSUME Anchors(w, fp)
       PROVE  Len(R) \in Nat \ {0} /\ \A i \in 1 .. Len(R) : R[i] = x <=> i = Len(R)
    BY <1>1, <1>2, <1>4, <1>5, <1>6, <1>11
<1>12. ASSUME ~Anchors(w, fp) PROVE Import!Unanchored(fp, R)
    BY <1>1, <1>4, <1>5, <1>12
<1> QED
    BY <1>8, <1>9, <1>10, <1>11, <1>12, <1>x DEF C, E, R

(* The row that an import writes is a ledger row.                          *)
LEMMA LedgerRowIs ==
    ASSUME Import!ImportConstants, Import!IInv, NEW p \in Importers, imp[p].pc = "published"
    PROVE  /\ Import!LedgerRow(p) \in Import!LedgerRecord
           /\ Import!LedgerRow(p).ws = imp[p].ws /\ Import!LedgerRow(p).root = imp[p].root
           /\ Import!LedgerRow(p).manifest = Import!Manifest(p)
           /\ Import!LedgerRow(p).copied = (events[imp[p].ws] = <<>>)
           /\ Import!LedgerRow(p).mappings = Import!Replaced(imp[p].ws, Import!Fingerprint(p))
           /\ Import!LedgerRow(p).anchor = IF Anchors(imp[p].ws, Import!Fingerprint(p))
                                           THEN Len(Import!ImportedEvents(imp[p].ws, Import!Fingerprint(p))) ELSE 0
<1> DEFINE w == imp[p].ws
           fp == Import!Fingerprint(p)
           a == IF Anchors(w, fp) THEN Len(Import!ImportedEvents(w, fp)) ELSE 0
           e == events[w] = <<>>
           m == Import!Manifest(p)
           R == Import!Replaced(w, fp)
           r == imp[p].root
<1>1. /\ imp[p] \in Import!Job /\ w \in Workspaces /\ r \in Roots /\ fp \in Import!Fingerprints
      /\ ledger[fp] = None
    <2>1. /\ imp[p] \in Import!Job /\ w \in Workspaces /\ r \in Roots /\ fp \in Import!Fingerprints
          /\ Import!ReadHeld(imp[p], source, seen) /\ Import!PlaceHeld(imp[p], staging, published, ledger)
        BY JobIs DEF Import!Fingerprint
    <2> QED
        BY <2>1 DEF Import!ReadHeld, Import!PlaceHeld, Import!Fingerprint
<1>2. m \in Nat \X Nat
    BY <1>1 DEF Import!Manifest, Import!Job
<1>3. R \in SUBSET Import!Ids
    <2>1. Import!Replaced(w, fp) \subseteq
             {q.id : q \in Contents[fp].rows} \cup Import!DaemonInstances(Contents[fp].rows)
        BY DEF Import!Replaced, Import!Collisions
    <2> QED
        BY <1>1, <2>1 DEF Import!Ids
<1>4. a \in Nat
    <2>1. events[w] \in Seq(Import!Marks) /\ Import!Unanchored(fp, events[w])
        BY <1>1 DEF Import!IInv, Import!TypeOK, Import!EventsHeld
    <2>2. Import!ImportedEvents(w, fp) \in Seq(Import!Marks)
        BY <1>1, <2>1, ImportedEventsAre
    <2> QED
        BY <2>2
<1>5. Import!LedgerRow(p) = [ws |-> w, manifest |-> m, copied |-> e, root |-> r, mappings |-> R, anchor |-> a]
    BY DEF Import!LedgerRow, Anchors
<1>6. e \in BOOLEAN
    OBVIOUS
<1> HIDE DEF w, fp, a, e, m, R, r
<1>7. Import!LedgerRow(p) \in Import!LedgerRecord
    BY <1>1, <1>2, <1>3, <1>4, <1>5, <1>6 DEF Import!LedgerRecord
<1>8. /\ Import!LedgerRow(p).ws = w /\ Import!LedgerRow(p).root = r /\ Import!LedgerRow(p).manifest = m
      /\ Import!LedgerRow(p).copied = e /\ Import!LedgerRow(p).mappings = R /\ Import!LedgerRow(p).anchor = a
    BY <1>5
<1> QED
    BY <1>7, <1>8 DEF w, fp, a, e, m, R, r

(* The commit: rows, chain and ledger row at once.                         *)
LEMMA CommitTransactionOK ==
    ASSUME Import!ImportConstants, Import!IInv, NEW p \in Importers, Import!CommitTransaction(p)
    PROVE  Import!IInv'
<1> DEFINE w == imp[p].ws
           fp == Import!Fingerprint(p)
           L == Import!LedgerRow(p)
           E == Import!ImportedEvents(w, fp)
<1>1. /\ Import!TypeOK /\ Import!SourceHeld /\ Import!JobsHeld(imp, source, seen, staging, published, ledger)
      /\ Import!AloneHeld(imp) /\ Import!SnapshotHeld(ledger, published, seen) /\ Import!EventsHeld(ledger, events)
    BY DEF Import!IInv
<1>2. /\ imp[p].pc = "published"
      /\ events' = [events EXCEPT ![w] = E]
      /\ ledger' = [ledger EXCEPT ![fp] = L]
      /\ imp' = [imp EXCEPT ![p] = Import!NoImport]
      /\ UNCHANGED <<source, seen, staging, published>>
    BY DEF Import!CommitTransaction, Import!sourceVars
<1>3. /\ imp[p] \in Import!Job /\ w \in Workspaces /\ imp[p].root \in Roots /\ fp \in Import!Fingerprints
      /\ Owns(imp, p, fp) /\ ledger[fp] = None
      /\ published[<<w, fp>>] = Import!Manifest(p) /\ Import!Manifest(p) \in seen[imp[p].root]
    <2>1. /\ imp[p] \in Import!Job /\ w \in Workspaces /\ imp[p].root \in Roots /\ fp \in Import!Fingerprints
          /\ Import!ReadHeld(imp[p], source, seen) /\ Import!PlaceHeld(imp[p], staging, published, ledger)
          /\ imp[p].staged => Owns(imp, p, fp)
        BY <1>2, JobIs DEF Import!Fingerprint
    <2> QED
        BY <1>2, <2>1 DEF Import!ReadHeld, Import!PlaceHeld, Import!Fingerprint, Import!Manifest, Import!ManifestOf
<1>4. /\ events \in [Workspaces -> Seq(Import!Marks)] /\ ledger \in [Import!Fingerprints -> Import!LedgerRecord \cup {None}]
      /\ imp \in [Importers -> Import!Job \cup {Import!NoImport}] /\ None \notin Import!LedgerRecord
    BY <1>1 DEF Import!TypeOK, Import!ImportConstants
<1>5. /\ L \in Import!LedgerRecord /\ L.ws = w /\ L.root = imp[p].root /\ L.manifest = Import!Manifest(p)
      /\ L.copied = (events[w] = <<>>) /\ L.mappings = Import!Replaced(w, fp)
      /\ L.anchor = IF Anchors(w, fp) THEN Len(E) ELSE 0
    BY <1>2, LedgerRowIs
<1>6. Import!Unanchored(fp, events[w]) /\ events[w] \in Seq(Import!Marks)
    BY <1>1, <1>3, <1>4 DEF Import!EventsHeld
<1>7. /\ E \in Seq(Import!Marks)
      /\ \A g : g # fp => Grown(events[w], E, g)
      /\ events[w] = <<>> => Import!IsPrefix(Import!LegacyChain(fp), E)
      /\ Anchors(w, fp) =>
            Len(E) \in Nat \ {0} /\ \A i \in 1 .. Len(E) : E[i] = <<"anchor", fp>> <=> i = Len(E)
      /\ ~Anchors(w, fp) => Import!Unanchored(fp, E)
    BY <1>3, <1>6, ImportedEventsAre
<1>8. ~Anchors(w, fp) => events[w] = <<>> /\ Import!Replaced(w, fp) = {}
    BY DEF Anchors
<1> HIDE DEF w, fp, L, E
<1>9. /\ events' \in [Workspaces -> Seq(Import!Marks)] /\ events'[w] = E
      /\ \A v \in Workspaces \ {w} : events'[v] = events[v]
    BY <1>2, <1>3, <1>4, <1>7
<1>10. /\ ledger' \in [Import!Fingerprints -> Import!LedgerRecord \cup {None}] /\ ledger'[fp] = L /\ L # None
       /\ \A g \in Import!Fingerprints \ {fp} : ledger'[g] = ledger[g]
    BY <1>2, <1>3, <1>4, <1>5
<1>11. imp' \in [Importers -> Import!Job \cup {Import!NoImport}]
    BY <1>2, <1>4
<1>12. Import!TypeOK'
    BY <1>1, <1>2, <1>9, <1>10, <1>11 DEF Import!TypeOK
<1>13. Import!JobsHeld(imp', source, seen, staging, published, ledger') /\ Import!AloneHeld(imp')
    <2>1. imp'[p] = Import!NoImport /\ \A q \in Importers \ {p} : imp'[q] = imp[q]
        BY <1>2, <1>4
    <2>2. ASSUME NEW q \in Importers, imp'[q] # Import!NoImport
          PROVE  Import!ReadHeld(imp'[q], source, seen) /\ Import!PlaceHeld(imp'[q], staging, published, ledger')
        <3>1. q # p /\ imp'[q] = imp[q] /\ imp[q] # Import!NoImport /\ imp[q] \in Import!Job
            BY <1>4, <2>1, <2>2
        <3>2. Import!ReadHeld(imp[q], source, seen) /\ Import!PlaceHeld(imp[q], staging, published, ledger)
            BY <1>1, <3>1 DEF Import!JobsHeld
        <3>3. imp[q].staged => imp[q].plan.logical # fp
            BY <1>3, <3>1 DEF Owns, Import!Staged
        <3>4. imp[q].plan.logical \in Import!Fingerprints
            BY <3>1 DEF Import!Job
        <3> QED
            BY <1>10, <3>1, <3>2, <3>3, <3>4 DEF Import!PlaceHeld
    <2>3. Import!AloneHeld(imp')
        BY <1>1, <2>1 DEF Import!AloneHeld, Import!Staged
    <2> QED
        BY <2>2, <2>3 DEF Import!JobsHeld
<1>14. Import!SnapshotHeld(ledger', published, seen)
    <2>1. ASSUME NEW g \in Import!Fingerprints, ledger'[g] # None
          PROVE  /\ published[<<ledger'[g].ws, g>>] = ledger'[g].manifest
                 /\ ledger'[g].manifest \in seen[ledger'[g].root]
        <3>1. CASE g = fp
            BY <1>3, <1>5, <1>10, <3>1
        <3>2. CASE g # fp
            BY <1>1, <1>10, <2>1, <3>2 DEF Import!SnapshotHeld
        <3> QED
            BY <3>1, <3>2
    <2> QED
        BY <2>1 DEF Import!SnapshotHeld
<1>15. Import!AuditHeld(L, fp, events')
    <2>1. CASE Anchors(w, fp)
        <3>1. L.anchor = Len(E) /\ Len(E) \in Nat \ {0}
            BY <1>5, <1>7, <2>1
        <3>2. \A i \in 1 .. Len(E) : E[i] = <<"anchor", fp>> <=> i = L.anchor
            BY <1>7, <2>1, <3>1
        <3>3. L.anchor # 0 /\ L.anchor \in 1 .. Len(E)
            BY <3>1
        <3> QED
            BY <1>5, <1>7, <1>9, <3>2, <3>3 DEF Import!AuditHeld
    <2>2. CASE ~Anchors(w, fp)
        <3>1. L.anchor = 0 /\ L.mappings = {} /\ L.copied /\ Import!IsPrefix(Import!LegacyChain(fp), E)
            BY <1>5, <1>7, <1>8, <2>2
        <3>2. \A i \in 1 .. Len(E) : E[i] # <<"anchor", fp>> /\ i # 0
            BY <1>7, <2>2 DEF Import!Unanchored
        <3> QED
            BY <1>5, <1>9, <3>1, <3>2 DEF Import!AuditHeld
    <2> QED
        BY <2>1, <2>2
<1>16. ASSUME NEW g \in Import!Fingerprints, g # fp
       PROVE  /\ ledger'[g] # None => Import!AuditHeld(ledger'[g], g, events')
              /\ ledger'[g] = None => \A v \in Workspaces : Import!Unanchored(g, events'[v])
    <2>1. \A v \in Workspaces : Grown(events[v], events'[v], g)
        <3>1. ASSUME NEW v \in Workspaces PROVE Grown(events[v], events'[v], g)
            <4>1. events[v] \in Seq(Import!Marks)
                BY <1>4
            <4>2. CASE v = w
                BY <1>7, <1>9, <1>16, <4>2
            <4>3. CASE v # w
                BY <1>9, <4>1, <4>3, GrownBy
            <4> QED
                BY <4>2, <4>3
        <3> QED
            BY <3>1
    <2>2. ledger'[g] = ledger[g]
        BY <1>10, <1>16
    <2>3. /\ ledger[g] # None => Import!AuditHeld(ledger[g], g, events')
          /\ ledger[g] = None => \A v \in Workspaces : Import!Unanchored(g, events'[v])
        BY <1>1, <1>4, <1>9, <2>1, EventsGrow
    <2> QED
        BY <2>2, <2>3
<1>17. Import!EventsHeld(ledger', events')
    BY <1>10, <1>15, <1>16 DEF Import!EventsHeld
<1>18. Import!SourceHeld'
    BY <1>1, <1>2 DEF Import!SourceHeld
<1> QED
    BY <1>2, <1>12, <1>13, <1>14, <1>17, <1>18 DEF Import!IInv

(* Nothing is imported at first.                                           *)
LEMMA ImportInitOK ==
    ASSUME Import!ImportConstants, Import!Init
    PROVE  Import!IInv
<1>1. /\ source = [r \in Roots |-> [image |-> Start[r], files |-> 1]]
      /\ seen = [r \in Roots |-> {<<Start[r], 1>>}]
      /\ imp = [p \in Importers |-> Import!NoImport]
      /\ staging = [d \in Import!Places |-> None] /\ published = staging
      /\ events = [w \in Workspaces |-> <<>>]
      /\ ledger = [f \in Import!Fingerprints |-> None]
    BY DEF Import!Init, Import!Places
<1>2. \A r \in Roots : Start[r] \in 1 .. Len(Images) /\ Start[r] \in Nat
    BY DEF Import!ImportConstants
<1>3. /\ source \in [Roots -> [image : 1 .. Len(Images), files : Nat]]
      /\ seen \in [Roots -> SUBSET (Nat \X Nat)]
    BY <1>1, <1>2
<1>4. /\ imp \in [Importers -> Import!Job \cup {Import!NoImport}]
      /\ staging \in [Import!Places -> (Nat \X Nat) \cup {None}]
      /\ published \in [Import!Places -> (Nat \X Nat) \cup {None}]
      /\ ledger \in [Import!Fingerprints -> Import!LedgerRecord \cup {None}]
    BY <1>1
<1>5. events \in [Workspaces -> Seq(Import!Marks)]
    BY <1>1
<1>6. Import!SourceHeld
    BY <1>1 DEF Import!SourceHeld
<1>7. Import!JobsHeld(imp, source, seen, staging, published, ledger) /\ Import!AloneHeld(imp)
    BY <1>1 DEF Import!JobsHeld, Import!AloneHeld, Import!Staged
<1>8. Import!SnapshotHeld(ledger, published, seen)
    BY <1>1 DEF Import!SnapshotHeld
<1>9. Import!EventsHeld(ledger, events)
    BY <1>1 DEF Import!EventsHeld, Import!Unanchored
<1> QED
    BY <1>3, <1>4, <1>5, <1>6, <1>7, <1>8, <1>9 DEF Import!IInv, Import!TypeOK

(* Every action keeps the invariant.                                       *)
LEMMA NextOK ==
    ASSUME Import!ImportConstants, Import!IInv, Import!Next
    PROVE  Import!IInv'
<1>1. CASE \E r \in Roots : Import!LegacyDatabaseWrite(r) \/ Import!LegacyFileWrite(r)
    BY <1>1, LegacyWritesOK
<1>2. CASE \E w \in Workspaces, id \in OwnIds : Import!OwnWork(w, id)
    BY <1>2, OwnWorkOK
<1>3. CASE \E p \in Importers, t \in Targets : Import!InspectDatabase(p, t[1], t[2])
    BY <1>3, InspectDatabaseOK
<1>4. CASE \E p \in Importers : Import!InspectFiles(p)
    BY <1>4, InspectFilesOK
<1>5. CASE \E p \in Importers : Import!CheckLedger(p)
    BY <1>5, CheckLedgerOK
<1>6. CASE \E p \in Importers : Import!AcquireStaging(p)
    BY <1>6, AcquireStagingOK
<1>7. CASE \E p \in Importers : Import!CaptureStaged(p)
    BY <1>7, CaptureStagedOK
<1>8. CASE \E p \in Importers : Import!StageFiles(p)
    BY <1>8, StageFilesOK
<1>9. CASE \E p \in Importers : Import!Abandon(p) \/ Import!RollbackTransaction(p)
    BY <1>9, AbandonOK
<1>10. CASE \E p \in Importers : Import!Publish(p)
    BY <1>10, PublishOK
<1>11. CASE \E p \in Importers : Import!CommitTransaction(p)
    BY <1>11, CommitTransactionOK
<1>12. CASE \E p \in Importers : Import!Crash(p)
    BY <1>12, ImportCrashOK
<1> QED
    BY <1>1, <1>2, <1>3, <1>4, <1>5, <1>6, <1>7, <1>8, <1>9, <1>10, <1>11, <1>12 DEF Import!Next

(* The invariant is about the variables alone.                             *)
LEMMA ImportStutterOK ==
    ASSUME Import!IInv, UNCHANGED Import!vars
    PROVE  Import!IInv'
<1>1. UNCHANGED <<source, seen, imp, staging, published, events, ledger>>
    BY DEF Import!vars
<1> QED
    BY <1>1 DEF Import!IInv, Import!TypeOK, Import!SourceHeld

(* The locks, the plans and the ledger agree in every state of an import.  *)
THEOREM ImportInvariant ==
    ASSUME Import!ImportConstants
    PROVE  Import!Spec => []Import!IInv
<1>1. Import!Init => Import!IInv
    BY ImportInitOK
<1>2. Import!IInv /\ [Import!Next]_(Import!vars) => Import!IInv'
    BY NextOK, ImportStutterOK
<1> QED
    BY <1>1, <1>2, PTL DEF Import!Spec

(* What the ledger says was imported stays on disk with the bytes it was   *)
(* sealed with (LedgerHasSnapshot).                                        *)
THEOREM SnapshotsKept ==
    ASSUME Import!ImportConstants
    PROVE  Import!Spec => []Import!LedgerHasSnapshot
<1>1. Import!IInv => Import!LedgerHasSnapshot
    BY DEF Import!IInv, Import!SnapshotHeld, Import!LedgerHasSnapshot, Import!Recorded, Import!PublishedImport
<1> QED
    BY <1>1, ImportInvariant, PTL

(* Database and files of an import were in the source at one moment        *)
(* (ImportedFromOneState).                                                 *)
THEOREM ImportsOneState ==
    ASSUME Import!ImportConstants
    PROVE  Import!Spec => []Import!ImportedFromOneState
<1>1. Import!IInv => Import!ImportedFromOneState
    <2> SUFFICES ASSUME Import!IInv, NEW fp \in Import!Fingerprints, ledger[fp] # None
                 PROVE  \E r \in Roots : ledger[fp].manifest \in seen[r]
        BY DEF Import!ImportedFromOneState, Import!Recorded
    <2>1. ledger[fp] \in Import!LedgerRecord /\ ledger[fp].manifest \in seen[ledger[fp].root]
        BY DEF Import!IInv, Import!TypeOK, Import!SnapshotHeld
    <2> QED
        BY <2>1 DEF Import!LedgerRecord
<1> QED
    BY <1>1, ImportInvariant, PTL

(* The check that a replay makes of the copied chain and of the anchor     *)
(* never fails (ImportAudited).                                            *)
THEOREM ImportsAudited ==
    ASSUME Import!ImportConstants
    PROVE  Import!Spec => []Import!ImportAudited
<1>1. Import!IInv => Import!ImportAudited
    <2> SUFFICES ASSUME Import!IInv, NEW fp \in Import!Fingerprints, ledger[fp] # None
                 PROVE  Import!RecordedResult(fp, ledger[fp].ws)
        BY DEF Import!ImportAudited, Import!Recorded
    <2> DEFINE L == ledger[fp]
               ev == events[L.ws]
    <2>1. L \in Import!LedgerRecord /\ Import!AuditHeld(L, fp, events) /\ events \in [Workspaces -> Seq(Import!Marks)]
        BY DEF Import!IInv, Import!TypeOK, Import!EventsHeld
    <2>2. L.ws \in Workspaces /\ L.anchor \in Nat /\ ev \in Seq(Import!Marks)
        BY <2>1 DEF Import!LedgerRecord
    <2>3. Import!ReplayedEvents(fp)
        BY <2>1 DEF Import!ReplayedEvents, Import!AuditHeld
    <2>4. DOMAIN ev = 1 .. Len(ev)
        BY <2>2
    <2>5. /\ L.anchor # 0 => L.anchor \in 1 .. Len(ev)
          /\ L.anchor = 0 => L.mappings = {}
          /\ \A i \in 1 .. Len(ev) : ev[i] = <<"anchor", fp>> <=> i = L.anchor
        BY <2>1 DEF Import!AuditHeld
    <2>6. Len(ev) \in Nat
        BY <2>2
    <2> HIDE DEF ev, L
    <2>7. {i \in DOMAIN ev : ev[i] = <<"anchor", fp>>} = IF L.anchor = 0 THEN {} ELSE {L.anchor}
        BY <2>2, <2>4, <2>5, <2>6
    <2>8. Import!ReplayedAnchor(fp)
        BY <2>5, <2>7 DEF Import!ReplayedAnchor, ev, L
    <2> QED
        BY <2>3, <2>8 DEF Import!RecordedResult
<1> QED
    BY <1>1, ImportInvariant, PTL

(* A row of the ledger is final: no later attempt, with the same content   *)
(* or another, changes or removes it.                                      *)
THEOREM LedgerIsFinal ==
    ASSUME Import!ImportConstants
    PROVE  Import!Spec =>
              [][\A fp \in Import!Fingerprints : ledger[fp] # None => ledger'[fp] = ledger[fp]]_(Import!vars)
<1> DEFINE Final == \A fp \in Import!Fingerprints : ledger[fp] # None => ledger'[fp] = ledger[fp]
<1>1. ASSUME Import!IInv, Import!Next PROVE Final
    <2>1. CASE \E p \in Importers : Import!CommitTransaction(p)
        <3>1. PICK p \in Importers : Import!CommitTransaction(p)
            BY <2>1
        <3>2. imp[p].pc = "published" /\ ledger' = [ledger EXCEPT ![Import!Fingerprint(p)] = Import!LedgerRow(p)]
            BY <3>1 DEF Import!CommitTransaction
        <3>3. Import!ReadHeld(imp[p], source, seen) /\ Import!PlaceHeld(imp[p], staging, published, ledger)
            BY <1>1, <3>2, JobIs
        <3>4. ledger[Import!Fingerprint(p)] = None
            BY <3>2, <3>3 DEF Import!ReadHeld, Import!PlaceHeld, Import!Fingerprint
        <3>5. ledger \in [Import!Fingerprints -> Import!LedgerRecord \cup {None}]
            BY <1>1 DEF Import!IInv, Import!TypeOK
        <3> QED
            BY <3>2, <3>4, <3>5
    <2>2. CASE ~ \E p \in Importers : Import!CommitTransaction(p)
        <3>1. UNCHANGED ledger
            BY <1>1, <2>2
            DEF Import!Next, Import!LegacyDatabaseWrite, Import!LegacyFileWrite, Import!WriteSource, Import!OwnWork, Import!InspectDatabase,
                Import!InspectFiles, Import!CheckLedger, Import!AcquireStaging, Import!CaptureStaged, Import!StageFiles, Import!Abandon,
                Import!Publish, Import!RollbackTransaction, Import!Crash, Import!dbVars
        <3> QED
            BY <3>1
    <2> QED
        BY <2>1, <2>2
<1>2. Import!IInv /\ [Import!Next]_(Import!vars) => [Final]_(Import!vars)
    BY <1>1
<1> QED
    BY <1>2, ImportInvariant, PTL DEF Import!Spec
=============================================================================
