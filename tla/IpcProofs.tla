----------------------------- MODULE IpcProofs -----------------------------
(***************************************************************************)
(* What the IPC server promises its clients.  Write requests take effect   *)
(* in the order they were received, a preparation runs alone in its        *)
(* workspace and is committed once, for any capacities and any number of   *)
(* requests: IInv of IpcWriter is inductive.  Whatever is committed        *)
(* between the reads of a stream, the client gets every event of the task  *)
(* once and in order, each with a status that is not older: IInv of        *)
(* TaskStream is inductive.                                                *)
(***************************************************************************)
EXTENDS IpcWriter, FiniteSetTheorems, SequenceTheorems, WellFoundedInduction, TLAPS

(* A set of natural numbers has a smallest element. *)
LEMMA Smallest ==
    ASSUME NEW T \in SUBSET Nat, T # {}
    PROVE  \E n \in T : \A m \in T : n <= m
<1>1. IsWellFoundedOn(OpToRel(<, Nat), Nat)
    BY NatLessThanWellFounded
<1> DEFINE R == OpToRel(<, Nat)
<1>2. \A x, y \in Nat : y < x => <<y, x>> \in R
    BY Zenon DEF OpToRel
<1> HIDE DEF R
<1>3. IsWellFoundedOn(R, Nat)
    BY <1>1 DEF R
<1>4. PICK n \in T : \A y \in T : ~ (<<y, n>> \in R)
    BY <1>3, WFMin
<1>5. ASSUME NEW m \in T PROVE n <= m
    <2>1. m \in Nat /\ n \in Nat
        OBVIOUS
    <2>2. ~ (m < n)
        BY <1>2, <1>4, <2>1
    <2> QED
        BY <2>1, <2>2
<1> QED
    BY <1>5

(* Min of the community modules is that element. *)
LEMMA MinOf ==
    ASSUME NEW T \in SUBSET Nat, T # {}
    PROVE  Min(T) \in T /\ \A m \in T : Min(T) <= m
BY Smallest DEF Min

(* What start_available_generations starts fits into the room there is. *)
LEMMA TakenFits ==
    ASSUME NEW s, SchedTyped(s), Room(s) \in Nat
    PROVE  /\ TakenReady(s) \in 0 .. Len(s.ready)
           /\ IsFiniteSet(ActiveAmong(s, TakenReady(s)))
           /\ Cardinality(ActiveAmong(s, TakenReady(s))) <= Room(s)
<1> DEFINE T == {n \in 0 .. Len(s.ready) :
                    n = Len(s.ready) \/ Cardinality(ActiveAmong(s, n)) >= Room(s)}
           k == TakenReady(s)
<1>1. Len(s.ready) \in Nat
    BY DEF SchedTyped
<1>2. T \in SUBSET Nat /\ T # {}
    BY <1>1
<1>3. k = Min(T)
    BY DEF TakenReady
<1>4. k \in T /\ \A m \in T : k <= m
    BY <1>2, <1>3, MinOf
<1>5. k \in 0 .. Len(s.ready) /\ k \in Nat
    BY <1>1, <1>4
<1>6. ASSUME NEW n \in Nat
      PROVE  IsFiniteSet(ActiveAmong(s, n)) /\ Cardinality(ActiveAmong(s, n)) \in Nat
    <2> DEFINE D == {j \in 1 .. n : IsActive(s, s.ready[j])}
    <2>1. IsFiniteSet(1 .. n)
        BY FS_Interval
    <2>2. IsFiniteSet(D)
        BY <2>1, FS_Subset
    <2> DEFINE f == [i \in D |-> s.ready[i]]
    <2>3. ActiveAmong(s, n) = {f[i] : i \in D}
        BY DEF ActiveAmong
    <2> HIDE DEF D
    <2>4. f \in Surjection(D, ActiveAmong(s, n))
        BY <2>3 DEF Surjection
    <2> HIDE DEF f
    <2>5. IsFiniteSet(ActiveAmong(s, n))
        BY <2>2, <2>4, FS_Surjection
    <2> QED
        BY <2>5, FS_CardinalityType
<1>7. CASE k = 0
    <2>1. ActiveAmong(s, 0) = {}
        BY DEF ActiveAmong
    <2>2. Cardinality(ActiveAmong(s, 0)) = 0
        BY <2>1, FS_EmptySet
    <2> QED
        BY <1>5, <1>6, <1>7, <2>2
<1>8. CASE k > 0
    <2>0. k - 1 \in Nat /\ k - 1 \in 0 .. Len(s.ready) /\ k - 1 # Len(s.ready)
        BY <1>1, <1>5, <1>8
    <2> HIDE DEF k
    <2>1. k - 1 \notin T
        BY <1>4, <2>0
    <2>2. ~(Cardinality(ActiveAmong(s, k - 1)) >= Room(s))
        BY <2>0, <2>1
    <2>3. ActiveAmong(s, k) \subseteq ActiveAmong(s, k - 1) \cup {s.ready[k]}
        <3>1. \A i \in 1 .. k : i = k \/ i \in 1 .. k - 1
            BY <1>5
        <3> QED
            BY <3>1 DEF ActiveAmong
    <2> DEFINE A == ActiveAmong(s, k - 1)
               B == ActiveAmong(s, k)
               x == s.ready[k]
    <2>4. IsFiniteSet(A) /\ Cardinality(A) \in Nat
        BY <1>6, <2>0
    <2>5. Cardinality(A) < Room(s)
        BY <2>2, <2>4
    <2>6. B \subseteq A \cup {x} /\ IsFiniteSet(B) /\ Cardinality(B) \in Nat
        BY <1>5, <1>6, <2>3
    <2> HIDE DEF A, B, x
    <2>7. IsFiniteSet(A \cup {x}) /\ Cardinality(A \cup {x}) <= Cardinality(A) + 1
        <3>1. CASE x \in A
            <4>1. A \cup {x} = A
                BY <3>1
            <4>2. Cardinality(A) <= Cardinality(A) + 1
                BY <2>4
            <4> QED
                BY <2>4, <4>1, <4>2
        <3>2. CASE x \notin A
            BY <2>4, <3>2, FS_AddElement
        <3> QED
            BY <3>1, <3>2
    <2>8. Cardinality(B) <= Cardinality(A \cup {x}) /\ Cardinality(A \cup {x}) \in Nat
        BY <2>6, <2>7, FS_Subset, FS_CardinalityType
    <2>9. Cardinality(B) <= Room(s)
        BY <2>4, <2>5, <2>6, <2>7, <2>8
    <2> QED
        BY <1>5, <2>6, <2>9 DEF B, k
<1> QED
    BY <1>5, <1>7, <1>8

(* A sequence of which the first elements were taken. *)
LEMMA SubSeqFacts ==
    ASSUME NEW S, NEW q \in Seq(S), NEW n \in 0 .. Len(q)
    PROVE  LET r == SubSeq(q, n + 1, Len(q))
           IN  /\ r \in Seq(S) /\ Len(r) = Len(q) - n /\ Len(q) \in Nat
               /\ \A i \in 1 .. Len(r) : r[i] = q[i + n] /\ i + n \in 1 .. Len(q)
OBVIOUS

(* The fields start_available_generations leaves. *)
LEMMA StartIs ==
    ASSUME NEW s, SchedTyped(s)
    PROVE  LET t == StartAvailable(s)
               n == TakenReady(s)
               started == ActiveAmong(s, n)
           IN  /\ t = [admissions |-> t.admissions, lanes |-> t.lanes, gens |-> t.gens,
                       nextGen |-> t.nextGen, ready |-> t.ready, jobs |-> t.jobs]
               /\ t.admissions = s.admissions /\ t.lanes = s.lanes /\ t.nextGen = s.nextGen
               /\ t.ready = SubSeq(s.ready, n + 1, Len(s.ready))
               /\ t.gens = [g \in DOMAIN s.gens |->
                              IF g \in started THEN [s.gens[g] EXCEPT !.state = "running"]
                              ELSE s.gens[g]]
               /\ t.jobs = [g \in DOMAIN s.jobs \cup started |->
                              IF g \in started THEN "running" ELSE s.jobs[g]]
<1> DEFINE n == TakenReady(s)
           started == ActiveAmong(s, n)
           gs == [g \in DOMAIN s.gens |->
                              IF g \in started THEN [s.gens[g] EXCEPT !.state = "running"]
                              ELSE s.gens[g]]
           js == [g \in DOMAIN s.jobs \cup started |->
                              IF g \in started THEN "running" ELSE s.jobs[g]]
           rd == SubSeq(s.ready, n + 1, Len(s.ready))
           t == StartAvailable(s)
<1>1. t = [s EXCEPT !.ready = rd, !.gens = gs, !.jobs = js]
    BY DEF StartAvailable, SchedTyped
<1>2. s = [admissions |-> s.admissions, lanes |-> s.lanes, gens |-> s.gens,
             nextGen |-> s.nextGen, ready |-> s.ready, jobs |-> s.jobs]
    BY DEF SchedTyped
<1> HIDE DEF gs, js, rd, t
<1>3. t = [admissions |-> s.admissions, lanes |-> s.lanes, gens |-> gs,
             nextGen |-> s.nextGen, ready |-> rd, jobs |-> js]
    BY <1>1, <1>2
<1>4. /\ t = [admissions |-> t.admissions, lanes |-> t.lanes, gens |-> t.gens,
                       nextGen |-> t.nextGen, ready |-> t.ready, jobs |-> t.jobs]
      /\ t.admissions = s.admissions /\ t.lanes = s.lanes /\ t.nextGen = s.nextGen
      /\ t.ready = rd /\ t.gens = gs /\ t.jobs = js
    BY <1>3
<1> QED
    BY <1>4 DEF gs, js, rd, t

(* Two tables with the same generations, of which some were started. *)
SameGens(s, t) ==
    /\ DOMAIN t.gens = DOMAIN s.gens
    /\ \A g \in DOMAIN s.gens :
          /\ t.gens[g].ws = s.gens[g].ws /\ t.gens[g].sem = s.gens[g].sem
          /\ t.gens[g].remaining = s.gens[g].remaining
          /\ \/ t.gens[g].state = s.gens[g].state
             \/ s.gens[g].state = "queued" /\ t.gens[g].state = "running"

(* What every operation of the scheduler keeps, also between its parts. *)
Core(s) == SchedTyped(s) /\ LanesHeld(s) /\ ReadyHeld(s) /\ JobsHeld(s)

(* start_available_generations. *)
LEMMA StartOK ==
    ASSUME MaxJobs \in Nat, NEW s, Core(s)
    PROVE  LET t == StartAvailable(s)
           IN  /\ Core(t) /\ SameGens(s, t)
               /\ t.admissions = s.admissions /\ t.lanes = s.lanes /\ t.nextGen = s.nextGen
<1> DEFINE t == StartAvailable(s)
           n == TakenReady(s)
           started == ActiveAmong(s, n)
<1>0. SchedTyped(s) /\ LanesHeld(s) /\ ReadyHeld(s) /\ JobsHeld(s)
    BY DEF Core
<1>1. /\ t = [admissions |-> t.admissions, lanes |-> t.lanes, gens |-> t.gens,
                       nextGen |-> t.nextGen, ready |-> t.ready, jobs |-> t.jobs]
      /\ t.admissions = s.admissions /\ t.lanes = s.lanes /\ t.nextGen = s.nextGen
      /\ t.ready = SubSeq(s.ready, n + 1, Len(s.ready))
      /\ t.gens = [g \in DOMAIN s.gens |->
                              IF g \in started THEN [s.gens[g] EXCEPT !.state = "running"]
                              ELSE s.gens[g]]
      /\ t.jobs = [g \in DOMAIN s.jobs \cup started |->
                              IF g \in started THEN "running" ELSE s.jobs[g]]
    BY <1>0, StartIs
<1>2. Cardinality(DOMAIN s.jobs) \in Nat /\ Cardinality(DOMAIN s.jobs) <= MaxJobs
      /\ IsFiniteSet(DOMAIN s.jobs)
    BY <1>0, FS_CardinalityType DEF JobsHeld
<1>3. Room(s) \in Nat /\ Cardinality(DOMAIN s.jobs) + Room(s) = MaxJobs
    BY <1>2 DEF Room
<1>4. n \in 0 .. Len(s.ready) /\ IsFiniteSet(started) /\ Cardinality(started) <= Room(s)
    BY <1>0, <1>3, TakenFits
<1>5. \A g : g \in started <=> \E i \in 1 .. n : g = s.ready[i] /\ IsActive(s, s.ready[i])
    BY DEF ActiveAmong
<1>6. s.ready \in Seq(Nat) /\ Len(s.ready) \in Nat /\ n \in Nat
    BY <1>0, <1>4 DEF SchedTyped
<1>7. \A g \in started : /\ g \in DOMAIN s.gens /\ s.gens[g].state = "queued" /\ IsActive(s, g)
                         /\ \E i \in 1 .. n : g = s.ready[i]
    <2>1. 1 .. n \subseteq 1 .. Len(s.ready)
        BY <1>4, <1>6
    <2>2. \A g : IsActive(s, g) => g \in DOMAIN s.gens
        BY DEF IsActive
    <2> QED
        BY <1>0, <1>5, <2>1, <2>2 DEF ReadyHeld
<1> HIDE DEF started, n, t
<1>8. \A g \in DOMAIN s.gens :
          /\ t.gens[g] = [ws |-> t.gens[g].ws, sem |-> t.gens[g].sem,
                          remaining |-> t.gens[g].remaining, state |-> t.gens[g].state]
          /\ t.gens[g].ws = s.gens[g].ws /\ t.gens[g].sem = s.gens[g].sem
          /\ t.gens[g].remaining = s.gens[g].remaining
          /\ g \in started => t.gens[g].state = "running"
          /\ g \notin started => t.gens[g].state = s.gens[g].state
    <2> SUFFICES ASSUME NEW g \in DOMAIN s.gens
                 PROVE  /\ t.gens[g] = [ws |-> t.gens[g].ws, sem |-> t.gens[g].sem,
                          remaining |-> t.gens[g].remaining, state |-> t.gens[g].state]
                        /\ t.gens[g].ws = s.gens[g].ws /\ t.gens[g].sem = s.gens[g].sem
                        /\ t.gens[g].remaining = s.gens[g].remaining
                        /\ g \in started => t.gens[g].state = "running"
                        /\ g \notin started => t.gens[g].state = s.gens[g].state
        OBVIOUS
    <2>1. s.gens[g] = [ws |-> s.gens[g].ws, sem |-> s.gens[g].sem,
                          remaining |-> s.gens[g].remaining, state |-> s.gens[g].state]
        BY <1>0 DEF SchedTyped
    <2>2. CASE g \in started
        <3>1. t.gens[g] = [s.gens[g] EXCEPT !.state = "running"]
            BY <1>1, <2>2
        <3>2. t.gens[g] = [ws |-> s.gens[g].ws, sem |-> s.gens[g].sem,
                          remaining |-> s.gens[g].remaining, state |-> "running"]
            BY <2>1, <3>1
        <3> QED
            BY <2>2, <3>2
    <2>3. CASE g \notin started
        <3>1. t.gens[g] = s.gens[g]
            BY <1>1, <2>3
        <3> QED
            BY <2>1, <2>3, <3>1
    <2> QED
        BY <2>2, <2>3
<1>9. DOMAIN t.gens = DOMAIN s.gens /\ DOMAIN t.jobs = DOMAIN s.jobs \cup started
    BY <1>1
<1>10. SameGens(s, t)
    BY <1>7, <1>8, <1>9 DEF SameGens
<1>11. \A g : IsActive(t, g) <=> IsActive(s, g)
    BY <1>1, <1>8, <1>9 DEF IsActive
<1>12. t.ready \in Seq(Nat) /\ Len(t.ready) = Len(s.ready) - n
       /\ \A i \in 1 .. Len(t.ready) : t.ready[i] = s.ready[i + n] /\ i + n \in 1 .. Len(s.ready)
    <2> DEFINE r == SubSeq(s.ready, n + 1, Len(s.ready))
    <2>1. n \in 0 .. Len(s.ready) /\ s.ready \in Seq(Nat)
        BY <1>4, <1>6
    <2>2. /\ r \in Seq(Nat) /\ Len(r) = Len(s.ready) - n
          /\ \A i \in 1 .. Len(r) : r[i] = s.ready[i + n] /\ i + n \in 1 .. Len(s.ready)
        BY <2>1, SubSeqFacts
    <2> HIDE DEF r
    <2>3. t.ready = r
        BY <1>1 DEF r
    <2> QED
        BY <2>2, <2>3
<1>13. \A i \in 1 .. Len(t.ready) : t.ready[i] \notin started
    <2> SUFFICES ASSUME NEW i \in 1 .. Len(t.ready), t.ready[i] \in started PROVE FALSE
        OBVIOUS
    <2>1. PICK j \in 1 .. n : t.ready[i] = s.ready[j]
        BY <1>7
    <2>2. s.ready[i + n] = s.ready[j] /\ i + n \in 1 .. Len(s.ready) /\ j \in 1 .. Len(s.ready)
          /\ i + n # j
        BY <1>4, <1>6, <1>12, <2>1
    <2> QED
        BY <1>0, <2>2 DEF ReadyHeld
<1>14. SchedTyped(t)
    <2>1. \A g \in DOMAIN t.gens :
          /\ g \in 1 .. t.nextGen - 1
          /\ t.gens[g] = [ws |-> t.gens[g].ws, sem |-> t.gens[g].sem,
                          remaining |-> t.gens[g].remaining, state |-> t.gens[g].state]
          /\ t.gens[g].remaining \in Nat /\ t.gens[g].state \in GenStates
        BY <1>0, <1>1, <1>8, <1>9 DEF SchedTyped, GenStates
    <2>2. \A g \in DOMAIN t.jobs : t.jobs[g] \in {"running", "prepared", "refused"}
        BY <1>0, <1>1 DEF SchedTyped
    <2>3. /\ t.gens = [g \in DOMAIN t.gens |-> t.gens[g]]
          /\ t.jobs = [g \in DOMAIN t.jobs |-> t.jobs[g]]
        BY <1>1
    <2>4. /\ t.admissions \in Seq(AdmissionRecord) /\ t.nextGen \in Nat \ {0}
          /\ t.lanes = [w \in DOMAIN t.lanes |-> t.lanes[w]]
        BY <1>0, <1>1 DEF SchedTyped
    <2> QED
        BY <1>1, <1>12, <2>1, <2>2, <2>3, <2>4 DEF SchedTyped
<1>15. LanesHeld(t)
    <2> SUFFICES ASSUME NEW w \in DOMAIN s.lanes
                 PROVE  LET q == s.lanes[w].queued
                        IN  /\ s.lanes[w] = [active |-> s.lanes[w].active, queued |-> q]
                            /\ s.lanes[w].active \in 1 .. s.nextGen - 1
                            /\ q \in Seq(Nat)
                            /\ \A i \in 1 .. Len(q) :
                                  /\ q[i] \in DOMAIN t.gens
                                  /\ t.gens[q[i]].ws = w /\ t.gens[q[i]].state = "queued"
                                  /\ q[i] # s.lanes[w].active
                            /\ \A i, j \in 1 .. Len(q) : q[i] = q[j] => i = j
        BY <1>1 DEF LanesHeld
    <2> DEFINE q == s.lanes[w].queued
    <2>1. /\ s.lanes[w] = [active |-> s.lanes[w].active, queued |-> q]
          /\ s.lanes[w].active \in 1 .. s.nextGen - 1
          /\ q \in Seq(Nat)
          /\ \A i \in 1 .. Len(q) :
                  /\ q[i] \in DOMAIN s.gens
                  /\ s.gens[q[i]].ws = w /\ s.gens[q[i]].state = "queued"
                  /\ q[i] # s.lanes[w].active
          /\ \A i, j \in 1 .. Len(q) : q[i] = q[j] => i = j
        BY <1>0 DEF LanesHeld
    <2> HIDE DEF q
    <2>2. \A i \in 1 .. Len(q) : q[i] \notin started
        <3> SUFFICES ASSUME NEW i \in 1 .. Len(q), q[i] \in started PROVE FALSE
            OBVIOUS
        <3>1. s.lanes[s.gens[q[i]].ws].active = q[i]
            BY <1>7 DEF IsActive
        <3> QED
            BY <2>1, <3>1
    <2> QED
        BY <1>8, <1>9, <2>1, <2>2 DEF q
<1>16. ReadyHeld(t)
    <2>1. \A i \in 1 .. Len(t.ready) : IsActive(t, t.ready[i]) /\ t.gens[t.ready[i]].state = "queued"
        <3> SUFFICES ASSUME NEW i \in 1 .. Len(t.ready)
                     PROVE  IsActive(t, t.ready[i]) /\ t.gens[t.ready[i]].state = "queued"
            OBVIOUS
        <3>1. /\ IsActive(s, t.ready[i]) /\ s.gens[t.ready[i]].state = "queued"
            BY <1>0, <1>12 DEF ReadyHeld
        <3>2. t.ready[i] \in DOMAIN s.gens
            BY <3>1 DEF IsActive
        <3> QED
            BY <1>8, <1>11, <1>13, <3>1, <3>2
    <2>2. \A i, j \in 1 .. Len(t.ready) : t.ready[i] = t.ready[j] => i = j
        <3> SUFFICES ASSUME NEW i \in 1 .. Len(t.ready), NEW j \in 1 .. Len(t.ready),
                            t.ready[i] = t.ready[j]
                     PROVE  i = j
            OBVIOUS
        <3>1. /\ i + n \in 1 .. Len(s.ready) /\ j + n \in 1 .. Len(s.ready)
              /\ s.ready[i + n] = s.ready[j + n]
            BY <1>12
        <3>2. \A a, b \in 1 .. Len(s.ready) : s.ready[a] = s.ready[b] => a = b
            BY <1>0 DEF ReadyHeld
        <3>3. i + n = j + n
            BY <3>1, <3>2
        <3> QED
            BY <1>6, <1>12, <3>3
    <2> QED
        BY <2>1, <2>2 DEF ReadyHeld
<1>17. JobsHeld(t)
    <2>1. \A g \in DOMAIN t.jobs : IsActive(t, g) /\ t.gens[g].state = "running"
        <3> SUFFICES ASSUME NEW g \in DOMAIN t.jobs
                     PROVE  IsActive(t, g) /\ t.gens[g].state = "running"
            OBVIOUS
        <3>1. CASE g \in started
            BY <1>7, <1>8, <1>11, <3>1
        <3>2. CASE g \notin started
            <4>1. IsActive(s, g) /\ s.gens[g].state = "running"
                BY <1>0, <1>9, <3>2 DEF JobsHeld
            <4>2. g \in DOMAIN s.gens
                BY <4>1 DEF IsActive
            <4> QED
                BY <1>8, <1>11, <3>2, <4>1, <4>2
        <3> QED
            BY <3>1, <3>2
    <2>2. /\ IsFiniteSet(DOMAIN s.jobs \cup started)
          /\ Cardinality(DOMAIN s.jobs \cup started) <= MaxJobs
        <3> DEFINE J == DOMAIN s.jobs
        <3>1. IsFiniteSet(J) /\ IsFiniteSet(started)
            BY <1>2, <1>4
        <3> HIDE DEF J
        <3>2. /\ IsFiniteSet(J \cup started) /\ IsFiniteSet(J \cap started)
              /\ Cardinality(J \cup started) =
                    Cardinality(J) + Cardinality(started) - Cardinality(J \cap started)
            BY <3>1, FS_Union, FS_Intersection
        <3>3. /\ Cardinality(J) \in Nat /\ Cardinality(started) \in Nat
              /\ Cardinality(J \cap started) \in Nat
            BY <3>1, <3>2, FS_CardinalityType
        <3>4. Cardinality(J) + Room(s) = MaxJobs
            BY <1>3 DEF J
        <3>5. Cardinality(J \cup started) <= MaxJobs
            BY <1>3, <1>4, <3>2, <3>3, <3>4
        <3> QED
            BY <3>2, <3>5 DEF J
    <2> QED
        BY <1>9, <2>1, <2>2 DEF JobsHeld
<1> QED
    BY <1>1, <1>10, <1>14, <1>15, <1>16, <1>17 DEF Core, t

(* Functions that gain or lose an element. *)
LEMMA TableFacts ==
    ASSUME NEW f, NEW x, NEW v
    PROVE  /\ DOMAIN With(f, x, v) = DOMAIN f \cup {x} /\ With(f, x, v)[x] = v
           /\ \A y \in DOMAIN f : y # x => With(f, x, v)[y] = f[y]
           /\ With(f, x, v) = [y \in DOMAIN With(f, x, v) |-> With(f, x, v)[y]]
           /\ DOMAIN Without(f, x) = DOMAIN f \ {x}
           /\ \A y \in DOMAIN f : y # x => Without(f, x)[y] = f[y]
           /\ Without(f, x) = [y \in DOMAIN Without(f, x) |-> Without(f, x)[y]]
BY DEF With, Without

(* A sequence with one element appended, and behind its first element. *)
LEMMA SeqFacts ==
    ASSUME NEW S, NEW q \in Seq(S)
    PROVE  /\ Len(q) \in Nat /\ \A i \in 1 .. Len(q) : q[i] \in S
           /\ \A e \in S : /\ Append(q, e) \in Seq(S) /\ Len(Append(q, e)) = Len(q) + 1
                           /\ \A i \in 1 .. Len(q) : Append(q, e)[i] = q[i]
                           /\ Append(q, e)[Len(q) + 1] = e
           /\ q # << >> => /\ Len(q) > 0 /\ Head(q) = q[1] /\ Tail(q) \in Seq(S)
                           /\ Len(Tail(q)) = Len(q) - 1
                           /\ \A i \in 1 .. Len(q) - 1 : Tail(q)[i] = q[i + 1]
OBVIOUS

(* The scheduler with its generations and their counter replaced. *)
LEMMA NumberedGens ==
    ASSUME NEW s, NEW n, NEW x,
           s = [admissions |-> s.admissions, lanes |-> s.lanes, gens |-> s.gens,
                nextGen |-> s.nextGen, ready |-> s.ready, jobs |-> s.jobs]
    PROVE  [s EXCEPT !.nextGen = n, !.gens = x] =
               [admissions |-> s.admissions, lanes |-> s.lanes, gens |-> x,
                nextGen |-> n, ready |-> s.ready, jobs |-> s.jobs]
<1> DEFINE A == s.admissions
           L == s.lanes
           G == s.gens
           N == s.nextGen
           R == s.ready
           J == s.jobs
<1>0. s = [admissions |-> A, lanes |-> L, gens |-> G,
           nextGen |-> N, ready |-> R, jobs |-> J]
    OBVIOUS
<1> HIDE DEF A, L, G, N, R, J
<1>1. [s EXCEPT !.nextGen = n, !.gens = x] =
          [admissions |-> A, lanes |-> L, gens |-> x,
           nextGen |-> n, ready |-> R, jobs |-> J]
    <2> DEFINE u == [s EXCEPT !.nextGen = n]
    <2>1. u = [admissions |-> A, lanes |-> L, gens |-> G,
               nextGen |-> n, ready |-> R, jobs |-> J]
        BY <1>0
    <2>2. [s EXCEPT !.nextGen = n, !.gens = x] = [u EXCEPT !.gens = x]
        OBVIOUS
    <2> HIDE DEF u
    <2>3. [u EXCEPT !.gens = x] =
              [admissions |-> A, lanes |-> L, gens |-> x,
               nextGen |-> n, ready |-> R, jobs |-> J]
        BY <2>1
    <2> QED
        BY <2>2, <2>3
<1> QED
    BY <1>1 DEF A, L, G, N, R, J

(* The scheduler with its lanes and its ready generations replaced. *)
LEMMA NewLanes ==
    ASSUME NEW s, NEW l, NEW r,
           s = [admissions |-> s.admissions, lanes |-> s.lanes, gens |-> s.gens,
                nextGen |-> s.nextGen, ready |-> s.ready, jobs |-> s.jobs]
    PROVE  [s EXCEPT !.lanes = l, !.ready = r] =
               [admissions |-> s.admissions, lanes |-> l, gens |-> s.gens,
                nextGen |-> s.nextGen, ready |-> r, jobs |-> s.jobs]
<1> DEFINE A == s.admissions
           L == s.lanes
           G == s.gens
           N == s.nextGen
           R == s.ready
           J == s.jobs
<1>0. s = [admissions |-> A, lanes |-> L, gens |-> G,
           nextGen |-> N, ready |-> R, jobs |-> J]
    OBVIOUS
<1> HIDE DEF A, L, G, N, R, J
<1>1. [s EXCEPT !.lanes = l, !.ready = r] =
          [admissions |-> A, lanes |-> l, gens |-> G,
           nextGen |-> N, ready |-> r, jobs |-> J]
    <2> DEFINE u == [s EXCEPT !.lanes = l]
    <2>1. u = [admissions |-> A, lanes |-> l, gens |-> G,
               nextGen |-> N, ready |-> R, jobs |-> J]
        BY <1>0
    <2>2. [s EXCEPT !.lanes = l, !.ready = r] = [u EXCEPT !.ready = r]
        OBVIOUS
    <2> HIDE DEF u
    <2>3. [u EXCEPT !.ready = r] =
              [admissions |-> A, lanes |-> l, gens |-> G,
               nextGen |-> N, ready |-> r, jobs |-> J]
        BY <2>1
    <2> QED
        BY <2>2, <2>3
<1> QED
    BY <1>1 DEF A, L, G, N, R, J

(* The scheduler with its lanes replaced. *)
LEMMA OtherLanes ==
    ASSUME NEW s, NEW l,
           s = [admissions |-> s.admissions, lanes |-> s.lanes, gens |-> s.gens,
                nextGen |-> s.nextGen, ready |-> s.ready, jobs |-> s.jobs]
    PROVE  [s EXCEPT !.lanes = l] =
               [admissions |-> s.admissions, lanes |-> l, gens |-> s.gens,
                nextGen |-> s.nextGen, ready |-> s.ready, jobs |-> s.jobs]
<1> DEFINE A == s.admissions
           L == s.lanes
           G == s.gens
           N == s.nextGen
           R == s.ready
           J == s.jobs
<1>0. s = [admissions |-> A, lanes |-> L, gens |-> G,
           nextGen |-> N, ready |-> R, jobs |-> J]
    OBVIOUS
<1> HIDE DEF A, L, G, N, R, J
<1>1. [s EXCEPT !.lanes = l] =
          [admissions |-> A, lanes |-> l, gens |-> G,
           nextGen |-> N, ready |-> R, jobs |-> J]
    BY <1>0
<1> QED
    BY <1>1 DEF A, L, G, N, R, J

(* The scheduler with its generations replaced. *)
LEMMA OtherGens ==
    ASSUME NEW s, NEW x,
           s = [admissions |-> s.admissions, lanes |-> s.lanes, gens |-> s.gens,
                nextGen |-> s.nextGen, ready |-> s.ready, jobs |-> s.jobs]
    PROVE  [s EXCEPT !.gens = x] =
               [admissions |-> s.admissions, lanes |-> s.lanes, gens |-> x,
                nextGen |-> s.nextGen, ready |-> s.ready, jobs |-> s.jobs]
<1> DEFINE A == s.admissions
           L == s.lanes
           G == s.gens
           N == s.nextGen
           R == s.ready
           J == s.jobs
<1>0. s = [admissions |-> A, lanes |-> L, gens |-> G,
           nextGen |-> N, ready |-> R, jobs |-> J]
    OBVIOUS
<1> HIDE DEF A, L, G, N, R, J
<1>1. [s EXCEPT !.gens = x] =
          [admissions |-> A, lanes |-> L, gens |-> x,
           nextGen |-> N, ready |-> R, jobs |-> J]
    BY <1>0
<1> QED
    BY <1>1 DEF A, L, G, N, R, J

(* The scheduler with its admissions replaced. *)
LEMMA OtherAdmissions ==
    ASSUME NEW s, NEW a,
           s = [admissions |-> s.admissions, lanes |-> s.lanes, gens |-> s.gens,
                nextGen |-> s.nextGen, ready |-> s.ready, jobs |-> s.jobs]
    PROVE  [s EXCEPT !.admissions = a] =
               [admissions |-> a, lanes |-> s.lanes, gens |-> s.gens,
                nextGen |-> s.nextGen, ready |-> s.ready, jobs |-> s.jobs]
<1> DEFINE A == s.admissions
           L == s.lanes
           G == s.gens
           N == s.nextGen
           R == s.ready
           J == s.jobs
<1>0. s = [admissions |-> A, lanes |-> L, gens |-> G,
           nextGen |-> N, ready |-> R, jobs |-> J]
    OBVIOUS
<1> HIDE DEF A, L, G, N, R, J
<1>1. [s EXCEPT !.admissions = a] =
          [admissions |-> a, lanes |-> L, gens |-> G,
           nextGen |-> N, ready |-> R, jobs |-> J]
    BY <1>0
<1> QED
    BY <1>1 DEF A, L, G, N, R, J

(* The scheduler with its generations and its jobs replaced. *)
LEMMA OtherJobs ==
    ASSUME NEW s, NEW x, NEW j,
           s = [admissions |-> s.admissions, lanes |-> s.lanes, gens |-> s.gens,
                nextGen |-> s.nextGen, ready |-> s.ready, jobs |-> s.jobs]
    PROVE  [s EXCEPT !.gens = x, !.jobs = j] =
               [admissions |-> s.admissions, lanes |-> s.lanes, gens |-> x,
                nextGen |-> s.nextGen, ready |-> s.ready, jobs |-> j]
<1> DEFINE A == s.admissions
           L == s.lanes
           G == s.gens
           N == s.nextGen
           R == s.ready
           J == s.jobs
<1>0. s = [admissions |-> A, lanes |-> L, gens |-> G,
           nextGen |-> N, ready |-> R, jobs |-> J]
    OBVIOUS
<1> HIDE DEF A, L, G, N, R, J
<1>1. [s EXCEPT !.gens = x, !.jobs = j] =
          [admissions |-> A, lanes |-> L, gens |-> x,
           nextGen |-> N, ready |-> R, jobs |-> j]
    <2> DEFINE u == [s EXCEPT !.gens = x]
    <2>1. u = [admissions |-> A, lanes |-> L, gens |-> x,
               nextGen |-> N, ready |-> R, jobs |-> J]
        BY <1>0
    <2>2. [s EXCEPT !.gens = x, !.jobs = j] = [u EXCEPT !.jobs = j]
        OBVIOUS
    <2> HIDE DEF u
    <2>3. [u EXCEPT !.jobs = j] =
              [admissions |-> A, lanes |-> L, gens |-> x,
               nextGen |-> N, ready |-> R, jobs |-> j]
        BY <2>1
    <2> QED
        BY <2>2, <2>3
<1> QED
    BY <1>1 DEF A, L, G, N, R, J

(* The record of a generation with a field replaced. *)
LEMMA FieldUpdates ==
    ASSUME NEW e, NEW v,
           e = [ws |-> e.ws, sem |-> e.sem, remaining |-> e.remaining, state |-> e.state]
    PROVE  /\ [e EXCEPT !.state = v] =
                  [ws |-> e.ws, sem |-> e.sem, remaining |-> e.remaining, state |-> v]
           /\ [e EXCEPT !.remaining = v] =
                  [ws |-> e.ws, sem |-> e.sem, remaining |-> v, state |-> e.state]
OBVIOUS

(* A new generation in the tables. *)
LEMMA ExtendOK ==
    ASSUME NEW s, NEW u, Core(s), NEW rec,
           rec = [ws |-> rec.ws, sem |-> rec.sem, remaining |-> rec.remaining,
                  state |-> rec.state],
           rec.remaining = 0, rec.state = "queued",
           u = [admissions |-> u.admissions, lanes |-> u.lanes, gens |-> u.gens,
                nextGen |-> u.nextGen, ready |-> u.ready, jobs |-> u.jobs],
           u.admissions = s.admissions, u.nextGen = s.nextGen + 1, u.jobs = s.jobs,
           u.gens = With(s.gens, s.nextGen, rec),
           u.lanes = [w \in DOMAIN u.lanes |-> u.lanes[w]],
           LanesHeld(u), \A h : IsActive(s, h) => IsActive(u, h),
           \/ u.ready = s.ready
           \/ u.ready = Append(s.ready, s.nextGen) /\ IsActive(u, s.nextGen)
    PROVE  Core(u)
<1> DEFINE g == s.nextGen
<1>0. SchedTyped(s) /\ ReadyHeld(s) /\ JobsHeld(s)
    BY DEF Core
<1>1. g \in Nat \ {0} /\ g \notin DOMAIN s.gens
    BY <1>0 DEF SchedTyped
<1>2. /\ DOMAIN u.gens = DOMAIN s.gens \cup {g} /\ u.gens[g] = rec
      /\ \A h \in DOMAIN s.gens : u.gens[h] = s.gens[h]
      /\ u.gens = [h \in DOMAIN u.gens |-> u.gens[h]]
    BY <1>1 DEF With
<1>3. \A h : IsActive(s, h) => h \in DOMAIN s.gens
    BY DEF IsActive
<1>4. s.ready \in Seq(Nat)
    BY <1>0 DEF SchedTyped
<1>5. /\ Len(s.ready) \in Nat /\ Len(Append(s.ready, g)) = Len(s.ready) + 1
      /\ Append(s.ready, g) \in Seq(Nat)
      /\ \A i \in 1 .. Len(s.ready) : Append(s.ready, g)[i] = s.ready[i]
      /\ Append(s.ready, g)[Len(s.ready) + 1] = g
    BY <1>1, <1>4, SeqFacts
<1> HIDE DEF g
<1>6. SchedTyped(u)
    <2>1. \A h \in DOMAIN u.gens :
          /\ h \in 1 .. u.nextGen - 1
          /\ u.gens[h] = [ws |-> u.gens[h].ws, sem |-> u.gens[h].sem,
                          remaining |-> u.gens[h].remaining, state |-> u.gens[h].state]
          /\ u.gens[h].remaining \in Nat /\ u.gens[h].state \in GenStates
        <3> SUFFICES ASSUME NEW h \in DOMAIN u.gens
                     PROVE  /\ h \in 1 .. u.nextGen - 1
                            /\ u.gens[h] = [ws |-> u.gens[h].ws, sem |-> u.gens[h].sem,
                                 remaining |-> u.gens[h].remaining, state |-> u.gens[h].state]
                            /\ u.gens[h].remaining \in Nat /\ u.gens[h].state \in GenStates
            OBVIOUS
        <3>1. CASE h = g
            BY <1>1, <1>2, <3>1 DEF GenStates, g
        <3>2. CASE h \in DOMAIN s.gens
            <4>1. /\ h \in 1 .. g - 1
                  /\ s.gens[h] = [ws |-> s.gens[h].ws, sem |-> s.gens[h].sem,
                          remaining |-> s.gens[h].remaining, state |-> s.gens[h].state]
                  /\ s.gens[h].remaining \in Nat /\ s.gens[h].state \in GenStates
                BY <1>0, <3>2 DEF SchedTyped, g
            <4>2. h \in 1 .. u.nextGen - 1
                BY <1>1, <4>1 DEF g
            <4> QED
                BY <1>2, <3>2, <4>1, <4>2
        <3> QED
            BY <1>2, <3>1, <3>2
    <2>2. u.nextGen \in Nat \ {0}
        BY <1>1 DEF g
    <2>3. u.ready \in Seq(Nat)
        BY <1>4, <1>5 DEF g
    <2>4. /\ u.admissions \in Seq(AdmissionRecord) /\ u.jobs = [h \in DOMAIN u.jobs |-> u.jobs[h]]
          /\ \A h \in DOMAIN u.jobs : u.jobs[h] \in {"running", "prepared", "refused"}
        BY <1>0 DEF SchedTyped
    <2> QED
        BY <1>2, <2>1, <2>2, <2>3, <2>4 DEF SchedTyped
<1>7. ReadyHeld(u)
    <2>1. CASE u.ready = s.ready
        BY <1>0, <1>2, <1>3, <2>1 DEF ReadyHeld
    <2>2. CASE u.ready = Append(s.ready, g) /\ IsActive(u, g)
        <3>1. \A i \in 1 .. Len(u.ready) : i = Len(s.ready) + 1 \/ i \in 1 .. Len(s.ready)
            BY <1>5, <2>2
        <3>2. \A i \in 1 .. Len(s.ready) :
                 /\ s.ready[i] \in DOMAIN s.gens /\ s.ready[i] # g
                 /\ IsActive(u, s.ready[i]) /\ s.gens[s.ready[i]].state = "queued"
            BY <1>0, <1>1, <1>3 DEF ReadyHeld
        <3>3. \A i \in 1 .. Len(u.ready) : IsActive(u, u.ready[i]) /\ u.gens[u.ready[i]].state = "queued"
            BY <1>2, <1>5, <2>2, <3>1, <3>2
        <3>4. \A i, j \in 1 .. Len(u.ready) : u.ready[i] = u.ready[j] => i = j
            BY <1>0, <1>5, <2>2, <3>1, <3>2 DEF ReadyHeld
        <3> QED
            BY <3>3, <3>4 DEF ReadyHeld
    <2> QED
        BY <2>1, <2>2 DEF g
<1>8. JobsHeld(u)
    BY <1>0, <1>2, <1>3 DEF JobsHeld
<1> QED
    BY <1>6, <1>7, <1>8 DEF Core

(* create_generation. *)
LEMMA CreateOK ==
    ASSUME MaxJobs \in Nat, NEW s, Core(s), NEW w, NEW sem
    PROVE  LET t == CreateGeneration(s, w, sem)
               g == s.nextGen
           IN  /\ Core(t) /\ t.admissions = s.admissions /\ t.nextGen = g + 1
               /\ g \in Nat /\ g # NoGen /\ g \notin DOMAIN s.gens
               /\ DOMAIN t.gens = DOMAIN s.gens \cup {g}
               /\ t.gens[g].ws = w /\ t.gens[g].sem = sem /\ t.gens[g].remaining = 0
               /\ t.gens[g].state \in {"queued", "running"}
               /\ \A h \in DOMAIN s.gens :
                    /\ t.gens[h].ws = s.gens[h].ws /\ t.gens[h].sem = s.gens[h].sem
                    /\ t.gens[h].remaining = s.gens[h].remaining
                    /\ \/ t.gens[h].state = s.gens[h].state
                       \/ s.gens[h].state = "queued" /\ t.gens[h].state = "running"
<1> DEFINE t == CreateGeneration(s, w, sem)
           g == s.nextGen
           rec == [ws |-> w, sem |-> sem, remaining |-> 0, state |-> "queued"]
           gs == With(s.gens, g, rec)
<1>0. SchedTyped(s) /\ LanesHeld(s)
    BY DEF Core
<1>1. g \in Nat \ {0} /\ g \notin DOMAIN s.gens
    BY <1>0 DEF SchedTyped
<1>2. s = [admissions |-> s.admissions, lanes |-> s.lanes, gens |-> s.gens,
             nextGen |-> s.nextGen, ready |-> s.ready, jobs |-> s.jobs]
    BY <1>0 DEF SchedTyped
<1>3. /\ DOMAIN gs = DOMAIN s.gens \cup {g} /\ gs[g] = rec
      /\ \A h \in DOMAIN s.gens : gs[h] = s.gens[h]
    BY <1>1 DEF With
<1>4. /\ rec = [ws |-> rec.ws, sem |-> rec.sem, remaining |-> rec.remaining, state |-> rec.state]
      /\ rec.remaining = 0 /\ rec.state = "queued" /\ rec.ws = w /\ rec.sem = sem
    OBVIOUS
<1>5. CASE w \notin DOMAIN s.lanes
    <2> DEFINE lane == [active |-> g, queued |-> << >>]
               ls == With(s.lanes, w, lane)
               rd == Append(s.ready, g)
               u == [admissions |-> s.admissions, lanes |-> ls, gens |-> gs,
                     nextGen |-> g + 1, ready |-> rd, jobs |-> s.jobs]
    <2>1. t = StartAvailable(u)
        <3>1. [[s EXCEPT !.nextGen = g + 1, !.gens = With(@, g, rec)]
                  EXCEPT !.lanes = With(@, w, lane), !.ready = Append(@, g)] = u
            <4> DEFINE made == [s EXCEPT !.nextGen = g + 1, !.gens = With(@, g, rec)]
            <4>1. made = [s EXCEPT !.nextGen = g + 1, !.gens = gs]
                BY <1>2
            <4> HIDE DEF gs
            <4>2. made = [admissions |-> s.admissions, lanes |-> s.lanes, gens |-> gs,
                          nextGen |-> g + 1, ready |-> s.ready, jobs |-> s.jobs]
                BY <1>2, <4>1, NumberedGens
            <4> HIDE DEF made
            <4>3. [made EXCEPT !.lanes = With(@, w, lane), !.ready = Append(@, g)]
                     = [made EXCEPT !.lanes = ls, !.ready = rd]
                BY <4>2
            <4> HIDE DEF ls, rd
            <4>4. [made EXCEPT !.lanes = ls, !.ready = rd] = u
                <5>1. made = [admissions |-> made.admissions, lanes |-> made.lanes,
                              gens |-> made.gens, nextGen |-> made.nextGen,
                              ready |-> made.ready, jobs |-> made.jobs]
                    BY <4>2
                <5>2. [made EXCEPT !.lanes = ls, !.ready = rd] =
                          [admissions |-> made.admissions, lanes |-> ls, gens |-> made.gens,
                           nextGen |-> made.nextGen, ready |-> rd, jobs |-> made.jobs]
                    BY <5>1, NewLanes
                <5>3. made.admissions = s.admissions /\ made.gens = gs /\ made.nextGen = g + 1
                      /\ made.jobs = s.jobs
                    BY <4>2
                <5> QED
                    BY <5>2, <5>3
            <4> QED
                BY <4>3, <4>4 DEF made
        <3> QED
            BY <1>5, <3>1 DEF CreateGeneration
    <2>2. /\ DOMAIN ls = DOMAIN s.lanes \cup {w} /\ ls[w] = lane
          /\ \A v \in DOMAIN s.lanes : ls[v] = s.lanes[v]
          /\ ls = [v \in DOMAIN ls |-> ls[v]]
        BY <1>5 DEF With
    <2>3. lane.active = g /\ lane.queued = << >> /\ lane = [active |-> lane.active, queued |-> lane.queued]
        OBVIOUS
    <2> HIDE DEF ls, rd, gs, rec, lane
    <2>4. /\ u = [admissions |-> u.admissions, lanes |-> u.lanes, gens |-> u.gens,
                  nextGen |-> u.nextGen, ready |-> u.ready, jobs |-> u.jobs]
          /\ u.admissions = s.admissions /\ u.nextGen = g + 1 /\ u.jobs = s.jobs
          /\ u.gens = gs /\ u.lanes = ls /\ u.ready = rd
        OBVIOUS
    <2> HIDE DEF u, t, g
    <2>5. LanesHeld(u)
        <3> SUFFICES ASSUME NEW v \in DOMAIN ls
                     PROVE  /\ ls[v] = [active |-> ls[v].active, queued |-> ls[v].queued]
                            /\ ls[v].active \in 1 .. (g + 1) - 1
                            /\ ls[v].queued \in Seq(Nat)
                            /\ \A i \in 1 .. Len(ls[v].queued) :
                                  /\ ls[v].queued[i] \in DOMAIN gs
                                  /\ gs[ls[v].queued[i]].ws = v
                                  /\ gs[ls[v].queued[i]].state = "queued"
                                  /\ ls[v].queued[i] # ls[v].active
                            /\ \A i, j \in 1 .. Len(ls[v].queued) :
                                  ls[v].queued[i] = ls[v].queued[j] => i = j
            BY <2>4 DEF LanesHeld
        <3>1. CASE v = w
            <4>1. ls[v].queued = << >> /\ ls[v].active = g /\ ls[v] = [active |-> ls[v].active, queued |-> ls[v].queued]
                BY <2>2, <2>3, <3>1
            <4>2. << >> \in Seq(Nat) /\ Len(<< >>) = 0
                OBVIOUS
            <4>3. g \in 1 .. (g + 1) - 1
                BY <1>1
            <4> QED
                BY <4>1, <4>2, <4>3
        <3>2. CASE v \in DOMAIN s.lanes
            <4> DEFINE q == s.lanes[v].queued
            <4>1. /\ s.lanes[v] = [active |-> s.lanes[v].active, queued |-> q]
                  /\ s.lanes[v].active \in 1 .. g - 1
                  /\ q \in Seq(Nat)
                  /\ \A i \in 1 .. Len(q) :
                          /\ q[i] \in DOMAIN s.gens
                          /\ s.gens[q[i]].ws = v /\ s.gens[q[i]].state = "queued"
                          /\ q[i] # s.lanes[v].active
                  /\ \A i, j \in 1 .. Len(q) : q[i] = q[j] => i = j
                BY <1>0, <3>2 DEF LanesHeld, g
            <4>2. ls[v] = s.lanes[v]
                BY <2>2, <3>2
            <4>3. s.lanes[v].active \in 1 .. (g + 1) - 1
                BY <1>1, <4>1
            <4> QED
                BY <1>3, <4>1, <4>2, <4>3
        <3> QED
            BY <2>2, <3>1, <3>2
    <2>6. \A h : IsActive(s, h) => IsActive(u, h)
        BY <1>3, <1>5, <2>2, <2>4 DEF IsActive
    <2>7. IsActive(u, g)
        BY <1>3, <1>4, <2>2, <2>3, <2>4 DEF IsActive
    <2>8. Core(u)
        BY <1>4, <2>2, <2>4, <2>5, <2>6, <2>7, ExtendOK DEF g, gs, rd
    <2>9. Core(t) /\ SameGens(u, t) /\ t.admissions = u.admissions /\ t.nextGen = u.nextGen
        BY <2>1, <2>8, StartOK
    <2> QED
        BY <1>1, <1>3, <1>4, <2>4, <2>9 DEF SameGens, t, g, NoGen
<1>6. CASE w \in DOMAIN s.lanes
    <2> DEFINE q == s.lanes[w].queued
               lane == [active |-> s.lanes[w].active, queued |-> Append(q, g)]
               ls == [s.lanes EXCEPT ![w] = lane]
    <2>0. /\ s.lanes[w] = [active |-> s.lanes[w].active, queued |-> q]
          /\ s.lanes[w].active \in 1 .. g - 1
          /\ q \in Seq(Nat)
          /\ \A i \in 1 .. Len(q) :
                  /\ q[i] \in DOMAIN s.gens
                  /\ s.gens[q[i]].ws = w /\ s.gens[q[i]].state = "queued"
                  /\ q[i] # s.lanes[w].active
          /\ \A i, j \in 1 .. Len(q) : q[i] = q[j] => i = j
        BY <1>0, <1>6 DEF LanesHeld
    <2>1. t = [admissions |-> s.admissions, lanes |-> ls, gens |-> gs,
               nextGen |-> g + 1, ready |-> s.ready, jobs |-> s.jobs]
        <3> DEFINE made == [s EXCEPT !.nextGen = g + 1, !.gens = With(@, g, rec)]
        <3>1. made = [s EXCEPT !.nextGen = g + 1, !.gens = gs]
            BY <1>2
        <3>2. t = [made EXCEPT !.lanes[w].queued = Append(@, g)]
            BY <1>6 DEF CreateGeneration
        <3> HIDE DEF gs
        <3>3. made = [admissions |-> s.admissions, lanes |-> s.lanes, gens |-> gs,
                      nextGen |-> g + 1, ready |-> s.ready, jobs |-> s.jobs]
            BY <1>2, <3>1, NumberedGens
        <3> HIDE DEF made, t
        <3>4. [s.lanes EXCEPT ![w].queued = Append(@, g)] = ls
            <4>1. [s.lanes[w] EXCEPT !.queued = Append(@, g)] = lane
                <5>1. [s.lanes[w] EXCEPT !.queued = Append(@, g)]
                         = [s.lanes[w] EXCEPT !.queued = Append(q, g)]
                    BY <2>0
                <5> DEFINE x == Append(q, g)
                           e == s.lanes[w]
                <5> HIDE DEF x
                <5>2. [e EXCEPT !.queued = x] = [active |-> e.active, queued |-> x]
                    BY <2>0
                <5> QED
                    BY <5>1, <5>2 DEF x
            <4> QED
                BY <4>1
        <3> HIDE DEF ls
        <3>5. t = [made EXCEPT !.lanes = [s.lanes EXCEPT ![w].queued = Append(@, g)]]
            BY <3>2, <3>3
        <3>6. t = [made EXCEPT !.lanes = ls]
            BY <3>4, <3>5
        <3> QED
            BY <3>3, <3>6
    <2>2. /\ DOMAIN ls = DOMAIN s.lanes /\ ls[w] = lane
          /\ \A v \in DOMAIN s.lanes : v # w => ls[v] = s.lanes[v]
          /\ ls = [v \in DOMAIN ls |-> ls[v]]
        <3>1. s.lanes = [v \in DOMAIN s.lanes |-> s.lanes[v]]
            BY <1>0 DEF SchedTyped
        <3> QED
            BY <1>6, <3>1
    <2>3. /\ lane.active = s.lanes[w].active /\ lane.queued = Append(q, g)
          /\ lane = [active |-> lane.active, queued |-> lane.queued]
        OBVIOUS
    <2> HIDE DEF ls, gs, rec, lane, t
    <2>4. /\ t = [admissions |-> t.admissions, lanes |-> t.lanes, gens |-> t.gens,
                  nextGen |-> t.nextGen, ready |-> t.ready, jobs |-> t.jobs]
          /\ t.admissions = s.admissions /\ t.nextGen = g + 1 /\ t.jobs = s.jobs
          /\ t.gens = gs /\ t.lanes = ls /\ t.ready = s.ready
        BY <2>1
    <2>5. LanesHeld(t)
        <3> SUFFICES ASSUME NEW v \in DOMAIN ls
                     PROVE  /\ ls[v] = [active |-> ls[v].active, queued |-> ls[v].queued]
                            /\ ls[v].active \in 1 .. (g + 1) - 1
                            /\ ls[v].queued \in Seq(Nat)
                            /\ \A i \in 1 .. Len(ls[v].queued) :
                                  /\ ls[v].queued[i] \in DOMAIN gs
                                  /\ gs[ls[v].queued[i]].ws = v
                                  /\ gs[ls[v].queued[i]].state = "queued"
                                  /\ ls[v].queued[i] # ls[v].active
                            /\ \A i, j \in 1 .. Len(ls[v].queued) :
                                  ls[v].queued[i] = ls[v].queued[j] => i = j
            BY <2>4 DEF LanesHeld
        <3>1. CASE v = w
            <4> DEFINE r == Append(q, g)
            <4>1. /\ ls[v].queued = r /\ ls[v].active = s.lanes[w].active
                  /\ ls[v] = [active |-> ls[v].active, queued |-> ls[v].queued]
                BY <2>2, <2>3, <3>1
            <4>2. /\ r \in Seq(Nat) /\ Len(r) = Len(q) + 1 /\ Len(q) \in Nat
                  /\ \A i \in 1 .. Len(q) : r[i] = q[i]
                  /\ r[Len(q) + 1] = g
                BY <1>1, <2>0, SeqFacts
            <4> HIDE DEF r, q, g
            <4>3. \A i \in 1 .. Len(r) : i = Len(q) + 1 \/ i \in 1 .. Len(q)
                BY <4>2
            <4>4. s.lanes[w].active \in 1 .. (g + 1) - 1 /\ s.lanes[w].active # g
                BY <1>1, <2>0
            <4>5. \A i \in 1 .. Len(r) : /\ r[i] \in DOMAIN gs /\ gs[r[i]].ws = w
                                         /\ gs[r[i]].state = "queued" /\ r[i] # s.lanes[w].active
                <5>1. \A i \in 1 .. Len(q) : /\ r[i] \in DOMAIN gs /\ gs[r[i]].ws = w
                                         /\ gs[r[i]].state = "queued" /\ r[i] # s.lanes[w].active
                    BY <1>3, <2>0, <4>2
                <5>2. g \in DOMAIN gs /\ gs[g].ws = w /\ gs[g].state = "queued"
                    BY <1>3, <1>4
                <5> QED
                    BY <4>2, <4>3, <4>4, <5>1, <5>2
            <4>6. \A i, j \in 1 .. Len(r) : r[i] = r[j] => i = j
                <5>1. \A i \in 1 .. Len(q) : r[i] # g
                    BY <1>1, <2>0, <4>2
                <5> QED
                    BY <2>0, <4>2, <4>3, <5>1
            <4>7. \A i \in 1 .. Len(ls[v].queued) :
                      /\ ls[v].queued[i] \in DOMAIN gs
                      /\ gs[ls[v].queued[i]].ws = v
                      /\ gs[ls[v].queued[i]].state = "queued"
                      /\ ls[v].queued[i] # ls[v].active
                BY <3>1, <4>1, <4>5
            <4>8. \A i, j \in 1 .. Len(ls[v].queued) :
                      ls[v].queued[i] = ls[v].queued[j] => i = j
                BY <4>1, <4>6
            <4> QED
                BY <4>1, <4>2, <4>4, <4>7, <4>8
        <3>2. CASE v \in DOMAIN s.lanes /\ v # w
            <4> DEFINE p == s.lanes[v].queued
            <4>1. /\ s.lanes[v] = [active |-> s.lanes[v].active, queued |-> p]
                  /\ s.lanes[v].active \in 1 .. g - 1
                  /\ p \in Seq(Nat)
                  /\ \A i \in 1 .. Len(p) :
                          /\ p[i] \in DOMAIN s.gens
                          /\ s.gens[p[i]].ws = v /\ s.gens[p[i]].state = "queued"
                          /\ p[i] # s.lanes[v].active
                  /\ \A i, j \in 1 .. Len(p) : p[i] = p[j] => i = j
                BY <1>0, <3>2 DEF LanesHeld, g
            <4>2. ls[v] = s.lanes[v]
                BY <2>2, <3>2
            <4>3. s.lanes[v].active \in 1 .. (g + 1) - 1
                BY <1>1, <4>1
            <4> QED
                BY <1>3, <4>1, <4>2, <4>3
        <3> QED
            BY <2>2, <3>1, <3>2
    <2>6. \A h : IsActive(s, h) => IsActive(t, h)
        <3>1. \A v \in DOMAIN s.lanes : ls[v].active = s.lanes[v].active
            BY <2>2, <2>3
        <3> QED
            BY <1>3, <2>2, <2>4, <3>1 DEF IsActive
    <2>8. Core(t)
        BY <1>4, <2>2, <2>4, <2>5, <2>6, ExtendOK DEF gs
    <2> QED
        BY <1>1, <1>3, <1>4, <2>4, <2>8 DEF t, NoGen
<1> QED
    BY <1>5, <1>6

(* The admissions do not matter for the rest of the scheduler. *)
LEMMA CoreOfAdmissions ==
    ASSUME NEW s, NEW t, Core(s),
           t = [admissions |-> t.admissions, lanes |-> t.lanes, gens |-> t.gens,
                nextGen |-> t.nextGen, ready |-> t.ready, jobs |-> t.jobs],
           t.admissions \in Seq(AdmissionRecord), t.lanes = s.lanes, t.gens = s.gens,
           t.nextGen = s.nextGen, t.ready = s.ready, t.jobs = s.jobs
    PROVE  Core(t)
<1>0. SchedTyped(s) /\ LanesHeld(s) /\ ReadyHeld(s) /\ JobsHeld(s)
    BY DEF Core
<1>1. SchedTyped(t)
    BY <1>0 DEF SchedTyped
<1>2. LanesHeld(t)
    BY <1>0 DEF LanesHeld
<1>3. \A g : IsActive(t, g) <=> IsActive(s, g)
    BY DEF IsActive
<1>4. ReadyHeld(t)
    BY <1>0, <1>3 DEF ReadyHeld
<1>5. JobsHeld(t)
    BY <1>0, <1>3 DEF JobsHeld
<1> QED
    BY <1>1, <1>2, <1>4, <1>5 DEF Core

(* push_admission. *)
LEMMA PushIs ==
    ASSUME NEW s, Core(s), NEW r \in Requests, NEW kind \in Kinds, NEW g \in Nat, nextSeq \in Nat
    PROVE  LET t == PushAdmission(s, r, kind, g)
               a == [req |-> r, kind |-> kind, gen |-> g, seq |-> nextSeq]
           IN  /\ t = [admissions |-> t.admissions, lanes |-> t.lanes, gens |-> t.gens,
                       nextGen |-> t.nextGen, ready |-> t.ready, jobs |-> t.jobs]
               /\ t.admissions = Append(s.admissions, a) /\ a \in AdmissionRecord
               /\ t.lanes = s.lanes /\ t.gens = s.gens /\ t.nextGen = s.nextGen
               /\ t.ready = s.ready /\ t.jobs = s.jobs
               /\ Core(t)
<1> DEFINE t == PushAdmission(s, r, kind, g)
           a == [req |-> r, kind |-> kind, gen |-> g, seq |-> nextSeq]
           q == Append(s.admissions, a)
<1>1. /\ s = [admissions |-> s.admissions, lanes |-> s.lanes, gens |-> s.gens,
              nextGen |-> s.nextGen, ready |-> s.ready, jobs |-> s.jobs]
      /\ s.admissions \in Seq(AdmissionRecord)
    BY DEF Core, SchedTyped
<1>2. a \in AdmissionRecord
    BY DEF AdmissionRecord
<1>3. t = [s EXCEPT !.admissions = q]
    BY <1>1 DEF PushAdmission
<1>4. q \in Seq(AdmissionRecord)
    BY <1>1, <1>2
<1> HIDE DEF t, q
<1>5. t = [admissions |-> q, lanes |-> s.lanes, gens |-> s.gens,
           nextGen |-> s.nextGen, ready |-> s.ready, jobs |-> s.jobs]
    BY <1>1, <1>3, OtherAdmissions
<1>6. /\ t = [admissions |-> t.admissions, lanes |-> t.lanes, gens |-> t.gens,
                       nextGen |-> t.nextGen, ready |-> t.ready, jobs |-> t.jobs]
      /\ t.admissions = q
      /\ t.lanes = s.lanes /\ t.gens = s.gens /\ t.nextGen = s.nextGen
      /\ t.ready = s.ready /\ t.jobs = s.jobs
    BY <1>5
<1>7. Core(t)
    BY <1>4, <1>6, CoreOfAdmissions
<1> QED
    BY <1>2, <1>6, <1>7 DEF t, q

(* An admission more of one generation. *)
LEMMA AwaitingMore ==
    ASSUME NEW s, NEW t, s.admissions \in Seq(AdmissionRecord), NEW a \in AdmissionRecord,
           t.admissions = Append(s.admissions, a)
    PROVE  /\ \A x : x \in Awaiting(t, a.gen) <=> x \in Awaiting(s, a.gen) \/ x = a.seq
           /\ \A h : h # a.gen => Awaiting(t, h) = Awaiting(s, h)
<1> DEFINE p == s.admissions
           q == t.admissions
<1>1. /\ Len(p) \in Nat /\ Len(q) = Len(p) + 1 /\ q[Len(p) + 1] = a
      /\ \A i \in 1 .. Len(p) : q[i] = p[i]
    BY SeqFacts
<1> HIDE DEF p, q
<1>2. /\ \A i \in 1 .. Len(q) : i = Len(p) + 1 \/ i \in 1 .. Len(p)
      /\ \A i \in 1 .. Len(p) : i \in 1 .. Len(q)
      /\ Len(p) + 1 \in 1 .. Len(q)
    BY <1>1
<1>3. \A h : Awaiting(t, h) = {q[i].seq : i \in {j \in 1 .. Len(q) : q[j].gen = h}}
    BY DEF Awaiting, q
<1>4. \A h : Awaiting(s, h) = {p[i].seq : i \in {j \in 1 .. Len(p) : p[j].gen = h}}
    BY DEF Awaiting, p
<1>5. ASSUME NEW h, h # a.gen PROVE Awaiting(t, h) = Awaiting(s, h)
    <2>1. ASSUME NEW x \in Awaiting(t, h) PROVE x \in Awaiting(s, h)
        <3>1. PICK i \in 1 .. Len(q) : q[i].gen = h /\ x = q[i].seq
            BY <1>3, <2>1
        <3>2. i \in 1 .. Len(p) /\ p[i] = q[i]
            BY <1>1, <1>2, <1>5, <3>1
        <3> QED
            BY <1>4, <3>1, <3>2
    <2>2. ASSUME NEW x \in Awaiting(s, h) PROVE x \in Awaiting(t, h)
        <3>1. PICK i \in 1 .. Len(p) : p[i].gen = h /\ x = p[i].seq
            BY <1>4, <2>2
        <3>2. i \in 1 .. Len(q) /\ p[i] = q[i]
            BY <1>1, <1>2, <3>1
        <3> QED
            BY <1>3, <3>1, <3>2
    <2> QED
        BY <2>1, <2>2
<1>6. Awaiting(t, a.gen) = Awaiting(s, a.gen) \cup {a.seq}
    BY <1>1, <1>2, <1>3, <1>4
<1> QED
    BY <1>5, <1>6

(* A generation nobody has been admitted for has no admission. *)
LEMMA NobodyAwaits ==
    ASSUME NEW s, AdmissionsHeld(s), s.admissions \in Seq(AdmissionRecord), NEW g,
           g \notin DOMAIN s.gens, g # NoGen
    PROVE  Awaiting(s, g) = {}
<1> SUFFICES ASSUME NEW i \in 1 .. Len(s.admissions), s.admissions[i].gen = g PROVE FALSE
    BY DEF Awaiting
<1>1. s.admissions[i] \in AdmissionRecord
    OBVIOUS
<1>2. s.admissions[i].kind \in Kinds
    BY <1>1 DEF AdmissionRecord
<1> QED
    BY <1>2 DEF AdmissionsHeld, Kinds

(* An admission that needs no preparation. *)
LEMMA PlainOK ==
    ASSUME NEW s, SchedHeld(s), NEW r \in Requests, NEW kind \in {"immediate", "ordinary"},
           nextSeq \in Nat
    PROVE  LET t == PushAdmission(s, r, kind, NoGen)
           IN  /\ SchedHeld(t) /\ t.gens = s.gens /\ t.nextGen = s.nextGen
               /\ t.admissions = Append(s.admissions, [req |-> r, kind |-> kind, gen |-> NoGen,
                                                       seq |-> nextSeq])
<1> DEFINE t == PushAdmission(s, r, kind, NoGen)
           a == [req |-> r, kind |-> kind, gen |-> NoGen, seq |-> nextSeq]
<1>0. Core(s) /\ AdmissionsHeld(s) /\ SchedTyped(s)
    BY DEF SchedHeld, Core
<1>1. /\ t.admissions = Append(s.admissions, a) /\ a \in AdmissionRecord
      /\ t.gens = s.gens /\ t.nextGen = s.nextGen /\ Core(t)
    BY <1>0, PushIs DEF Kinds, NoGen
<1>2. s.admissions \in Seq(AdmissionRecord)
    BY <1>0 DEF SchedTyped
<1>3. a.gen = NoGen /\ a.kind = kind
    OBVIOUS
<1>4. /\ Len(s.admissions) \in Nat /\ Len(t.admissions) = Len(s.admissions) + 1
      /\ t.admissions[Len(s.admissions) + 1] = a
      /\ \A i \in 1 .. Len(s.admissions) : t.admissions[i] = s.admissions[i]
    BY <1>1, <1>2, SeqFacts
<1> HIDE DEF t, a
<1>5. \A h \in DOMAIN s.gens : h # NoGen
    BY <1>0 DEF SchedTyped, NoGen
<1>6. \A h \in DOMAIN s.gens : Awaiting(t, h) = Awaiting(s, h)
    <2>1. \A h : h # a.gen => Awaiting(t, h) = Awaiting(s, h)
        BY <1>1, <1>2, AwaitingMore
    <2> QED
        BY <1>3, <1>5, <2>1
<1>7. \A i \in 1 .. Len(t.admissions) : i = Len(s.admissions) + 1 \/ i \in 1 .. Len(s.admissions)
    BY <1>4
<1>8. AdmissionsHeld(t)
    <2>1. \A i \in 1 .. Len(t.admissions) :
             /\ t.admissions[i].kind \in {"immediate", "ordinary"} => t.admissions[i].gen = NoGen
             /\ t.admissions[i].kind \in {"registration", "evidence"} =>
                    t.admissions[i].gen \in DOMAIN t.gens
             /\ t.admissions[i].kind = "registration" => t.gens[t.admissions[i].gen].sem # Empty
             /\ t.admissions[i].kind = "evidence" => t.gens[t.admissions[i].gen].sem = Empty
        BY <1>0, <1>1, <1>3, <1>4, <1>7 DEF AdmissionsHeld
    <2>2. \A g \in DOMAIN t.gens : /\ IsFiniteSet(Awaiting(t, g))
                                   /\ t.gens[g].remaining = Cardinality(Awaiting(t, g))
        BY <1>0, <1>1, <1>6 DEF AdmissionsHeld
    <2> QED
        BY <2>1, <2>2 DEF AdmissionsHeld
<1> QED
    BY <1>1, <1>8 DEF SchedHeld, Core, t, a

(* Tables whose generations differ in their counters and in what they settled as. *)
LEMMA UpdateOK ==
    ASSUME NEW u, Core(u), NEW w,
           w = [admissions |-> w.admissions, lanes |-> w.lanes, gens |-> w.gens,
                nextGen |-> w.nextGen, ready |-> w.ready, jobs |-> w.jobs],
           w.admissions = u.admissions, w.lanes = u.lanes, w.nextGen = u.nextGen,
           w.ready = u.ready, w.jobs = u.jobs,
           w.gens = [h \in DOMAIN w.gens |-> w.gens[h]], DOMAIN w.gens = DOMAIN u.gens,
           \A h \in DOMAIN u.gens :
              /\ w.gens[h] = [ws |-> w.gens[h].ws, sem |-> w.gens[h].sem,
                              remaining |-> w.gens[h].remaining, state |-> w.gens[h].state]
              /\ w.gens[h].remaining \in Nat /\ w.gens[h].ws = u.gens[h].ws
              /\ \/ w.gens[h].state = u.gens[h].state
                 \/ w.gens[h].state \in Settled /\ u.gens[h].state \in Settled
    PROVE  Core(w)
<1>0. SchedTyped(u) /\ LanesHeld(u) /\ ReadyHeld(u) /\ JobsHeld(u)
    BY DEF Core
<1>1. \A h : IsActive(w, h) <=> IsActive(u, h)
    BY DEF IsActive
<1>2. \A h : IsActive(u, h) => h \in DOMAIN u.gens
    BY DEF IsActive
<1>3. /\ \A h \in DOMAIN u.gens : u.gens[h].state = "queued" => w.gens[h].state = "queued"
      /\ \A h \in DOMAIN u.gens : u.gens[h].state = "running" => w.gens[h].state = "running"
      /\ \A h \in DOMAIN u.gens : w.gens[h].ws = u.gens[h].ws
    BY DEF Settled
<1>4. SchedTyped(w)
    <2>1. \A h \in DOMAIN u.gens : h \in 1 .. u.nextGen - 1 /\ u.gens[h].state \in GenStates
        BY <1>0 DEF SchedTyped
    <2>2. \A h \in DOMAIN w.gens :
             /\ h \in 1 .. w.nextGen - 1
             /\ w.gens[h] = [ws |-> w.gens[h].ws, sem |-> w.gens[h].sem,
                             remaining |-> w.gens[h].remaining, state |-> w.gens[h].state]
             /\ w.gens[h].remaining \in Nat /\ w.gens[h].state \in GenStates
        BY <2>1 DEF GenStates
    <2>3. /\ u.admissions \in Seq(AdmissionRecord) /\ u.nextGen \in Nat \ {0}
          /\ u.ready \in Seq(Nat) /\ u.lanes = [v \in DOMAIN u.lanes |-> u.lanes[v]]
          /\ u.jobs = [h \in DOMAIN u.jobs |-> u.jobs[h]]
          /\ \A h \in DOMAIN u.jobs : u.jobs[h] \in {"running", "prepared", "refused"}
        BY <1>0 DEF SchedTyped
    <2> QED
        BY <2>2, <2>3 DEF SchedTyped
<1>5. LanesHeld(w)
    <2> SUFFICES ASSUME NEW v \in DOMAIN u.lanes
                 PROVE  LET q == u.lanes[v].queued
                        IN  /\ u.lanes[v] = [active |-> u.lanes[v].active, queued |-> q]
                            /\ u.lanes[v].active \in 1 .. u.nextGen - 1
                            /\ q \in Seq(Nat)
                            /\ \A i \in 1 .. Len(q) :
                                  /\ q[i] \in DOMAIN w.gens
                                  /\ w.gens[q[i]].ws = v /\ w.gens[q[i]].state = "queued"
                                  /\ q[i] # u.lanes[v].active
                            /\ \A i, j \in 1 .. Len(q) : q[i] = q[j] => i = j
        BY DEF LanesHeld
    <2> DEFINE q == u.lanes[v].queued
    <2>1. /\ u.lanes[v] = [active |-> u.lanes[v].active, queued |-> q]
          /\ u.lanes[v].active \in 1 .. u.nextGen - 1
          /\ q \in Seq(Nat)
          /\ \A i \in 1 .. Len(q) :
                  /\ q[i] \in DOMAIN u.gens
                  /\ u.gens[q[i]].ws = v /\ u.gens[q[i]].state = "queued"
                  /\ q[i] # u.lanes[v].active
          /\ \A i, j \in 1 .. Len(q) : q[i] = q[j] => i = j
        BY <1>0 DEF LanesHeld
    <2> HIDE DEF q
    <2>2. \A i \in 1 .. Len(q) : /\ q[i] \in DOMAIN w.gens
                                 /\ w.gens[q[i]].ws = v /\ w.gens[q[i]].state = "queued"
                                 /\ q[i] # u.lanes[v].active
        BY <1>3, <2>1
    <2> QED
        BY <2>1, <2>2 DEF q
<1>6. ReadyHeld(w)
    <2>1. \A i \in 1 .. Len(u.ready) : IsActive(u, u.ready[i]) /\ u.gens[u.ready[i]].state = "queued"
        BY <1>0 DEF ReadyHeld
    <2>2. \A i \in 1 .. Len(u.ready) : IsActive(w, u.ready[i]) /\ w.gens[u.ready[i]].state = "queued"
        BY <1>1, <1>2, <1>3, <2>1
    <2>3. \A i, j \in 1 .. Len(u.ready) : u.ready[i] = u.ready[j] => i = j
        BY <1>0 DEF ReadyHeld
    <2> QED
        BY <2>2, <2>3 DEF ReadyHeld
<1>7. JobsHeld(w)
    BY <1>0, <1>1, <1>2, <1>3 DEF JobsHeld
<1> QED
    BY <1>4, <1>5, <1>6, <1>7 DEF Core

(* A generation with another count of admissions. *)
LEMMA CountedOK ==
    ASSUME NEW u, Core(u), NEW g \in DOMAIN u.gens, NEW v \in Nat
    PROVE  LET w == [u EXCEPT !.gens[g].remaining = v]
           IN  /\ Core(w) /\ w.admissions = u.admissions /\ w.nextGen = u.nextGen
               /\ DOMAIN w.gens = DOMAIN u.gens /\ w.gens[g].remaining = v
               /\ \A h \in DOMAIN u.gens :
                     /\ w.gens[h].sem = u.gens[h].sem /\ w.gens[h].state = u.gens[h].state
                     /\ h # g => w.gens[h].remaining = u.gens[h].remaining
<1> DEFINE x == [u.gens EXCEPT ![g].remaining = v]
           w == [u EXCEPT !.gens[g].remaining = v]
<1>1. /\ u = [admissions |-> u.admissions, lanes |-> u.lanes, gens |-> u.gens,
              nextGen |-> u.nextGen, ready |-> u.ready, jobs |-> u.jobs]
      /\ u.gens = [h \in DOMAIN u.gens |-> u.gens[h]]
      /\ \A h \in DOMAIN u.gens :
            /\ u.gens[h] = [ws |-> u.gens[h].ws, sem |-> u.gens[h].sem,
                            remaining |-> u.gens[h].remaining, state |-> u.gens[h].state]
            /\ u.gens[h].remaining \in Nat
    BY DEF Core, SchedTyped
<1>3. /\ x = [h \in DOMAIN u.gens |-> x[h]] /\ DOMAIN x = DOMAIN u.gens
      /\ x[g] = [ws |-> u.gens[g].ws, sem |-> u.gens[g].sem, remaining |-> v,
                 state |-> u.gens[g].state]
      /\ \A h \in DOMAIN u.gens : h # g => x[h] = u.gens[h]
    <2>1. x[g] = [u.gens[g] EXCEPT !.remaining = v]
        BY <1>1
    <2>2. [u.gens[g] EXCEPT !.remaining = v] =
              [ws |-> u.gens[g].ws, sem |-> u.gens[g].sem, remaining |-> v,
                 state |-> u.gens[g].state]
        <3> DEFINE e == u.gens[g]
        <3>1. e = [ws |-> e.ws, sem |-> e.sem, remaining |-> e.remaining, state |-> e.state]
            BY <1>1
        <3> HIDE DEF e
        <3>2. [e EXCEPT !.remaining = v] = [ws |-> e.ws, sem |-> e.sem, remaining |-> v,
                                            state |-> e.state]
            BY <3>1, FieldUpdates
        <3> QED
            BY <3>2 DEF e
    <2>3. /\ x = [h \in DOMAIN u.gens |-> x[h]] /\ DOMAIN x = DOMAIN u.gens
          /\ \A h \in DOMAIN u.gens : h # g => x[h] = u.gens[h]
        BY <1>1
    <2> QED
        BY <2>1, <2>2, <2>3
<1>4. w = [u EXCEPT !.gens = x]
    BY <1>1
<1> HIDE DEF x, w
<1>5. w = [admissions |-> u.admissions, lanes |-> u.lanes, gens |-> x,
           nextGen |-> u.nextGen, ready |-> u.ready, jobs |-> u.jobs]
    BY <1>1, <1>4, OtherGens
<1>6. /\ w = [admissions |-> w.admissions, lanes |-> w.lanes, gens |-> w.gens,
              nextGen |-> w.nextGen, ready |-> w.ready, jobs |-> w.jobs]
      /\ w.admissions = u.admissions /\ w.lanes = u.lanes /\ w.gens = x
      /\ w.nextGen = u.nextGen /\ w.ready = u.ready /\ w.jobs = u.jobs
    BY <1>5
<1>7. \A h \in DOMAIN u.gens :
         /\ x[h] = [ws |-> x[h].ws, sem |-> x[h].sem, remaining |-> x[h].remaining,
                    state |-> x[h].state]
         /\ x[h].ws = u.gens[h].ws /\ x[h].sem = u.gens[h].sem /\ x[h].state = u.gens[h].state
         /\ h # g => x[h].remaining = u.gens[h].remaining
         /\ h = g => x[h].remaining = v
    <2> SUFFICES ASSUME NEW h \in DOMAIN u.gens
                 PROVE  /\ x[h] = [ws |-> x[h].ws, sem |-> x[h].sem,
                                   remaining |-> x[h].remaining, state |-> x[h].state]
                        /\ x[h].ws = u.gens[h].ws /\ x[h].sem = u.gens[h].sem
                        /\ x[h].state = u.gens[h].state
                        /\ h # g => x[h].remaining = u.gens[h].remaining
                        /\ h = g => x[h].remaining = v
        OBVIOUS
    <2>1. CASE h = g
        BY <1>3, <2>1
    <2>2. CASE h # g
        BY <1>1, <1>3, <2>2
    <2> QED
        BY <2>1, <2>2
<1>8. \A h \in DOMAIN u.gens : x[h].remaining \in Nat
    BY <1>1, <1>7
<1>9. Core(w)
    <2>1. /\ w.gens = [h \in DOMAIN w.gens |-> w.gens[h]] /\ DOMAIN w.gens = DOMAIN u.gens
        BY <1>3, <1>6
    <2>2. \A h \in DOMAIN u.gens :
              /\ w.gens[h] = [ws |-> w.gens[h].ws, sem |-> w.gens[h].sem,
                              remaining |-> w.gens[h].remaining, state |-> w.gens[h].state]
              /\ w.gens[h].remaining \in Nat /\ w.gens[h].ws = u.gens[h].ws
              /\ \/ w.gens[h].state = u.gens[h].state
                 \/ w.gens[h].state \in Settled /\ u.gens[h].state \in Settled
        BY <1>6, <1>7, <1>8
    <2>3. /\ w.admissions = u.admissions /\ w.lanes = u.lanes /\ w.nextGen = u.nextGen
          /\ w.ready = u.ready /\ w.jobs = u.jobs
          /\ w = [admissions |-> w.admissions, lanes |-> w.lanes, gens |-> w.gens,
                  nextGen |-> w.nextGen, ready |-> w.ready, jobs |-> w.jobs]
        BY <1>6
    <2> QED
        BY <2>1, <2>2, <2>3, UpdateOK
<1> QED
    BY <1>3, <1>6, <1>7, <1>9 DEF w

(* An admission that waits for a generation: the generation counts it. *)
LEMMA AdmissionMore ==
    ASSUME NEW s, AdmissionsHeld(s), s.admissions \in Seq(AdmissionRecord), NEW t,
           NEW a \in AdmissionRecord, a.gen # NoGen, a.kind \in {"registration", "evidence"},
           t.admissions = Append(s.admissions, a),
           \A i \in 1 .. Len(s.admissions) : s.admissions[i].seq # a.seq,
           DOMAIN t.gens = DOMAIN s.gens \cup {a.gen},
           \A h \in DOMAIN s.gens : /\ t.gens[h].sem = s.gens[h].sem
                                    /\ h # a.gen => t.gens[h].remaining = s.gens[h].remaining,
           a.gen \in DOMAIN s.gens => t.gens[a.gen].remaining = s.gens[a.gen].remaining + 1,
           a.gen \notin DOMAIN s.gens => t.gens[a.gen].remaining = 1,
           a.kind = "registration" => t.gens[a.gen].sem # Empty,
           a.kind = "evidence" => t.gens[a.gen].sem = Empty
    PROVE  AdmissionsHeld(t)
<1> DEFINE g == a.gen
           A == Awaiting(s, g)
           B == Awaiting(t, g)
           n == Len(s.admissions)
<1>1. /\ n \in Nat /\ Len(t.admissions) = n + 1 /\ t.admissions[n + 1] = a
      /\ \A i \in 1 .. n : t.admissions[i] = s.admissions[i]
    BY SeqFacts
<1>0. /\ s.admissions \in Seq(AdmissionRecord) /\ a \in AdmissionRecord
      /\ t.admissions = Append(s.admissions, a)
    OBVIOUS
<1>2. B = A \cup {a.seq}
    <2>1. \A x : x \in Awaiting(t, a.gen) <=> x \in Awaiting(s, a.gen) \/ x = a.seq
        BY ONLY <1>0, AwaitingMore
    <2> QED
        BY ONLY <2>1
<1>3. \A h : h # g => Awaiting(t, h) = Awaiting(s, h)
    BY ONLY <1>0, AwaitingMore
<1>4. a.seq \notin A
    BY DEF Awaiting
<1>5. IsFiniteSet(A) /\ t.gens[g].remaining = Cardinality(A) + 1
    <2>1. CASE g \in DOMAIN s.gens
        BY <2>1 DEF AdmissionsHeld
    <2>2. CASE g \notin DOMAIN s.gens
        <3>1. A = {}
            BY <2>2, NobodyAwaits
        <3>2. IsFiniteSet({}) /\ Cardinality({}) = 0
            BY FS_EmptySet
        <3> QED
            BY <2>2, <3>1, <3>2
    <2> QED
        BY <2>1, <2>2
<1> HIDE DEF A, B, n
<1>6. IsFiniteSet(B) /\ t.gens[g].remaining = Cardinality(B)
    <2>1. IsFiniteSet(A \cup {a.seq}) /\ Cardinality(A \cup {a.seq}) = Cardinality(A) + 1
        BY <1>4, <1>5, FS_AddElement
    <2> QED
        BY <1>2, <1>5, <2>1
<1>7. \A i \in 1 .. n :
         /\ s.admissions[i].kind \in {"immediate", "ordinary"} => s.admissions[i].gen = NoGen
         /\ s.admissions[i].kind \in {"registration", "evidence"} =>
                s.admissions[i].gen \in DOMAIN s.gens
         /\ s.admissions[i].kind = "registration" => s.gens[s.admissions[i].gen].sem # Empty
         /\ s.admissions[i].kind = "evidence" => s.gens[s.admissions[i].gen].sem = Empty
    BY DEF AdmissionsHeld, n
<1>8. ASSUME NEW i \in 1 .. Len(t.admissions)
      PROVE  /\ t.admissions[i].kind \in {"immediate", "ordinary"} => t.admissions[i].gen = NoGen
             /\ t.admissions[i].kind \in {"registration", "evidence"} =>
                    t.admissions[i].gen \in DOMAIN t.gens
             /\ t.admissions[i].kind = "registration" =>
                    t.gens[t.admissions[i].gen].sem # Empty
             /\ t.admissions[i].kind = "evidence" =>
                    t.gens[t.admissions[i].gen].sem = Empty
    <2> DEFINE b == t.admissions[i]
               e == s.admissions[i]
    <2>1. CASE i = n + 1
        <3>1. b = a
            BY <1>1, <2>1
        <3> HIDE DEF b
        <3>2. /\ b.kind \in {"immediate", "ordinary"} => b.gen = NoGen
              /\ b.kind \in {"registration", "evidence"} => b.gen \in DOMAIN t.gens
              /\ b.kind = "registration" => t.gens[b.gen].sem # Empty
              /\ b.kind = "evidence" => t.gens[b.gen].sem = Empty
            BY <3>1
        <3> QED
            BY <3>2 DEF b
    <2>2. CASE i \in 1 .. n
        <3>1. b = e
            BY <1>1, <2>2
        <3>2. /\ e.kind \in {"immediate", "ordinary"} => e.gen = NoGen
              /\ e.kind \in {"registration", "evidence"} => e.gen \in DOMAIN s.gens
              /\ e.kind = "registration" => s.gens[e.gen].sem # Empty
              /\ e.kind = "evidence" => s.gens[e.gen].sem = Empty
            BY <1>7, <2>2
        <3> HIDE DEF b, e
        <3>3. /\ b.kind \in {"immediate", "ordinary"} => b.gen = NoGen
              /\ b.kind \in {"registration", "evidence"} => b.gen \in DOMAIN t.gens
              /\ b.kind = "registration" => t.gens[b.gen].sem # Empty
              /\ b.kind = "evidence" => t.gens[b.gen].sem = Empty
            BY <3>1, <3>2
        <3> QED
            BY <3>3 DEF b
    <2>3. i = n + 1 \/ i \in 1 .. n
        BY <1>1
    <2> QED
        BY <2>1, <2>2, <2>3
<1>9. ASSUME NEW h \in DOMAIN t.gens
      PROVE  /\ IsFiniteSet(Awaiting(t, h))
             /\ t.gens[h].remaining = Cardinality(Awaiting(t, h))
    <2>1. CASE h = g
        BY <1>6, <2>1 DEF B
    <2>2. CASE h # g
        <3>1. Awaiting(t, h) = Awaiting(s, h) /\ h \in DOMAIN s.gens
              /\ t.gens[h].remaining = s.gens[h].remaining
            BY <1>3, <2>2
        <3>2. IsFiniteSet(Awaiting(s, h)) /\ s.gens[h].remaining = Cardinality(Awaiting(s, h))
            BY <3>1 DEF AdmissionsHeld
        <3> QED
            BY <3>1, <3>2
    <2> QED
        BY <2>1, <2>2
<1> QED
    BY <1>8, <1>9 DEF AdmissionsHeld

(* push_admission of a request that waits for a generation. *)
PushedTo(u, g, v, r, kind) == PushAdmission([u EXCEPT !.gens[g].remaining = v], r, kind, g)

(* The two together. *)
LEMMA AdmitGenOK ==
    ASSUME NEW s, NEW u, SchedHeld(s), Core(u), u.admissions = s.admissions,
           NEW g \in Nat, g # NoGen, DOMAIN u.gens = DOMAIN s.gens \cup {g},
           \A h \in DOMAIN s.gens : /\ u.gens[h].sem = s.gens[h].sem
                                    /\ u.gens[h].remaining = s.gens[h].remaining,
           g \notin DOMAIN s.gens => u.gens[g].remaining = 0,
           NEW kind \in {"registration", "evidence"},
           kind = "registration" => u.gens[g].sem # Empty,
           kind = "evidence" => u.gens[g].sem = Empty,
           NEW r \in Requests, nextSeq \in Nat,
           \A i \in 1 .. Len(s.admissions) : s.admissions[i].seq # nextSeq,
           NEW v, v = u.gens[g].remaining + 1, NEW t,
           t = PushedTo(u, g, v, r, kind)
    PROVE  /\ SchedHeld(t) /\ t.nextGen = u.nextGen /\ DOMAIN t.gens = DOMAIN u.gens
           /\ \A h \in DOMAIN u.gens : /\ t.gens[h].sem = u.gens[h].sem
                                       /\ t.gens[h].state = u.gens[h].state
           /\ t.admissions = Append(s.admissions, [req |-> r, kind |-> kind, gen |-> g,
                                                   seq |-> nextSeq])
<1> DEFINE w == [u EXCEPT !.gens[g].remaining = v]
           a == [req |-> r, kind |-> kind, gen |-> g, seq |-> nextSeq]
<1>1. AdmissionsHeld(s) /\ SchedTyped(s) /\ SchedTyped(u)
    BY DEF SchedHeld, Core
<1>2. g \in DOMAIN u.gens
    OBVIOUS
<1>3. v \in Nat
    <2> DEFINE k == u.gens[g].remaining
    <2>1. k \in Nat
        BY <1>1, <1>2 DEF SchedTyped
    <2> HIDE DEF k
    <2>2. v = k + 1
        BY DEF k
    <2> QED
        BY <2>1, <2>2
<1>4. /\ Core(w) /\ w.admissions = u.admissions /\ w.nextGen = u.nextGen
      /\ DOMAIN w.gens = DOMAIN u.gens /\ w.gens[g].remaining = v
      /\ \A h \in DOMAIN u.gens :
            /\ w.gens[h].sem = u.gens[h].sem /\ w.gens[h].state = u.gens[h].state
            /\ h # g => w.gens[h].remaining = u.gens[h].remaining
    BY <1>2, <1>3, CountedOK
<1>5. t = PushAdmission(w, r, kind, g)
    BY DEF PushedTo
<1> HIDE DEF w
<1>6. /\ t.admissions = Append(w.admissions, a) /\ a \in AdmissionRecord
      /\ t.gens = w.gens /\ t.nextGen = w.nextGen /\ Core(t)
    <2>1. kind \in Kinds /\ r \in Requests /\ g \in Nat /\ nextSeq \in Nat
        BY DEF Kinds
    <2> QED
        BY ONLY <1>4, <1>5, <2>1, PushIs
<1>7. a.gen = g /\ a.kind = kind /\ a.seq = nextSeq
    OBVIOUS
<1> HIDE DEF a
<1>8. AdmissionsHeld(t)
    <2>1. s.admissions \in Seq(AdmissionRecord) /\ t.admissions = Append(s.admissions, a)
        BY <1>1, <1>4, <1>6 DEF SchedTyped
    <2>2. /\ a.gen # NoGen /\ a.kind \in {"registration", "evidence"}
          /\ \A i \in 1 .. Len(s.admissions) : s.admissions[i].seq # a.seq
          /\ DOMAIN t.gens = DOMAIN s.gens \cup {a.gen}
        BY <1>4, <1>6, <1>7
    <2>3. \A h \in DOMAIN s.gens : /\ t.gens[h].sem = s.gens[h].sem
                                   /\ h # a.gen => t.gens[h].remaining = s.gens[h].remaining
        BY <1>4, <1>6, <1>7
    <2>4. /\ a.gen \in DOMAIN s.gens => t.gens[a.gen].remaining = s.gens[a.gen].remaining + 1
          /\ a.gen \notin DOMAIN s.gens => t.gens[a.gen].remaining = 1
        BY <1>4, <1>6, <1>7
    <2>5. /\ a.kind = "registration" => t.gens[a.gen].sem # Empty
          /\ a.kind = "evidence" => t.gens[a.gen].sem = Empty
        BY <1>2, <1>4, <1>6, <1>7
    <2> QED
        BY ONLY <1>1, <1>6, <2>1, <2>2, <2>3, <2>4, <2>5, AdmissionMore
<1> QED
    BY <1>4, <1>6, <1>8 DEF SchedHeld, Core, a

(* Tables in which no generation was committed keep their commits. *)
LEMMA CommitsKept ==
    ASSUME NEW s, NEW t, NEW c, CommitsHeld(s, c), s.nextGen \in Nat, t.nextGen \in Nat,
           s.nextGen <= t.nextGen, DOMAIN s.gens \subseteq DOMAIN t.gens,
           \A h \in DOMAIN s.gens :
              /\ t.gens[h].sem = s.gens[h].sem
              /\ t.gens[h].state = "committed" <=> s.gens[h].state = "committed",
           \A h \in DOMAIN t.gens : h \notin DOMAIN s.gens =>
              t.gens[h].state # "committed" /\ h \notin 1 .. s.nextGen - 1
    PROVE  CommitsHeld(t, c)
<1>1. ASSUME NEW g \in DOMAIN c
      PROVE  /\ c[g] = 1 /\ g \in 1 .. t.nextGen - 1
             /\ g \in DOMAIN t.gens => t.gens[g].state = "committed"
    <2>1. c[g] = 1 /\ g \in 1 .. s.nextGen - 1 /\ (g \in DOMAIN s.gens => s.gens[g].state = "committed")
        BY <1>1 DEF CommitsHeld
    <2>2. g \in 1 .. t.nextGen - 1
        BY <2>1
    <2> QED
        BY <2>1, <2>2
<1>2. ASSUME NEW g \in DOMAIN t.gens, t.gens[g].state = "committed", t.gens[g].sem # Empty
      PROVE  g \in DOMAIN c
    <2>1. g \in DOMAIN s.gens
        BY <1>2
    <2> QED
        BY <1>2, <2>1 DEF CommitsHeld
<1> QED
    BY <1>1, <1>2 DEF CommitsHeld

(* WriterScheduler::admit, however the request resolves. *)
LEMMA AdmittedOK ==
    ASSUME WriterConstants, NEW s, SchedHeld(s), NEW c, CommitsHeld(s, c), NEW r \in Requests,
           nextSeq \in Nat, \A i \in 1 .. Len(s.admissions) : s.admissions[i].seq # nextSeq,
           NEW t \in Admitted(s, r)
    PROVE  /\ SchedHeld(t) /\ CommitsHeld(t, c)
           /\ \E a \in AdmissionRecord : a.seq = nextSeq /\ t.admissions = Append(s.admissions, a)
<1>0. Core(s) /\ SchedTyped(s) /\ MaxJobs \in Nat /\ Semantics[r] # Empty
    BY DEF SchedHeld, Core, WriterConstants
<1>1. \A kind \in Kinds, g \in Nat :
         /\ [req |-> r, kind |-> kind, gen |-> g, seq |-> nextSeq] \in AdmissionRecord
         /\ [req |-> r, kind |-> kind, gen |-> g, seq |-> nextSeq].seq = nextSeq
    BY DEF AdmissionRecord
<1>2. ASSUME NEW kind \in {"immediate", "ordinary"}, t = PushAdmission(s, r, kind, NoGen)
      PROVE  /\ SchedHeld(t) /\ CommitsHeld(t, c)
             /\ \E a \in AdmissionRecord : a.seq = nextSeq /\ t.admissions = Append(s.admissions, a)
    <2>1. /\ SchedHeld(t) /\ t.gens = s.gens /\ t.nextGen = s.nextGen
          /\ t.admissions = Append(s.admissions, [req |-> r, kind |-> kind, gen |-> NoGen,
                                                  seq |-> nextSeq])
        BY <1>2, PlainOK
    <2>2. CommitsHeld(t, c)
        BY <2>1 DEF CommitsHeld
    <2>3. kind \in Kinds /\ NoGen \in Nat
        BY DEF Kinds, NoGen
    <2> QED
        BY <1>1, <2>1, <2>2, <2>3
<1>3. ASSUME t = AdmitRegistration(s, r)
      PROVE  /\ SchedHeld(t) /\ CommitsHeld(t, c)
             /\ \E a \in AdmissionRecord : a.seq = nextSeq /\ t.admissions = Append(s.admissions, a)
    <2> DEFINE ws == Workspace[r]
               sem == Semantics[r]
    <2>1. CASE Joinable(s, ws, sem)
        <3> DEFINE g == Newest(s.lanes[ws])
                   v == s.gens[g].remaining + 1
        <3>1. t = PushedTo(s, g, v, r, "registration")
            <4>1. t = PushAdmission([s EXCEPT !.gens[g].remaining = @ + 1], r, "registration", g)
                BY <1>3, <2>1 DEF AdmitRegistration
            <4>2. [s EXCEPT !.gens[g].remaining = @ + 1] = [s EXCEPT !.gens[g].remaining = v]
                OBVIOUS
            <4> QED
                BY <4>1, <4>2 DEF PushedTo
        <3>2. g \in DOMAIN s.gens /\ s.gens[g].sem # Empty
            BY <1>0, <2>1 DEF Joinable
        <3> HIDE DEF g, v
        <3>3. g \in Nat /\ g # NoGen /\ DOMAIN s.gens = DOMAIN s.gens \cup {g}
            BY <1>0, <3>2 DEF SchedTyped, NoGen
        <3>4. /\ SchedHeld(t) /\ t.nextGen = s.nextGen /\ DOMAIN t.gens = DOMAIN s.gens
              /\ \A h \in DOMAIN s.gens : /\ t.gens[h].sem = s.gens[h].sem
                                          /\ t.gens[h].state = s.gens[h].state
              /\ t.admissions = Append(s.admissions, [req |-> r, kind |-> "registration",
                                                      gen |-> g, seq |-> nextSeq])
            <4>1. v = s.gens[g].remaining + 1
                BY DEF v
            <4>2. \A h \in DOMAIN s.gens : /\ s.gens[h].sem = s.gens[h].sem
                                           /\ s.gens[h].remaining = s.gens[h].remaining
                OBVIOUS
            <4>3. g \notin DOMAIN s.gens => s.gens[g].remaining = 0
                BY <3>2
            <4> HIDE DEF v
            <4> QED
                BY <1>0, <3>1, <3>2, <3>3, <4>1, <4>2, <4>3, AdmitGenOK
        <3>5. s.nextGen \in Nat
            BY <1>0 DEF SchedTyped
        <3>6. CommitsHeld(t, c)
            BY <3>4, <3>5, CommitsKept
        <3>7. "registration" \in Kinds
            BY DEF Kinds
        <3> QED
            BY <1>1, <3>3, <3>4, <3>6, <3>7
    <2>2. CASE ~ Joinable(s, ws, sem)
        <3> DEFINE g == s.nextGen
                   u == CreateGeneration(s, ws, sem)
                   v == u.gens[g].remaining + 1
        <3>1. t = PushedTo(u, g, v, r, "registration")
            <4>1. t = PushAdmission([u EXCEPT !.gens[g].remaining = @ + 1], r, "registration", g)
                BY <1>3, <2>2 DEF AdmitRegistration
            <4> HIDE DEF u
            <4>2. [u EXCEPT !.gens[g].remaining = @ + 1] = [u EXCEPT !.gens[g].remaining = v]
                OBVIOUS
            <4> QED
                BY <4>1, <4>2 DEF PushedTo
        <3>2. /\ Core(u) /\ u.admissions = s.admissions /\ u.nextGen = g + 1
              /\ g \in Nat /\ g # NoGen /\ g \notin DOMAIN s.gens
              /\ DOMAIN u.gens = DOMAIN s.gens \cup {g}
              /\ u.gens[g].sem = sem /\ u.gens[g].remaining = 0
              /\ u.gens[g].state \in {"queued", "running"}
              /\ \A h \in DOMAIN s.gens :
                    /\ u.gens[h].sem = s.gens[h].sem
                    /\ u.gens[h].remaining = s.gens[h].remaining
                    /\ \/ u.gens[h].state = s.gens[h].state
                       \/ s.gens[h].state = "queued" /\ u.gens[h].state = "running"
            BY <1>0, CreateOK
        <3> HIDE DEF u, v
        <3>3. g \notin 1 .. g - 1 /\ g <= g + 1
            BY <3>2
        <3> HIDE DEF g
        <3>4. /\ SchedHeld(t) /\ t.nextGen = u.nextGen /\ DOMAIN t.gens = DOMAIN u.gens
              /\ \A h \in DOMAIN u.gens : /\ t.gens[h].sem = u.gens[h].sem
                                          /\ t.gens[h].state = u.gens[h].state
              /\ t.admissions = Append(s.admissions, [req |-> r, kind |-> "registration",
                                                      gen |-> g, seq |-> nextSeq])
            <4>1. v = u.gens[g].remaining + 1 /\ u.gens[g].sem # Empty
                BY <1>0, <3>2 DEF v
            <4>2. \A h \in DOMAIN s.gens : /\ u.gens[h].sem = s.gens[h].sem
                                           /\ u.gens[h].remaining = s.gens[h].remaining
                BY <3>2
            <4>3. g \notin DOMAIN s.gens => u.gens[g].remaining = 0
                BY <3>2
            <4>4. /\ Core(u) /\ u.admissions = s.admissions /\ g \in Nat /\ g # NoGen
                  /\ DOMAIN u.gens = DOMAIN s.gens \cup {g}
                BY <3>2
            <4> HIDE DEF v
            <4> QED
                BY <3>1, <4>1, <4>2, <4>3, <4>4, AdmitGenOK
        <3>6. CommitsHeld(t, c)
            BY <3>2, <3>3, <3>4, CommitsKept DEF g
        <3>7. "registration" \in Kinds
            BY DEF Kinds
        <3> QED
            BY <1>1, <3>2, <3>4, <3>6, <3>7
    <2> QED
        BY <2>1, <2>2
<1>4. ASSUME t = AdmitEvidence(s, r)
      PROVE  /\ SchedHeld(t) /\ CommitsHeld(t, c)
             /\ \E a \in AdmissionRecord : a.seq = nextSeq /\ t.admissions = Append(s.admissions, a)
    <2> DEFINE g == s.nextGen
               u == CreateGeneration(s, Workspace[r], Empty)
    <2>1. t = PushAdmission([u EXCEPT !.gens[g].remaining = 1], r, "evidence", g)
        BY <1>4 DEF AdmitEvidence
    <2>2. /\ Core(u) /\ u.admissions = s.admissions /\ u.nextGen = g + 1
          /\ g \in Nat /\ g # NoGen /\ g \notin DOMAIN s.gens
          /\ DOMAIN u.gens = DOMAIN s.gens \cup {g}
          /\ u.gens[g].sem = Empty /\ u.gens[g].remaining = 0
          /\ u.gens[g].state \in {"queued", "running"}
          /\ \A h \in DOMAIN s.gens :
                    /\ u.gens[h].sem = s.gens[h].sem
                    /\ u.gens[h].remaining = s.gens[h].remaining
                    /\ \/ u.gens[h].state = s.gens[h].state
                       \/ s.gens[h].state = "queued" /\ u.gens[h].state = "running"
        BY <1>0, CreateOK
    <2> HIDE DEF u
    <2>3. g \notin 1 .. g - 1 /\ g <= g + 1 /\ 1 = u.gens[g].remaining + 1
        BY <2>2
    <2> HIDE DEF g
    <2>4. /\ SchedHeld(t) /\ t.nextGen = u.nextGen /\ DOMAIN t.gens = DOMAIN u.gens
          /\ \A h \in DOMAIN u.gens : /\ t.gens[h].sem = u.gens[h].sem
                                      /\ t.gens[h].state = u.gens[h].state
          /\ t.admissions = Append(s.admissions, [req |-> r, kind |-> "evidence",
                                                  gen |-> g, seq |-> nextSeq])
        <3> DEFINE v == 1
        <3>1. v = u.gens[g].remaining + 1 /\ u.gens[g].sem = Empty
            BY <2>2, <2>3
        <3>2. \A h \in DOMAIN s.gens : /\ u.gens[h].sem = s.gens[h].sem
                                       /\ u.gens[h].remaining = s.gens[h].remaining
            BY <2>2
        <3>3. g \notin DOMAIN s.gens => u.gens[g].remaining = 0
            BY <2>2
        <3>4. /\ Core(u) /\ u.admissions = s.admissions /\ g \in Nat /\ g # NoGen
              /\ DOMAIN u.gens = DOMAIN s.gens \cup {g}
            BY <2>2
        <3>5. t = PushedTo(u, g, v, r, "evidence")
            BY <2>1 DEF PushedTo
        <3> HIDE DEF v
        <3> QED
            BY <3>1, <3>2, <3>3, <3>4, <3>5, AdmitGenOK
    <2>6. CommitsHeld(t, c)
        BY <2>2, <2>3, <2>4, CommitsKept DEF g
    <2>7. "evidence" \in Kinds
        BY DEF Kinds
    <2> QED
        BY <1>1, <2>2, <2>4, <2>6, <2>7
<1> QED
    BY <1>2, <1>3, <1>4 DEF Admitted

(* One lane of the tables. *)
LaneHeld(s, w, l) ==
    /\ l = [active |-> l.active, queued |-> l.queued]
    /\ l.active \in 1 .. s.nextGen - 1 /\ l.queued \in Seq(Nat)
    /\ \A i \in 1 .. Len(l.queued) :
          /\ l.queued[i] \in DOMAIN s.gens
          /\ s.gens[l.queued[i]].ws = w /\ s.gens[l.queued[i]].state = "queued"
          /\ l.queued[i] # l.active
    /\ \A i, j \in 1 .. Len(l.queued) : l.queued[i] = l.queued[j] => i = j

(* The lanes one by one. *)
LEMMA LanesAre ==
    ASSUME NEW s
    PROVE  LanesHeld(s) <=> \A w \in DOMAIN s.lanes : LaneHeld(s, w, s.lanes[w])
BY DEF LanesHeld, LaneHeld

(* A lane depends on the generations only. *)
LEMMA LaneOfGens ==
    ASSUME NEW s, NEW t, t.gens = s.gens, t.nextGen = s.nextGen
    PROVE  \A w, l : LaneHeld(s, w, l) => LaneHeld(t, w, l)
BY DEF LaneHeld

(* The lane of a settled generation was handed on: what is ready or runs stays active. *)
LEMMA MovedOK ==
    ASSUME NEW s, Core(s), NEW g \in DOMAIN s.gens, s.gens[g].state \in Settled, NEW u,
           u = [admissions |-> u.admissions, lanes |-> u.lanes, gens |-> u.gens,
                nextGen |-> u.nextGen, ready |-> u.ready, jobs |-> u.jobs],
           u.admissions = s.admissions, u.gens = s.gens, u.nextGen = s.nextGen,
           u.jobs = s.jobs, u.lanes = [w \in DOMAIN u.lanes |-> u.lanes[w]],
           LanesHeld(u), \A h : IsActive(s, h) /\ h # g => IsActive(u, h),
           \/ u.ready = s.ready
           \/ \E e \in Nat : /\ u.ready = Append(s.ready, e) /\ IsActive(u, e)
                             /\ s.gens[e].state = "queued" /\ ~ IsActive(s, e)
    PROVE  Core(u)
<1>0. SchedTyped(s) /\ ReadyHeld(s) /\ JobsHeld(s)
    BY DEF Core
<1>1. s.ready \in Seq(Nat)
    BY <1>0 DEF SchedTyped
<1>2. \A i \in 1 .. Len(s.ready) : /\ IsActive(u, s.ready[i]) /\ IsActive(s, s.ready[i])
                                   /\ u.gens[s.ready[i]].state = "queued"
    BY <1>0 DEF ReadyHeld, Settled
<1>3. JobsHeld(u)
    BY <1>0 DEF JobsHeld, Settled
<1>4. CASE u.ready = s.ready
    <2>1. ReadyHeld(u)
        BY <1>0, <1>2, <1>4 DEF ReadyHeld
    <2>2. SchedTyped(u)
        BY <1>0, <1>4 DEF SchedTyped
    <2> QED
        BY <1>3, <2>1, <2>2 DEF Core
<1>5. ASSUME NEW e \in Nat, u.ready = Append(s.ready, e), IsActive(u, e),
             s.gens[e].state = "queued", ~ IsActive(s, e)
      PROVE  Core(u)
    <2>1. /\ Len(s.ready) \in Nat /\ Len(u.ready) = Len(s.ready) + 1
          /\ u.ready \in Seq(Nat) /\ u.ready[Len(s.ready) + 1] = e
          /\ \A i \in 1 .. Len(s.ready) : u.ready[i] = s.ready[i]
        BY <1>1, <1>5, SeqFacts
    <2>2. \A i \in 1 .. Len(u.ready) : i = Len(s.ready) + 1 \/ i \in 1 .. Len(s.ready)
        BY <2>1
    <2>3. \A i \in 1 .. Len(u.ready) : IsActive(u, u.ready[i]) /\ u.gens[u.ready[i]].state = "queued"
        BY <1>2, <1>5, <2>1, <2>2
    <2>4. \A i \in 1 .. Len(s.ready) : u.ready[i] # e
        BY <1>2, <1>5, <2>1
    <2>5. \A i, j \in 1 .. Len(s.ready) : s.ready[i] = s.ready[j] => i = j
        BY <1>0 DEF ReadyHeld
    <2>6. \A i, j \in 1 .. Len(u.ready) : u.ready[i] = u.ready[j] => i = j
        BY <2>1, <2>2, <2>4, <2>5
    <2>7. ReadyHeld(u)
        BY <2>3, <2>6 DEF ReadyHeld
    <2>8. SchedTyped(u)
        BY <1>0, <2>1 DEF SchedTyped
    <2> QED
        BY <1>3, <2>7, <2>8 DEF Core
<1> QED
    BY <1>4, <1>5

(* advance_lane of a settled generation. *)
LEMMA AdvanceOK ==
    ASSUME MaxJobs \in Nat, NEW s, Core(s), NEW g \in DOMAIN s.gens, s.gens[g].state \in Settled
    PROVE  LET t == AdvanceLane(s, g)
           IN  /\ Core(t) /\ SameGens(s, t)
               /\ t.admissions = s.admissions /\ t.nextGen = s.nextGen
<1> DEFINE t == AdvanceLane(s, g)
           v == s.gens[g].ws
           lane == s.lanes[v]
           q == lane.queued
<1>0. SchedTyped(s) /\ LanesHeld(s)
    BY DEF Core
<1>1. s = [admissions |-> s.admissions, lanes |-> s.lanes, gens |-> s.gens,
             nextGen |-> s.nextGen, ready |-> s.ready, jobs |-> s.jobs]
      /\ s.lanes = [w \in DOMAIN s.lanes |-> s.lanes[w]]
    BY <1>0 DEF SchedTyped
<1>2. CASE ~ IsActive(s, g)
    <2>1. t = s
        BY <1>2 DEF AdvanceLane
    <2>2. SameGens(s, s)
        BY DEF SameGens
    <2> QED
        BY <2>1, <2>2
<1>3. CASE IsActive(s, g) /\ q = << >>
    <2> DEFINE ls == Without(s.lanes, v)
    <2>1. t = [s EXCEPT !.lanes = ls]
        BY <1>1, <1>3 DEF AdvanceLane
    <2>2. /\ DOMAIN ls = DOMAIN s.lanes \ {v} /\ ls = [w \in DOMAIN ls |-> ls[w]]
          /\ \A w \in DOMAIN ls : ls[w] = s.lanes[w]
        BY DEF Without
    <2> HIDE DEF ls, t
    <2>3. t = [admissions |-> s.admissions, lanes |-> ls, gens |-> s.gens,
               nextGen |-> s.nextGen, ready |-> s.ready, jobs |-> s.jobs]
        BY <1>1, <2>1, OtherLanes
    <2>4. /\ t = [admissions |-> t.admissions, lanes |-> t.lanes, gens |-> t.gens,
                  nextGen |-> t.nextGen, ready |-> t.ready, jobs |-> t.jobs]
          /\ t.admissions = s.admissions /\ t.nextGen = s.nextGen /\ t.jobs = s.jobs
          /\ t.gens = s.gens /\ t.lanes = ls /\ t.ready = s.ready
        BY <2>3
    <2>5. LanesHeld(t)
        <3>1. \A w \in DOMAIN s.lanes : LaneHeld(s, w, s.lanes[w])
            BY ONLY <1>0, LanesAre
        <3>2. \A w, l : LaneHeld(s, w, l) => LaneHeld(t, w, l)
            BY ONLY <2>4, LaneOfGens
        <3>3. \A w \in DOMAIN t.lanes : w \in DOMAIN s.lanes /\ t.lanes[w] = s.lanes[w]
            BY <2>2, <2>4
        <3>4. \A w \in DOMAIN t.lanes : LaneHeld(t, w, t.lanes[w])
            BY ONLY <3>1, <3>2, <3>3
        <3> QED
            BY ONLY <3>4, LanesAre
    <2>6. \A h : IsActive(s, h) /\ h # g => IsActive(t, h)
        BY <1>3, <2>2, <2>4 DEF IsActive
    <2>7. Core(t)
        BY <2>2, <2>4, <2>5, <2>6, MovedOK
    <2>8. SameGens(s, t)
        BY <2>4 DEF SameGens
    <2> QED
        BY <2>4, <2>7, <2>8 DEF t
<1>4. CASE IsActive(s, g) /\ q # << >>
    <2> DEFINE e == Head(q)
               p == Tail(q)
               new == [active |-> e, queued |-> p]
               ls == [s.lanes EXCEPT ![v] = new]
               rd == Append(s.ready, e)
               u == [admissions |-> s.admissions, lanes |-> ls, gens |-> s.gens,
                     nextGen |-> s.nextGen, ready |-> rd, jobs |-> s.jobs]
    <2>1. v \in DOMAIN s.lanes /\ lane.active = g
        BY <1>4 DEF IsActive
    <2>2. /\ q \in Seq(Nat)
          /\ \A i \in 1 .. Len(q) :
                  /\ q[i] \in DOMAIN s.gens
                  /\ s.gens[q[i]].ws = v /\ s.gens[q[i]].state = "queued"
                  /\ q[i] # g
          /\ \A i, j \in 1 .. Len(q) : q[i] = q[j] => i = j
        <3>1. LaneHeld(s, v, lane)
            BY <1>0, <2>1, LanesAre
        <3> HIDE DEF lane
        <3> QED
            BY <2>1, <3>1 DEF LaneHeld
    <2>3. t = StartAvailable(u)
        <3>1. t = StartAvailable([s EXCEPT !.lanes[v] = new, !.ready = Append(@, e)])
            BY <1>4 DEF AdvanceLane
        <3>2. [s EXCEPT !.lanes[v] = new, !.ready = Append(@, e)]
                = [s EXCEPT !.lanes = ls, !.ready = rd]
            BY <1>1
        <3> HIDE DEF ls, rd
        <3>3. [s EXCEPT !.lanes = ls, !.ready = rd] = u
            BY <1>1, NewLanes
        <3> QED
            BY <3>1, <3>2, <3>3
    <2>4. /\ Len(q) \in Nat /\ Len(q) > 0 /\ e = q[1] /\ p \in Seq(Nat) /\ Len(p) = Len(q) - 1
          /\ \A i \in 1 .. Len(q) - 1 : p[i] = q[i + 1]
        <3>1. q # << >> /\ q \in Seq(Nat)
            BY <1>4, <2>2
        <3> HIDE DEF q
        <3> QED
            BY ONLY <3>1, SeqFacts DEF e, p
    <2>5. /\ DOMAIN ls = DOMAIN s.lanes /\ ls[v] = new
          /\ \A w \in DOMAIN s.lanes : w # v => ls[w] = s.lanes[w]
          /\ ls = [w \in DOMAIN ls |-> ls[w]]
        BY <1>1, <2>1
    <2>6. new.active = e /\ new.queued = p /\ new = [active |-> new.active, queued |-> new.queued]
        OBVIOUS
    <2> HIDE DEF ls, rd, new, e, p
    <2>7. /\ u = [admissions |-> u.admissions, lanes |-> u.lanes, gens |-> u.gens,
                  nextGen |-> u.nextGen, ready |-> u.ready, jobs |-> u.jobs]
          /\ u.admissions = s.admissions /\ u.nextGen = s.nextGen /\ u.jobs = s.jobs
          /\ u.gens = s.gens /\ u.lanes = ls /\ u.ready = rd
        OBVIOUS
    <2> HIDE DEF u, t, q, lane
    <2>8. e \in DOMAIN s.gens /\ s.gens[e].ws = v /\ s.gens[e].state = "queued" /\ e # g
        BY <2>2, <2>4
    <2>9. \A i \in 1 .. Len(p) : /\ p[i] \in DOMAIN s.gens /\ s.gens[p[i]].ws = v
                                 /\ s.gens[p[i]].state = "queued" /\ p[i] # e
        <3> SUFFICES ASSUME NEW i \in 1 .. Len(p)
                     PROVE  /\ p[i] \in DOMAIN s.gens /\ s.gens[p[i]].ws = v
                            /\ s.gens[p[i]].state = "queued" /\ p[i] # e
            OBVIOUS
        <3>1. i + 1 \in 1 .. Len(q) /\ 1 \in 1 .. Len(q) /\ i + 1 # 1 /\ p[i] = q[i + 1]
            BY <2>4
        <3> QED
            BY <2>2, <2>4, <3>1
    <2>10. \A i, j \in 1 .. Len(p) : p[i] = p[j] => i = j
        <3> SUFFICES ASSUME NEW i \in 1 .. Len(p), NEW j \in 1 .. Len(p), p[i] = p[j] PROVE i = j
            OBVIOUS
        <3>1. /\ i + 1 \in 1 .. Len(q) /\ j + 1 \in 1 .. Len(q)
              /\ p[i] = q[i + 1] /\ p[j] = q[j + 1]
            BY <2>4
        <3>2. i + 1 = j + 1
            BY <2>2, <3>1
        <3> QED
            BY <2>4, <3>2
    <2>11. LanesHeld(u)
        <3>1. LaneHeld(u, v, new)
            <4>1. e \in 1 .. s.nextGen - 1
                BY <1>0, <2>8 DEF SchedTyped
            <4> QED
                BY <2>4, <2>6, <2>7, <2>9, <2>10, <4>1 DEF LaneHeld
        <3>2. ASSUME NEW w \in DOMAIN s.lanes, w # v PROVE LaneHeld(u, w, ls[w])
            <4>1. LaneHeld(s, w, s.lanes[w])
                BY <1>0, LanesAre
            <4>2. LaneHeld(u, w, s.lanes[w])
                BY <2>7, <4>1, LaneOfGens
            <4> QED
                BY <2>5, <3>2, <4>2
        <3>3. \A w \in DOMAIN u.lanes : LaneHeld(u, w, u.lanes[w])
            BY <2>5, <2>7, <3>1, <3>2
        <3> QED
            BY ONLY <3>3, LanesAre
    <2>12. \A h : IsActive(s, h) /\ h # g => IsActive(u, h)
        <3>1. \A h : IsActive(s, h) /\ h # g => s.gens[h].ws # v
            BY <2>1 DEF IsActive, lane
        <3> QED
            BY <2>5, <2>7, <3>1 DEF IsActive
    <2>13. IsActive(u, e) /\ ~ IsActive(s, e) /\ e \in Nat
        <3>1. e \in Nat
            BY <1>0, <2>8 DEF SchedTyped
        <3>2. IsActive(u, e)
            BY <2>1, <2>5, <2>6, <2>7, <2>8 DEF IsActive
        <3>3. ~ IsActive(s, e)
            BY <2>1, <2>8 DEF IsActive, lane
        <3> QED
            BY <3>1, <3>2, <3>3
    <2>14. Core(u)
        <3>1. u.ready = Append(s.ready, e)
            BY <2>7 DEF rd
        <3>2. u.lanes = [w \in DOMAIN u.lanes |-> u.lanes[w]]
            BY <2>5, <2>7
        <3> QED
            BY <2>7, <2>8, <2>11, <2>12, <2>13, <3>1, <3>2, MovedOK
    <2>15. Core(t) /\ SameGens(u, t) /\ t.admissions = u.admissions /\ t.nextGen = u.nextGen
        BY <2>3, <2>14, StartOK
    <2> QED
        BY <2>7, <2>15 DEF SameGens, t
<1> QED
    BY <1>2, <1>3, <1>4

(* A settled generation that settles otherwise. *)
LEMMA SettledOK ==
    ASSUME NEW u, Core(u), NEW g \in DOMAIN u.gens, u.gens[g].state \in Settled, NEW v \in Settled
    PROVE  LET w == [u EXCEPT !.gens[g].state = v]
           IN  /\ Core(w) /\ w.admissions = u.admissions /\ w.nextGen = u.nextGen
               /\ DOMAIN w.gens = DOMAIN u.gens /\ w.gens[g].state = v
               /\ \A h \in DOMAIN u.gens :
                     /\ w.gens[h].sem = u.gens[h].sem
                     /\ w.gens[h].remaining = u.gens[h].remaining
                     /\ h # g => w.gens[h].state = u.gens[h].state
<1> DEFINE x == [u.gens EXCEPT ![g].state = v]
           w == [u EXCEPT !.gens[g].state = v]
<1>1. /\ u = [admissions |-> u.admissions, lanes |-> u.lanes, gens |-> u.gens,
              nextGen |-> u.nextGen, ready |-> u.ready, jobs |-> u.jobs]
      /\ u.gens = [h \in DOMAIN u.gens |-> u.gens[h]]
      /\ \A h \in DOMAIN u.gens :
            /\ u.gens[h] = [ws |-> u.gens[h].ws, sem |-> u.gens[h].sem,
                            remaining |-> u.gens[h].remaining, state |-> u.gens[h].state]
            /\ u.gens[h].remaining \in Nat
    BY DEF Core, SchedTyped
<1>3. /\ x = [h \in DOMAIN u.gens |-> x[h]] /\ DOMAIN x = DOMAIN u.gens
      /\ x[g] = [ws |-> u.gens[g].ws, sem |-> u.gens[g].sem, remaining |-> u.gens[g].remaining,
                 state |-> v]
      /\ \A h \in DOMAIN u.gens : h # g => x[h] = u.gens[h]
    <2>1. x[g] = [u.gens[g] EXCEPT !.state = v]
        BY <1>1
    <2>2. [u.gens[g] EXCEPT !.state = v] =
              [ws |-> u.gens[g].ws, sem |-> u.gens[g].sem, remaining |-> u.gens[g].remaining,
                 state |-> v]
        <3> DEFINE e == u.gens[g]
        <3>1. e = [ws |-> e.ws, sem |-> e.sem, remaining |-> e.remaining, state |-> e.state]
            BY <1>1
        <3> HIDE DEF e
        <3>2. [e EXCEPT !.state = v] = [ws |-> e.ws, sem |-> e.sem, remaining |-> e.remaining,
                                        state |-> v]
            BY <3>1, FieldUpdates
        <3> QED
            BY <3>2 DEF e
    <2>3. /\ x = [h \in DOMAIN u.gens |-> x[h]] /\ DOMAIN x = DOMAIN u.gens
          /\ \A h \in DOMAIN u.gens : h # g => x[h] = u.gens[h]
        BY <1>1
    <2> QED
        BY <2>1, <2>2, <2>3
<1>4. w = [u EXCEPT !.gens = x]
    BY <1>1
<1> HIDE DEF x, w
<1>5. w = [admissions |-> u.admissions, lanes |-> u.lanes, gens |-> x,
           nextGen |-> u.nextGen, ready |-> u.ready, jobs |-> u.jobs]
    BY <1>1, <1>4, OtherGens
<1>6. /\ w = [admissions |-> w.admissions, lanes |-> w.lanes, gens |-> w.gens,
              nextGen |-> w.nextGen, ready |-> w.ready, jobs |-> w.jobs]
      /\ w.admissions = u.admissions /\ w.lanes = u.lanes /\ w.gens = x
      /\ w.nextGen = u.nextGen /\ w.ready = u.ready /\ w.jobs = u.jobs
    BY <1>5
<1>7. \A h \in DOMAIN u.gens :
         /\ x[h] = [ws |-> x[h].ws, sem |-> x[h].sem, remaining |-> x[h].remaining,
                    state |-> x[h].state]
         /\ x[h].ws = u.gens[h].ws /\ x[h].sem = u.gens[h].sem
         /\ x[h].remaining = u.gens[h].remaining /\ x[h].remaining \in Nat
         /\ h # g => x[h].state = u.gens[h].state
         /\ h = g => x[h].state = v
    <2> SUFFICES ASSUME NEW h \in DOMAIN u.gens
                 PROVE  /\ x[h] = [ws |-> x[h].ws, sem |-> x[h].sem,
                                   remaining |-> x[h].remaining, state |-> x[h].state]
                        /\ x[h].ws = u.gens[h].ws /\ x[h].sem = u.gens[h].sem
                        /\ x[h].remaining = u.gens[h].remaining /\ x[h].remaining \in Nat
                        /\ h # g => x[h].state = u.gens[h].state
                        /\ h = g => x[h].state = v
        OBVIOUS
    <2>1. CASE h = g
        BY <1>1, <1>3, <2>1
    <2>2. CASE h # g
        BY <1>1, <1>3, <2>2
    <2> QED
        BY <2>1, <2>2
<1>9. Core(w)
    <2>1. /\ w.gens = [h \in DOMAIN w.gens |-> w.gens[h]] /\ DOMAIN w.gens = DOMAIN u.gens
        BY <1>3, <1>6
    <2>2. \A h \in DOMAIN u.gens :
              /\ w.gens[h] = [ws |-> w.gens[h].ws, sem |-> w.gens[h].sem,
                              remaining |-> w.gens[h].remaining, state |-> w.gens[h].state]
              /\ w.gens[h].remaining \in Nat /\ w.gens[h].ws = u.gens[h].ws
              /\ \/ w.gens[h].state = u.gens[h].state
                 \/ w.gens[h].state \in Settled /\ u.gens[h].state \in Settled
        BY <1>6, <1>7
    <2>3. /\ w.admissions = u.admissions /\ w.lanes = u.lanes /\ w.nextGen = u.nextGen
          /\ w.ready = u.ready /\ w.jobs = u.jobs
          /\ w = [admissions |-> w.admissions, lanes |-> w.lanes, gens |-> w.gens,
                  nextGen |-> w.nextGen, ready |-> w.ready, jobs |-> w.jobs]
        BY <1>6
    <2> QED
        BY <2>1, <2>2, <2>3, UpdateOK
<1> QED
    BY <1>3, <1>6, <1>7, <1>9 DEF w

(* A settled generation that is forgotten. *)
LEMMA ForgetOK ==
    ASSUME NEW u, Core(u), NEW g \in DOMAIN u.gens, u.gens[g].state \in Settled
    PROVE  LET w == [u EXCEPT !.gens = Without(@, g)]
           IN  /\ Core(w) /\ w.admissions = u.admissions /\ w.nextGen = u.nextGen
               /\ DOMAIN w.gens = DOMAIN u.gens \ {g}
               /\ \A h \in DOMAIN w.gens : w.gens[h] = u.gens[h]
<1> DEFINE x == Without(u.gens, g)
           w == [u EXCEPT !.gens = Without(@, g)]
<1>0. SchedTyped(u) /\ LanesHeld(u) /\ ReadyHeld(u) /\ JobsHeld(u)
    BY DEF Core
<1>1. u = [admissions |-> u.admissions, lanes |-> u.lanes, gens |-> u.gens,
           nextGen |-> u.nextGen, ready |-> u.ready, jobs |-> u.jobs]
    BY <1>0 DEF SchedTyped
<1>2. /\ DOMAIN x = DOMAIN u.gens \ {g} /\ x = [h \in DOMAIN x |-> x[h]]
      /\ \A h \in DOMAIN x : x[h] = u.gens[h]
    BY DEF Without
<1>3. w = [u EXCEPT !.gens = x]
    BY <1>1
<1> HIDE DEF x, w
<1>4. w = [admissions |-> u.admissions, lanes |-> u.lanes, gens |-> x,
           nextGen |-> u.nextGen, ready |-> u.ready, jobs |-> u.jobs]
    BY <1>1, <1>3, OtherGens
<1>5. /\ w = [admissions |-> w.admissions, lanes |-> w.lanes, gens |-> w.gens,
              nextGen |-> w.nextGen, ready |-> w.ready, jobs |-> w.jobs]
      /\ w.admissions = u.admissions /\ w.lanes = u.lanes /\ w.gens = x
      /\ w.nextGen = u.nextGen /\ w.ready = u.ready /\ w.jobs = u.jobs
    BY <1>4
<1>6. \A h : IsActive(u, h) /\ h # g => IsActive(w, h) /\ w.gens[h] = u.gens[h]
    BY <1>2, <1>5 DEF IsActive
<1>7. SchedTyped(w)
    <2>1. \A h \in DOMAIN w.gens : h \in DOMAIN u.gens /\ w.gens[h] = u.gens[h]
        BY <1>2, <1>5
    <2>2. \A h \in DOMAIN w.gens :
             /\ h \in 1 .. w.nextGen - 1
             /\ w.gens[h] = [ws |-> w.gens[h].ws, sem |-> w.gens[h].sem,
                             remaining |-> w.gens[h].remaining, state |-> w.gens[h].state]
             /\ w.gens[h].remaining \in Nat /\ w.gens[h].state \in GenStates
        BY <1>0, <1>5, <2>1 DEF SchedTyped
    <2>3. w.gens = [h \in DOMAIN w.gens |-> w.gens[h]]
        BY <1>2, <1>5
    <2> QED
        BY <1>0, <1>5, <2>2, <2>3 DEF SchedTyped
<1>8. LanesHeld(w)
    <2>1. ASSUME NEW v, NEW l, LaneHeld(u, v, l) PROVE LaneHeld(w, v, l)
        <3>1. \A i \in 1 .. Len(l.queued) : l.queued[i] # g
            BY <2>1 DEF LaneHeld, Settled
        <3> QED
            BY <1>2, <1>5, <2>1, <3>1 DEF LaneHeld
    <2>2. \A v \in DOMAIN u.lanes : LaneHeld(u, v, u.lanes[v])
        BY ONLY <1>0, LanesAre
    <2>3. \A v \in DOMAIN w.lanes : LaneHeld(w, v, w.lanes[v])
        BY <1>5, <2>1, <2>2
    <2> QED
        BY ONLY <2>3, LanesAre
<1>9. ReadyHeld(w)
    <2>1. \A i \in 1 .. Len(u.ready) : u.ready[i] # g /\ IsActive(u, u.ready[i])
                                       /\ u.gens[u.ready[i]].state = "queued"
        BY <1>0 DEF ReadyHeld, Settled
    <2> QED
        BY <1>0, <1>5, <1>6, <2>1 DEF ReadyHeld
<1>10. JobsHeld(w)
    <2>1. \A h \in DOMAIN u.jobs : h # g
        BY <1>0 DEF JobsHeld, Settled
    <2> QED
        BY <1>0, <1>5, <1>6, <2>1 DEF JobsHeld
<1> QED
    BY <1>2, <1>5, <1>7, <1>8, <1>9, <1>10 DEF Core, w

(* No two admissions have the same sequence. *)
Distinct(q) == \A i, j \in 1 .. Len(q) : q[i].seq = q[j].seq => i = j

(* The admissions of t are those of s without the first one, a. *)
Shorter(s, t, a) ==
    /\ \A x : x \in Awaiting(t, a.gen) <=> x \in Awaiting(s, a.gen) /\ x # a.seq
    /\ a.seq \in Awaiting(s, a.gen)
    /\ \A h : h # a.gen => Awaiting(t, h) = Awaiting(s, h)
    /\ t.admissions \in Seq(AdmissionRecord)
    /\ \A i \in 1 .. Len(t.admissions) : /\ i + 1 \in 1 .. Len(s.admissions)
                                         /\ t.admissions[i] = s.admissions[i + 1]

(* The first admission is drained: it waits no longer. *)
LEMMA AwaitingLess ==
    ASSUME NEW s, NEW t, s.admissions \in Seq(AdmissionRecord), s.admissions # << >>, NEW a,
           a = Head(s.admissions), t.admissions = Tail(s.admissions),
           Distinct(s.admissions)
    PROVE  Shorter(s, t, a)
<1> DEFINE p == s.admissions
           q == t.admissions
<1>1. /\ Len(p) \in Nat /\ Len(p) > 0 /\ a = p[1] /\ q \in Seq(AdmissionRecord)
      /\ Len(q) = Len(p) - 1 /\ \A i \in 1 .. Len(p) - 1 : q[i] = p[i + 1]
    BY SeqFacts
<1>2. \A h : Awaiting(t, h) = {q[i].seq : i \in {j \in 1 .. Len(q) : q[j].gen = h}}
    BY DEF Awaiting
<1>3. \A h : Awaiting(s, h) = {p[i].seq : i \in {j \in 1 .. Len(p) : p[j].gen = h}}
    BY DEF Awaiting
<1>4. \A i, j \in 1 .. Len(p) : p[i].seq = p[j].seq => i = j
    BY DEF Distinct
<1> HIDE DEF p, q
<1>5. \A i \in 1 .. Len(q) : i + 1 \in 1 .. Len(p) /\ i + 1 # 1 /\ q[i] = p[i + 1]
    BY <1>1
<1>6. 1 \in 1 .. Len(p)
    BY <1>1
<1>7. ASSUME NEW i \in 1 .. Len(p), i # 1 PROVE i - 1 \in 1 .. Len(q) /\ q[i - 1] = p[i]
    <2>1. i - 1 \in 1 .. Len(q) /\ i - 1 \in 1 .. Len(p) - 1
        BY <1>1, <1>7
    <2>2. q[i - 1] = p[(i - 1) + 1]
        BY <1>1, <2>1
    <2>3. (i - 1) + 1 = i
        BY <1>1
    <2> QED
        BY <2>1, <2>2, <2>3
<1>8. ASSUME NEW h, NEW x \in Awaiting(t, h) PROVE x \in Awaiting(s, h) /\ x # a.seq
    <2>1. PICK i \in 1 .. Len(q) : q[i].gen = h /\ x = q[i].seq
        BY <1>2, <1>8
    <2>2. i + 1 \in 1 .. Len(p) /\ i + 1 # 1 /\ p[i + 1].gen = h /\ x = p[i + 1].seq
        BY <1>5, <2>1
    <2> QED
        BY <1>1, <1>3, <1>4, <1>6, <2>2
<1>9. ASSUME NEW h, NEW x \in Awaiting(s, h), h # a.gen \/ x # a.seq PROVE x \in Awaiting(t, h)
    <2>1. PICK i \in 1 .. Len(p) : p[i].gen = h /\ x = p[i].seq
        BY <1>3, <1>9
    <2>2. i # 1
        BY <1>1, <1>9, <2>1
    <2>3. i - 1 \in 1 .. Len(q) /\ q[i - 1] = p[i]
        BY <1>7, <2>2
    <2> QED
        BY <1>2, <2>1, <2>3
<1>10. a.seq \in Awaiting(s, a.gen)
    BY <1>1, <1>3, <1>6
<1>11. \A x : x \in Awaiting(t, a.gen) <=> x \in Awaiting(s, a.gen) /\ x # a.seq
    BY <1>8, <1>9
<1>12. \A h : h # a.gen => Awaiting(t, h) = Awaiting(s, h)
    <2> SUFFICES ASSUME NEW h, h # a.gen PROVE Awaiting(t, h) = Awaiting(s, h)
        OBVIOUS
    <2>1. ASSUME NEW x \in Awaiting(t, h) PROVE x \in Awaiting(s, h)
        BY <1>8
    <2>2. ASSUME NEW x \in Awaiting(s, h) PROVE x \in Awaiting(t, h)
        BY <1>9
    <2> QED
        BY <2>1, <2>2
<1> QED
    BY <1>1, <1>5, <1>10, <1>11, <1>12 DEF Shorter, p, q

(* The admissions behind the first, whose generation counted it. *)
LEMMA AdmissionLess ==
    ASSUME NEW s, AdmissionsHeld(s), s.admissions \in Seq(AdmissionRecord), s.admissions # << >>,
           NEW a, a = Head(s.admissions), NEW t, t.admissions = Tail(s.admissions),
           Distinct(s.admissions),
           DOMAIN t.gens \subseteq DOMAIN s.gens,
           \A h \in DOMAIN s.gens : h # a.gen => /\ h \in DOMAIN t.gens
                                                 /\ t.gens[h].sem = s.gens[h].sem
                                                 /\ t.gens[h].remaining = s.gens[h].remaining,
           a.gen \in DOMAIN s.gens =>
              \/ a.gen \notin DOMAIN t.gens /\ s.gens[a.gen].remaining = 1
              \/ /\ a.gen \in DOMAIN t.gens /\ t.gens[a.gen].sem = s.gens[a.gen].sem
                 /\ t.gens[a.gen].remaining = s.gens[a.gen].remaining - 1
    PROVE  AdmissionsHeld(t)
<1> DEFINE g == a.gen
           A == Awaiting(s, g)
           B == Awaiting(t, g)
<1>0. /\ s.admissions \in Seq(AdmissionRecord) /\ s.admissions # << >>
      /\ a = Head(s.admissions) /\ t.admissions = Tail(s.admissions)
      /\ Distinct(s.admissions)
    OBVIOUS
<1>1. /\ \A x : x \in Awaiting(t, a.gen) <=> x \in Awaiting(s, a.gen) /\ x # a.seq
      /\ a.seq \in Awaiting(s, a.gen)
      /\ \A h : h # a.gen => Awaiting(t, h) = Awaiting(s, h)
      /\ t.admissions \in Seq(AdmissionRecord)
      /\ \A i \in 1 .. Len(t.admissions) : /\ i + 1 \in 1 .. Len(s.admissions)
                                           /\ t.admissions[i] = s.admissions[i + 1]
    <2>1. Shorter(s, t, a)
        BY ONLY <1>0, AwaitingLess
    <2> QED
        BY ONLY <2>1 DEF Shorter
<1>2. a.seq \in A /\ B = A \ {a.seq}
    BY ONLY <1>1
<1>3. g \in DOMAIN s.gens => IsFiniteSet(A) /\ s.gens[g].remaining = Cardinality(A)
    BY DEF AdmissionsHeld
<1> HIDE DEF A, B
<1>4. g \in DOMAIN s.gens => IsFiniteSet(B) /\ s.gens[g].remaining = Cardinality(B) + 1
    <2> SUFFICES ASSUME g \in DOMAIN s.gens
                 PROVE  IsFiniteSet(B) /\ s.gens[g].remaining = Cardinality(B) + 1
        OBVIOUS
    <2>1. IsFiniteSet(A) /\ s.gens[g].remaining = Cardinality(A)
        BY <1>3
    <2>2. IsFiniteSet(B) /\ Cardinality(B) = Cardinality(A) - 1
        BY ONLY <1>2, <2>1, FS_RemoveElement
    <2>3. Cardinality(A) \in Nat
        BY ONLY <2>1, FS_CardinalityType
    <2> QED
        BY ONLY <2>1, <2>2, <2>3
<1>5. ASSUME NEW i \in 1 .. Len(t.admissions)
      PROVE  /\ t.admissions[i].kind \in {"immediate", "ordinary"} => t.admissions[i].gen = NoGen
             /\ t.admissions[i].kind \in {"registration", "evidence"} =>
                    t.admissions[i].gen \in DOMAIN t.gens
             /\ t.admissions[i].kind = "registration" =>
                    t.gens[t.admissions[i].gen].sem # Empty
             /\ t.admissions[i].kind = "evidence" =>
                    t.gens[t.admissions[i].gen].sem = Empty
    <2> DEFINE b == t.admissions[i]
    <2>1. PICK k \in 1 .. Len(s.admissions) : b = s.admissions[k]
        BY <1>1, <1>5
    <2>2. /\ b.kind \in {"immediate", "ordinary"} => b.gen = NoGen
          /\ b.kind \in {"registration", "evidence"} => b.gen \in DOMAIN s.gens
          /\ b.kind = "registration" => s.gens[b.gen].sem # Empty
          /\ b.kind = "evidence" => s.gens[b.gen].sem = Empty
        BY <2>1 DEF AdmissionsHeld
    <2>3. b.seq \in Awaiting(t, b.gen)
        BY <1>5 DEF Awaiting
    <2> HIDE DEF b
    <2>4. b.gen \in DOMAIN s.gens => b.gen \in DOMAIN t.gens /\ t.gens[b.gen].sem = s.gens[b.gen].sem
        <3>1. CASE b.gen = g
            <4> SUFFICES ASSUME g \in DOMAIN s.gens
                         PROVE  g \in DOMAIN t.gens /\ t.gens[g].sem = s.gens[g].sem
                BY <3>1
            <4>1. IsFiniteSet(B) /\ s.gens[g].remaining = Cardinality(B) + 1 /\ b.seq \in B
                BY <1>4, <2>3, <3>1 DEF B
            <4>2. Cardinality(B) \in Nat /\ (Cardinality(B) = 0 <=> B = {})
                BY ONLY <4>1, FS_CardinalityType, FS_EmptySet
            <4>3. s.gens[g].remaining # 1
                BY ONLY <4>1, <4>2
            <4> QED
                BY <4>3
        <3>2. CASE b.gen # g
            BY <3>2
        <3> QED
            BY <3>1, <3>2
    <2>5. /\ b.kind \in {"immediate", "ordinary"} => b.gen = NoGen
          /\ b.kind \in {"registration", "evidence"} => b.gen \in DOMAIN t.gens
          /\ b.kind = "registration" => t.gens[b.gen].sem # Empty
          /\ b.kind = "evidence" => t.gens[b.gen].sem = Empty
        BY ONLY <2>2, <2>4
    <2> QED
        BY ONLY <2>5 DEF b
<1>6. ASSUME NEW h \in DOMAIN t.gens
      PROVE  /\ IsFiniteSet(Awaiting(t, h))
             /\ t.gens[h].remaining = Cardinality(Awaiting(t, h))
    <2>0. h \in DOMAIN s.gens
        BY <1>6
    <2>1. CASE h = g
        <3>1. IsFiniteSet(B) /\ s.gens[g].remaining = Cardinality(B) + 1
            BY <1>4, <2>0, <2>1
        <3>2. t.gens[g].remaining = s.gens[g].remaining - 1
            BY <1>6, <2>0, <2>1
        <3>3. Cardinality(B) \in Nat
            BY ONLY <3>1, FS_CardinalityType
        <3>4. t.gens[g].remaining = Cardinality(B)
            BY ONLY <3>1, <3>2, <3>3
        <3> QED
            BY ONLY <2>1, <3>1, <3>4 DEF B
    <2>2. CASE h # g
        <3>1. Awaiting(t, h) = Awaiting(s, h) /\ t.gens[h].remaining = s.gens[h].remaining
            BY <1>1, <2>0, <2>2
        <3>2. IsFiniteSet(Awaiting(s, h)) /\ s.gens[h].remaining = Cardinality(Awaiting(s, h))
            BY <2>0 DEF AdmissionsHeld
        <3> QED
            BY ONLY <3>1, <3>2
    <2> QED
        BY <2>1, <2>2
<1> QED
    BY <1>5, <1>6 DEF AdmissionsHeld

(* The scheduler without its first admission. *)
LEMMA RestOK ==
    ASSUME NEW s, Core(s), s.admissions # << >>
    PROVE  LET t == [s EXCEPT !.admissions = Tail(@)]
           IN  /\ Core(t) /\ t.admissions = Tail(s.admissions)
               /\ t.gens = s.gens /\ t.nextGen = s.nextGen
<1> DEFINE t == [s EXCEPT !.admissions = Tail(@)]
           q == Tail(s.admissions)
<1>1. /\ s = [admissions |-> s.admissions, lanes |-> s.lanes, gens |-> s.gens,
              nextGen |-> s.nextGen, ready |-> s.ready, jobs |-> s.jobs]
      /\ s.admissions \in Seq(AdmissionRecord)
    BY DEF Core, SchedTyped
<1>2. t = [s EXCEPT !.admissions = q]
    BY <1>1
<1>3. q \in Seq(AdmissionRecord)
    BY <1>1
<1> HIDE DEF t, q
<1>5. t = [admissions |-> q, lanes |-> s.lanes, gens |-> s.gens,
           nextGen |-> s.nextGen, ready |-> s.ready, jobs |-> s.jobs]
    BY <1>1, <1>2, OtherAdmissions
<1>6. /\ t = [admissions |-> t.admissions, lanes |-> t.lanes, gens |-> t.gens,
              nextGen |-> t.nextGen, ready |-> t.ready, jobs |-> t.jobs]
      /\ t.admissions = q
      /\ t.lanes = s.lanes /\ t.gens = s.gens /\ t.nextGen = s.nextGen
      /\ t.ready = s.ready /\ t.jobs = s.jobs
    BY <1>5
<1>7. Core(t)
    BY <1>3, <1>6, CoreOfAdmissions
<1> QED
    BY <1>6, <1>7 DEF t, q

(* finish_registration and finish_evidence: the tables behind them. *)
LEMMA FinishCore ==
    ASSUME MaxJobs \in Nat, NEW r, Core(r), NEW a, a.gen \in DOMAIN r.gens,
           r.gens[a.gen].state \in Settled, r.gens[a.gen].remaining # 0,
           NEW result \in {"committed", "failed"}
    PROVE  LET t == Finished(r, a, result)
               g == a.gen
           IN  /\ Core(t) /\ t.admissions = r.admissions /\ t.nextGen = r.nextGen
               /\ DOMAIN t.gens \subseteq DOMAIN r.gens
               /\ \A h \in DOMAIN r.gens : h # g =>
                     /\ h \in DOMAIN t.gens /\ t.gens[h].sem = r.gens[h].sem
                     /\ t.gens[h].remaining = r.gens[h].remaining
                     /\ \/ t.gens[h].state = r.gens[h].state
                        \/ r.gens[h].state = "queued" /\ t.gens[h].state = "running"
               /\ \/ g \notin DOMAIN t.gens /\ r.gens[g].remaining = 1
                  \/ /\ g \in DOMAIN t.gens /\ t.gens[g].sem = r.gens[g].sem
                     /\ t.gens[g].remaining = r.gens[g].remaining - 1
                     /\ t.gens[g].state = FinalState(r.gens[g].state, result)
<1> DEFINE g == a.gen
           f == FinalState(r.gens[g].state, result)
           x == [r EXCEPT !.gens[g].state = f]
           y == AdvanceLane(x, g)
           left == y.gens[g].remaining - 1
           t == Finished(r, a, result)
<1>1. f \in Settled
    BY DEF FinalState, Settled
<1>2. [r EXCEPT !.gens[g].state = FinalState(@, result)] = x
    BY DEF Core, SchedTyped
<1>3. t = IF left = 0 THEN [y EXCEPT !.gens = Without(@, g)]
          ELSE [y EXCEPT !.gens[g].remaining = left]
    BY <1>2 DEF Finished
<1> HIDE DEF f
<1>4. /\ Core(x) /\ x.admissions = r.admissions /\ x.nextGen = r.nextGen
      /\ DOMAIN x.gens = DOMAIN r.gens /\ x.gens[g].state = f
      /\ \A h \in DOMAIN r.gens :
            /\ x.gens[h].sem = r.gens[h].sem
            /\ x.gens[h].remaining = r.gens[h].remaining
            /\ h # g => x.gens[h].state = r.gens[h].state
    <2>1. Core(r) /\ g \in DOMAIN r.gens /\ r.gens[g].state \in Settled
        OBVIOUS
    <2> HIDE DEF g
    <2> QED
        BY ONLY <1>1, <2>1, SettledOK
<1> HIDE DEF x, g, t
<1>5. Core(y) /\ SameGens(x, y) /\ y.admissions = x.admissions /\ y.nextGen = x.nextGen
    <2>1. g \in DOMAIN x.gens /\ x.gens[g].state \in Settled /\ MaxJobs \in Nat
        BY <1>1, <1>4 DEF g
    <2> QED
        BY ONLY <1>4, <2>1, AdvanceOK
<1> HIDE DEF y
<1>6. /\ DOMAIN y.gens = DOMAIN r.gens /\ g \in DOMAIN r.gens /\ g \in DOMAIN y.gens
      /\ \A h \in DOMAIN r.gens :
            /\ y.gens[h].sem = r.gens[h].sem
            /\ y.gens[h].remaining = r.gens[h].remaining
            /\ h # g => \/ y.gens[h].state = r.gens[h].state
                        \/ r.gens[h].state = "queued" /\ y.gens[h].state = "running"
      /\ y.gens[g].state = f
    BY <1>1, <1>4, <1>5 DEF SameGens, Settled, g
<1>7. y.gens[g].remaining \in Nat
    BY <1>5, <1>6 DEF Core, SchedTyped
<1>8. r.gens[g].remaining # 0 /\ r.gens[g].remaining = y.gens[g].remaining
    BY <1>6 DEF g
<1>9. left \in Nat
    BY ONLY <1>7, <1>8
<1>10. CASE left = 0
    <2>1. t = [y EXCEPT !.gens = Without(@, g)]
        BY <1>3, <1>10
    <2>2. Core(y) /\ g \in DOMAIN y.gens /\ y.gens[g].state \in Settled
        BY <1>1, <1>5, <1>6
    <2>3. /\ Core(t) /\ t.admissions = y.admissions /\ t.nextGen = y.nextGen
          /\ DOMAIN t.gens = DOMAIN y.gens \ {g}
          /\ \A h \in DOMAIN t.gens : t.gens[h] = y.gens[h]
        <3> DEFINE w == [y EXCEPT !.gens = Without(@, g)]
        <3>1. /\ Core(w) /\ w.admissions = y.admissions /\ w.nextGen = y.nextGen
              /\ DOMAIN w.gens = DOMAIN y.gens \ {g}
              /\ \A h \in DOMAIN w.gens : w.gens[h] = y.gens[h]
            BY ONLY <2>2, ForgetOK
        <3>2. t = w
            BY ONLY <2>1
        <3> HIDE DEF w
        <3> QED
            BY ONLY <3>1, <3>2
    <2>4. r.gens[g].remaining = 1
        BY ONLY <1>7, <1>8, <1>10
    <2> QED
        BY <1>4, <1>5, <1>6, <2>3, <2>4 DEF g, t
<1>11. CASE left # 0
    <2>1. t = [y EXCEPT !.gens[g].remaining = left]
        BY <1>3, <1>11
    <2>2. r.gens[g].remaining - 1 = left
        BY <1>8
    <2> HIDE DEF left
    <2>3. /\ Core(t) /\ t.admissions = y.admissions /\ t.nextGen = y.nextGen
          /\ DOMAIN t.gens = DOMAIN y.gens /\ t.gens[g].remaining = left
          /\ \A h \in DOMAIN y.gens :
                     /\ t.gens[h].sem = y.gens[h].sem /\ t.gens[h].state = y.gens[h].state
                     /\ h # g => t.gens[h].remaining = y.gens[h].remaining
        <3> DEFINE w == [y EXCEPT !.gens[g].remaining = left]
        <3>1. /\ Core(w) /\ w.admissions = y.admissions /\ w.nextGen = y.nextGen
              /\ DOMAIN w.gens = DOMAIN y.gens /\ w.gens[g].remaining = left
              /\ \A h \in DOMAIN y.gens :
                     /\ w.gens[h].sem = y.gens[h].sem /\ w.gens[h].state = y.gens[h].state
                     /\ h # g => w.gens[h].remaining = y.gens[h].remaining
            BY ONLY <1>5, <1>6, <1>9, CountedOK
        <3>2. t = w
            BY ONLY <2>1
        <3> HIDE DEF w
        <3> QED
            BY ONLY <3>1, <3>2
    <2> QED
        BY <1>4, <1>5, <1>6, <2>2, <2>3 DEF g, t, f
<1> QED
    BY <1>10, <1>11

(* The admissions depend on what their generations are for and on their counters. *)
LEMMA SameAdmissions ==
    ASSUME NEW s, AdmissionsHeld(s), NEW t, t.admissions = s.admissions,
           DOMAIN t.gens = DOMAIN s.gens,
           \A h \in DOMAIN s.gens : /\ t.gens[h].sem = s.gens[h].sem
                                    /\ t.gens[h].remaining = s.gens[h].remaining
    PROVE  AdmissionsHeld(t)
<1>1. \A h : Awaiting(t, h) = Awaiting(s, h)
    BY DEF Awaiting
<1>2. \A i \in 1 .. Len(s.admissions) :
         /\ s.admissions[i].kind \in {"immediate", "ordinary"} => s.admissions[i].gen = NoGen
         /\ s.admissions[i].kind \in {"registration", "evidence"} =>
                s.admissions[i].gen \in DOMAIN s.gens
         /\ s.admissions[i].kind = "registration" => s.gens[s.admissions[i].gen].sem # Empty
         /\ s.admissions[i].kind = "evidence" => s.gens[s.admissions[i].gen].sem = Empty
    BY DEF AdmissionsHeld
<1>3. \A g \in DOMAIN t.gens : /\ IsFiniteSet(Awaiting(t, g))
                               /\ t.gens[g].remaining = Cardinality(Awaiting(t, g))
    BY <1>1 DEF AdmissionsHeld
<1>4. \A i \in 1 .. Len(t.admissions) :
         /\ t.admissions[i].kind \in {"immediate", "ordinary"} => t.admissions[i].gen = NoGen
         /\ t.admissions[i].kind \in {"registration", "evidence"} =>
                t.admissions[i].gen \in DOMAIN t.gens
         /\ t.admissions[i].kind = "registration" => t.gens[t.admissions[i].gen].sem # Empty
         /\ t.admissions[i].kind = "evidence" => t.gens[t.admissions[i].gen].sem = Empty
    BY <1>2
<1> QED
    BY <1>3, <1>4 DEF AdmissionsHeld

(* A job that has left the set with result v. *)
LeftSet(s, g, v) == [s EXCEPT !.gens[g].state = v, !.jobs = Without(@, g)]

(* The tables of which a job has left the set. *)
LEMMA EndedOK ==
    ASSUME MaxJobs \in Nat, NEW s, Core(s), NEW g \in DOMAIN s.jobs, NEW v \in {"prepared", "refused"}
    PROVE  LET u == LeftSet(s, g, v)
           IN  /\ Core(u) /\ u.admissions = s.admissions /\ u.nextGen = s.nextGen
               /\ DOMAIN u.gens = DOMAIN s.gens
               /\ g \in DOMAIN s.gens /\ u.gens[g].state = v /\ s.gens[g].state = "running"
               /\ \A h \in DOMAIN s.gens :
                     /\ u.gens[h].sem = s.gens[h].sem
                     /\ u.gens[h].remaining = s.gens[h].remaining
                     /\ h # g => u.gens[h].state = s.gens[h].state
<1> DEFINE x == [s.gens EXCEPT ![g].state = v]
           y == Without(s.jobs, g)
           u == LeftSet(s, g, v)
<1>0. SchedTyped(s) /\ LanesHeld(s) /\ ReadyHeld(s) /\ JobsHeld(s)
    BY DEF Core
<1>1. /\ s = [admissions |-> s.admissions, lanes |-> s.lanes, gens |-> s.gens,
              nextGen |-> s.nextGen, ready |-> s.ready, jobs |-> s.jobs]
      /\ s.gens = [h \in DOMAIN s.gens |-> s.gens[h]]
      /\ \A h \in DOMAIN s.gens :
            /\ s.gens[h] = [ws |-> s.gens[h].ws, sem |-> s.gens[h].sem,
                            remaining |-> s.gens[h].remaining, state |-> s.gens[h].state]
            /\ s.gens[h].remaining \in Nat
    BY <1>0 DEF SchedTyped
<1>2. IsActive(s, g) /\ s.gens[g].state = "running" /\ g \in DOMAIN s.gens
    BY <1>0 DEF JobsHeld, IsActive
<1>3. /\ x = [h \in DOMAIN s.gens |-> x[h]] /\ DOMAIN x = DOMAIN s.gens
      /\ x[g] = [ws |-> s.gens[g].ws, sem |-> s.gens[g].sem, remaining |-> s.gens[g].remaining,
                 state |-> v]
      /\ \A h \in DOMAIN s.gens : h # g => x[h] = s.gens[h]
    <2>1. x[g] = [s.gens[g] EXCEPT !.state = v]
        BY <1>1, <1>2
    <2>2. [s.gens[g] EXCEPT !.state = v] =
              [ws |-> s.gens[g].ws, sem |-> s.gens[g].sem, remaining |-> s.gens[g].remaining,
                 state |-> v]
        <3> DEFINE e == s.gens[g]
        <3>1. e = [ws |-> e.ws, sem |-> e.sem, remaining |-> e.remaining, state |-> e.state]
            BY <1>1, <1>2
        <3> HIDE DEF e
        <3>2. [e EXCEPT !.state = v] = [ws |-> e.ws, sem |-> e.sem, remaining |-> e.remaining,
                                        state |-> v]
            BY <3>1, FieldUpdates
        <3> QED
            BY <3>2 DEF e
    <2>3. /\ x = [h \in DOMAIN s.gens |-> x[h]] /\ DOMAIN x = DOMAIN s.gens
          /\ \A h \in DOMAIN s.gens : h # g => x[h] = s.gens[h]
        BY <1>1
    <2> QED
        BY <2>1, <2>2, <2>3
<1>4. /\ DOMAIN y = DOMAIN s.jobs \ {g} /\ y = [h \in DOMAIN y |-> y[h]]
      /\ \A h \in DOMAIN y : y[h] = s.jobs[h]
    BY DEF Without
<1>5. u = [s EXCEPT !.gens = x, !.jobs = y]
    BY <1>1 DEF LeftSet
<1> HIDE DEF x, y, u
<1>6. u = [admissions |-> s.admissions, lanes |-> s.lanes, gens |-> x,
           nextGen |-> s.nextGen, ready |-> s.ready, jobs |-> y]
    BY <1>1, <1>5, OtherJobs
<1>7. /\ u = [admissions |-> u.admissions, lanes |-> u.lanes, gens |-> u.gens,
              nextGen |-> u.nextGen, ready |-> u.ready, jobs |-> u.jobs]
      /\ u.admissions = s.admissions /\ u.lanes = s.lanes /\ u.gens = x
      /\ u.nextGen = s.nextGen /\ u.ready = s.ready /\ u.jobs = y
    BY <1>6
<1>8. \A h \in DOMAIN s.gens :
         /\ x[h] = [ws |-> x[h].ws, sem |-> x[h].sem, remaining |-> x[h].remaining,
                    state |-> x[h].state]
         /\ x[h].ws = s.gens[h].ws /\ x[h].sem = s.gens[h].sem
         /\ x[h].remaining = s.gens[h].remaining /\ x[h].remaining \in Nat
         /\ h # g => x[h].state = s.gens[h].state
         /\ h = g => x[h].state = v
    <2> SUFFICES ASSUME NEW h \in DOMAIN s.gens
                 PROVE  /\ x[h] = [ws |-> x[h].ws, sem |-> x[h].sem,
                                   remaining |-> x[h].remaining, state |-> x[h].state]
                        /\ x[h].ws = s.gens[h].ws /\ x[h].sem = s.gens[h].sem
                        /\ x[h].remaining = s.gens[h].remaining /\ x[h].remaining \in Nat
                        /\ h # g => x[h].state = s.gens[h].state
                        /\ h = g => x[h].state = v
        OBVIOUS
    <2>1. CASE h = g
        BY <1>1, <1>3, <2>1
    <2>2. CASE h # g
        BY <1>1, <1>3, <2>2
    <2> QED
        BY <2>1, <2>2
<1>9. \A h : IsActive(s, h) => IsActive(u, h) /\ h \in DOMAIN s.gens
    BY <1>3, <1>7, <1>8 DEF IsActive
<1>10. SchedTyped(u)
    <2>1. \A h \in DOMAIN u.gens :
             /\ h \in 1 .. u.nextGen - 1
             /\ u.gens[h] = [ws |-> u.gens[h].ws, sem |-> u.gens[h].sem,
                             remaining |-> u.gens[h].remaining, state |-> u.gens[h].state]
             /\ u.gens[h].remaining \in Nat /\ u.gens[h].state \in GenStates
        <3> SUFFICES ASSUME NEW h \in DOMAIN s.gens
                     PROVE  h \in 1 .. s.nextGen - 1 /\ x[h].state \in GenStates
            BY <1>3, <1>7, <1>8
        <3>1. h \in 1 .. s.nextGen - 1 /\ s.gens[h].state \in GenStates
            BY <1>0 DEF SchedTyped
        <3>2. v \in GenStates
            BY DEF GenStates, Settled
        <3> QED
            BY <1>8, <3>1, <3>2
    <2>2. u.gens = [h \in DOMAIN u.gens |-> u.gens[h]] /\ u.jobs = [h \in DOMAIN u.jobs |-> u.jobs[h]]
        BY <1>3, <1>4, <1>7
    <2>3. \A h \in DOMAIN u.jobs : u.jobs[h] \in {"running", "prepared", "refused"}
        BY <1>0, <1>4, <1>7 DEF SchedTyped
    <2> QED
        BY <1>0, <1>7, <2>1, <2>2, <2>3 DEF SchedTyped
<1>11. LanesHeld(u)
    <2>1. ASSUME NEW w, NEW l, LaneHeld(s, w, l) PROVE LaneHeld(u, w, l)
        <3>1. \A i \in 1 .. Len(l.queued) : l.queued[i] # g
            BY <1>2, <2>1 DEF LaneHeld
        <3>2. \A i \in 1 .. Len(l.queued) : l.queued[i] \in DOMAIN s.gens
            BY ONLY <2>1 DEF LaneHeld
        <3>3. \A i \in 1 .. Len(l.queued) :
                 /\ l.queued[i] \in DOMAIN u.gens
                 /\ u.gens[l.queued[i]].ws = s.gens[l.queued[i]].ws
                 /\ u.gens[l.queued[i]].state = s.gens[l.queued[i]].state
            BY ONLY <1>3, <1>7, <1>8, <3>1, <3>2
        <3>4. u.nextGen = s.nextGen
            BY <1>7
        <3> QED
            BY ONLY <2>1, <3>3, <3>4 DEF LaneHeld
    <2>2. \A w \in DOMAIN s.lanes : LaneHeld(s, w, s.lanes[w])
        BY ONLY <1>0, LanesAre
    <2>3. \A w \in DOMAIN u.lanes : LaneHeld(u, w, u.lanes[w])
        BY <1>7, <2>1, <2>2
    <2> QED
        BY ONLY <2>3, LanesAre
<1>12. ReadyHeld(u)
    <2>1. \A i \in 1 .. Len(s.ready) : s.ready[i] # g /\ IsActive(s, s.ready[i])
                                       /\ s.gens[s.ready[i]].state = "queued"
        BY <1>0, <1>2 DEF ReadyHeld
    <2>2. \A i \in 1 .. Len(s.ready) : IsActive(u, s.ready[i]) /\ u.gens[s.ready[i]].state = "queued"
        BY <1>7, <1>8, <1>9, <2>1
    <2> QED
        BY <1>0, <1>7, <2>2 DEF ReadyHeld
<1>13. JobsHeld(u)
    <2>1. \A h \in DOMAIN u.jobs : IsActive(u, h) /\ u.gens[h].state = "running"
        BY <1>0, <1>4, <1>7, <1>8, <1>9 DEF JobsHeld
    <2>2. IsFiniteSet(DOMAIN s.jobs) /\ Cardinality(DOMAIN s.jobs) <= MaxJobs
        BY <1>0 DEF JobsHeld
    <2> DEFINE J == DOMAIN s.jobs
               K == DOMAIN u.jobs
    <2>3. K \subseteq J /\ IsFiniteSet(J) /\ Cardinality(J) <= MaxJobs
        BY <1>4, <1>7, <2>2
    <2>4. K = J \ {g} /\ g \in J
        BY <1>4, <1>7
    <2> HIDE DEF J, K
    <2>5. IsFiniteSet(K) /\ Cardinality(K) = Cardinality(J) - 1 /\ Cardinality(J) \in Nat
        BY ONLY <2>3, <2>4, FS_RemoveElement, FS_CardinalityType
    <2>6. Cardinality(K) <= MaxJobs
        BY <2>3, <2>5
    <2> QED
        BY <2>1, <2>5, <2>6 DEF JobsHeld, K
<1> QED
    BY <1>2, <1>3, <1>7, <1>8, <1>10, <1>11, <1>12, <1>13 DEF Core, u

(* Steps that leave the scheduler and what it drained alone. *)
LEMMA QuietOK ==
    ASSUME IInv, UNCHANGED <<schedVars, histVars>>, TypeOK', loop.stopping => loop'.stopping,
           loop'.pendingStop # Empty => loop'.stopping /\ stopSeq = 0
    PROVE  IInv'
<1>1. Sched' = Sched
    BY DEF schedVars, Sched
<1>2. /\ nextSeq' = nextSeq /\ drained' = drained /\ stopSeq' = stopSeq /\ commits' = commits
      /\ admissions' = admissions
    BY DEF schedVars, histVars
<1>3. SchedHeld(Sched)' /\ CommitsHeld(Sched, commits)'
    BY <1>1, <1>2 DEF IInv
<1>4. SequencesHeld'
    BY <1>2 DEF IInv, SequencesHeld
<1>5. StopHeld'
    BY <1>2 DEF IInv, StopHeld
<1> QED
    BY <1>3, <1>4, <1>5 DEF IInv

(* The steps of the connections. *)
LEMMA ConnectionsOK ==
    ASSUME IInv, Connections
    PROVE  IInv'
<1>0. TypeOK /\ StopHeld
    BY DEF IInv
<1>1. ASSUME NEW r \in Requests, Submit(r) PROVE IInv'
    <2>1. TypeOK'
        BY <1>0, <1>1 DEF TypeOK, Submit, histVars
    <2> QED
        BY <1>0, <1>1, <2>1, QuietOK DEF Submit, StopHeld
<1>2. ASSUME NEW r \in Requests, Enqueue(r) PROVE IInv'
    <2>1. data' \in Seq(Requests) /\ control' \in Seq(Requests)
        BY <1>0, <1>2 DEF TypeOK, Enqueue
    <2>2. conn' \in [Requests -> {"idle", "sending", "waiting", "closed"}]
        BY <1>0, <1>2 DEF TypeOK, Enqueue
    <2>3. TypeOK'
        BY <1>0, <1>2, <2>1, <2>2 DEF TypeOK, Enqueue, histVars
    <2> QED
        BY <1>0, <1>2, <2>3, QuietOK DEF Enqueue, StopHeld
<1>3. ASSUME EndServing PROVE IInv'
    <2>1. TypeOK'
        BY <1>0, <1>3 DEF TypeOK, EndServing, histVars
    <2> QED
        BY <1>0, <1>3, <2>1, QuietOK DEF EndServing, StopHeld
<1> QED
    BY <1>1, <1>2, <1>3 DEF Connections

(* The channels are closed for a stop. *)
LEMMA StopBegins ==
    ASSUME IInv, ~ loop.stopping, NEW r \in Requests, BeginWriterStop(r),
           UNCHANGED <<claimed, serving>>, UNCHANGED <<schedVars, histVars>>
    PROVE  IInv'
<1>0. TypeOK /\ StopHeld
    BY DEF IInv
<1>1. stopSeq = 0
    BY <1>0 DEF StopHeld
<1>2. loop' = [stage |-> "act", open |-> FALSE, controlOpen |-> FALSE,
               stopping |-> TRUE, pendingStop |-> r]
    BY DEF BeginWriterStop
<1>3. loop' \in [stage : {"poll", "act", "ended"}, open : BOOLEAN, controlOpen : BOOLEAN,
                  stopping : BOOLEAN, pendingStop : Requests \cup {Empty}]
      /\ loop'.stopping
    BY <1>2
<1>4. data' \in Seq(Requests) /\ control' \in Seq(Requests)
    BY DEF BeginWriterStop
<1>5. conn' \in [Requests -> {"idle", "sending", "waiting", "closed"}]
    BY <1>0 DEF BeginWriterStop, TypeOK
<1>6. TypeOK'
    BY <1>0, <1>3, <1>4, <1>5 DEF TypeOK, histVars
<1> QED
    BY <1>1, <1>3, <1>6, QuietOK

(* The steps of the writer loop that admit and drain nothing. *)
LEMMA LoopOK ==
    ASSUME IInv, PollControl \/ LoopEnds \/ SelectControl
    PROVE  IInv'
<1>0. TypeOK /\ StopHeld
    BY DEF IInv
<1>1. /\ loop = [stage |-> loop.stage, open |-> loop.open, controlOpen |-> loop.controlOpen,
                 stopping |-> loop.stopping, pendingStop |-> loop.pendingStop]
      /\ loop.open \in BOOLEAN /\ loop.controlOpen \in BOOLEAN /\ loop.stopping \in BOOLEAN
      /\ loop.pendingStop \in Requests \cup {Empty} /\ serving \in BOOLEAN
    BY <1>0 DEF TypeOK
<1>2. control # << >> => Head(control) \in Requests
    BY <1>0 DEF TypeOK
<1>3. ASSUME NEW stage \in {"poll", "act", "ended"}, NEW co \in BOOLEAN,
             loop' = [stage |-> stage, open |-> loop.open, controlOpen |-> co,
                      stopping |-> loop.stopping, pendingStop |-> loop.pendingStop],
             UNCHANGED clientVars, UNCHANGED <<schedVars, histVars>>
      PROVE  IInv'
    <2>1. /\ loop' \in [stage : {"poll", "act", "ended"}, open : BOOLEAN, controlOpen : BOOLEAN,
                  stopping : BOOLEAN, pendingStop : Requests \cup {Empty}]
          /\ loop'.stopping = loop.stopping /\ loop'.pendingStop = loop.pendingStop
        BY <1>1, <1>3
    <2>2. TypeOK'
        BY <1>0, <1>3, <2>1 DEF TypeOK, clientVars, histVars
    <2> QED
        BY <1>0, <1>3, <2>1, <2>2, QuietOK DEF StopHeld
<1>4. ASSUME PollControl PROVE IInv'
    <2>1. CASE ~loop.stopping /\ control # <<>>
        <3>1. BeginWriterStop(Head(control)) /\ UNCHANGED <<claimed, serving>>
              /\ UNCHANGED <<schedVars, histVars>>
            BY <1>4, <2>1 DEF PollControl, WriterUnchanged
        <3> QED
            BY <1>2, <2>1, <3>1, StopBegins
    <2>2. CASE ~(~loop.stopping /\ control # <<>>)
        <3> DEFINE co == loop.controlOpen /\ serving
        <3>1. /\ loop' = [loop EXCEPT !.stage = "act", !.controlOpen = co]
              /\ UNCHANGED clientVars /\ UNCHANGED <<schedVars, histVars>>
            BY <1>4, <2>2 DEF PollControl, WriterUnchanged, clientVars
        <3>2. co \in BOOLEAN
            BY <1>1
        <3> HIDE DEF co
        <3>3. loop' = [stage |-> "act", open |-> loop.open, controlOpen |-> co,
                      stopping |-> loop.stopping, pendingStop |-> loop.pendingStop]
            BY <1>1, <3>1
        <3> QED
            BY <1>3, <3>1, <3>2, <3>3
    <2> QED
        BY <2>1, <2>2
<1>5. ASSUME LoopEnds PROVE IInv'
    <2>1. /\ loop' = [loop EXCEPT !.stage = "ended"]
          /\ UNCHANGED clientVars /\ UNCHANGED <<schedVars, histVars>>
        BY <1>5 DEF LoopEnds
    <2>2. loop' = [stage |-> "ended", open |-> loop.open, controlOpen |-> loop.controlOpen,
                   stopping |-> loop.stopping, pendingStop |-> loop.pendingStop]
        BY <1>1, <2>1
    <2> QED
        BY <1>1, <1>3, <2>1, <2>2
<1>6. ASSUME SelectControl PROVE IInv'
    <2>1. /\ ~ loop.stopping /\ UNCHANGED <<claimed, serving>>
          /\ UNCHANGED <<schedVars, histVars>>
        BY <1>6 DEF SelectControl, WriterUnchanged
    <2>2. CASE control # <<>> /\ BeginWriterStop(Head(control))
        BY <1>2, <2>1, <2>2, StopBegins
    <2>3. CASE /\ loop' = [loop EXCEPT !.controlOpen = FALSE, !.stage = "poll"]
               /\ UNCHANGED <<data, control, conn>>
        <3>1. loop' = [stage |-> "poll", open |-> loop.open, controlOpen |-> FALSE,
                       stopping |-> loop.stopping, pendingStop |-> loop.pendingStop]
            BY <1>1, <2>3
        <3>2. UNCHANGED clientVars
            BY <2>1, <2>3 DEF clientVars
        <3> QED
            BY <1>3, <2>1, <3>1, <3>2
    <2> QED
        BY <1>6, <2>2, <2>3 DEF SelectControl
<1> QED
    BY <1>4, <1>5, <1>6

(* What a step leaves in the scheduler. *)
LEMMA SetIs ==
    ASSUME NEW t, SchedTyped(t), SetSched(t)
    PROVE  Sched' = t /\ admissions' = t.admissions
BY DEF SetSched, Sched, SchedTyped

(* The sequence of the next admission is new, and the ones there are differ. *)
LEMMA SequencesDiffer ==
    ASSUME IInv
    PROVE  /\ nextSeq \in Nat /\ drained.last \in Nat /\ Sched.admissions = admissions
           /\ admissions \in Seq(AdmissionRecord) /\ Len(admissions) \in Nat
           /\ \A i \in 1 .. Len(admissions) : admissions[i].seq # nextSeq
           /\ Distinct(admissions)
<1>1. nextSeq \in Nat /\ drained.last \in Nat
    BY DEF IInv, TypeOK
<1>2. Sched.admissions = admissions
    BY DEF Sched
<1>3. admissions \in Seq(AdmissionRecord)
    BY <1>2 DEF IInv, SchedHeld, SchedTyped
<1>4. Len(admissions) \in Nat
    BY <1>3
<1>5. /\ nextSeq = drained.last + Len(admissions) + 1
      /\ \A i \in 1 .. Len(admissions) : admissions[i].seq = drained.last + i
    BY DEF IInv, SequencesHeld
<1>6. \A i \in 1 .. Len(admissions) : admissions[i].seq # nextSeq
    BY <1>1, <1>4, <1>5
<1>7. Distinct(admissions)
    BY <1>1, <1>4, <1>5 DEF Distinct
<1> QED
    BY <1>1, <1>2, <1>3, <1>4, <1>6, <1>7

(* A request is admitted: AdmitStop and SelectData. *)
LEMMA AdmitStep ==
    ASSUME WriterConstants, IInv, NEW r \in Requests, NEW t \in Admitted(Sched, r), SetSched(t),
           nextSeq' = nextSeq + 1, drained' = drained, commits' = commits
    PROVE  SchedHeld(Sched)' /\ CommitsHeld(Sched, commits)' /\ SequencesHeld'
<1>1. /\ nextSeq \in Nat /\ drained.last \in Nat /\ Sched.admissions = admissions
      /\ admissions \in Seq(AdmissionRecord) /\ Len(admissions) \in Nat
      /\ \A i \in 1 .. Len(admissions) : admissions[i].seq # nextSeq
    BY SequencesDiffer
<1>2. SchedHeld(Sched) /\ CommitsHeld(Sched, commits) /\ SequencesHeld
    BY DEF IInv
<1>3. /\ SchedHeld(t) /\ CommitsHeld(t, commits)
      /\ \E a \in AdmissionRecord : a.seq = nextSeq /\ t.admissions = Append(Sched.admissions, a)
    <2> DEFINE s == Sched
               c == commits
    <2>1. /\ SchedHeld(s) /\ CommitsHeld(s, c) /\ t \in Admitted(s, r) /\ r \in Requests
          /\ nextSeq \in Nat /\ WriterConstants
          /\ \A i \in 1 .. Len(s.admissions) : s.admissions[i].seq # nextSeq
        BY <1>1, <1>2
    <2> HIDE DEF s, c
    <2>2. /\ SchedHeld(t) /\ CommitsHeld(t, c)
          /\ \E a \in AdmissionRecord : a.seq = nextSeq /\ t.admissions = Append(s.admissions, a)
        BY ONLY <2>1, AdmittedOK
    <2> QED
        BY ONLY <2>2 DEF s, c
<1>4. Sched' = t /\ admissions' = t.admissions
    BY <1>3, SetIs DEF SchedHeld
<1>5. SchedHeld(Sched)' /\ CommitsHeld(Sched, commits)'
    BY <1>3, <1>4
<1>6. PICK a \in AdmissionRecord : a.seq = nextSeq /\ admissions' = Append(admissions, a)
    BY <1>1, <1>3, <1>4
<1>7. /\ Len(admissions') = Len(admissions) + 1 /\ admissions'[Len(admissions) + 1] = a
      /\ \A i \in 1 .. Len(admissions) : admissions'[i] = admissions[i]
    BY <1>1, <1>6, SeqFacts
<1>8. /\ drained.inOrder /\ nextSeq = drained.last + Len(admissions) + 1
      /\ \A i \in 1 .. Len(admissions) : admissions[i].seq = drained.last + i
    BY <1>2 DEF SequencesHeld
<1>9. nextSeq' = drained.last + Len(admissions') + 1
    <2> DEFINE d == drained.last
               n == Len(admissions)
               m == Len(admissions')
               x == nextSeq
               y == nextSeq'
    <2>1. d \in Nat /\ n \in Nat /\ m = n + 1 /\ x = d + n + 1 /\ y = x + 1
        BY <1>1, <1>7, <1>8
    <2> HIDE DEF d, n, m, x, y
    <2>2. y = d + m + 1
        BY ONLY <2>1
    <2> QED
        BY ONLY <2>2 DEF d, m, y
<1>10. ASSUME NEW i \in 1 .. Len(admissions') PROVE admissions'[i].seq = drained.last + i
    <2>1. i = Len(admissions) + 1 \/ i \in 1 .. Len(admissions)
        BY <1>1, <1>7
    <2>2. CASE i = Len(admissions) + 1
        BY <1>1, <1>6, <1>7, <1>8, <2>2
    <2>3. CASE i \in 1 .. Len(admissions)
        BY <1>7, <1>8, <2>3
    <2> QED
        BY <2>1, <2>2, <2>3
<1>11. SequencesHeld'
    BY <1>8, <1>9, <1>10 DEF SequencesHeld
<1> QED
    BY <1>5, <1>11

(* AdmitStop. *)
LEMMA AdmitStopOK ==
    ASSUME WriterConstants, IInv, AdmitStop
    PROVE  IInv'
<1>0. TypeOK /\ StopHeld
    BY DEF IInv
<1>1. /\ loop.pendingStop # Empty /\ loop.pendingStop \in Requests
      /\ nextSeq' = nextSeq + 1 /\ stopSeq' = nextSeq /\ drained' = drained /\ commits' = commits
      /\ loop' = [loop EXCEPT !.pendingStop = Empty] /\ UNCHANGED clientVars
    BY <1>0 DEF AdmitStop, TypeOK
<1>2. PICK t \in Admitted(Sched, loop.pendingStop) : SetSched(t)
    BY DEF AdmitStop
<1>3. SchedHeld(Sched)' /\ CommitsHeld(Sched, commits)' /\ SequencesHeld'
    <2> DEFINE r == loop.pendingStop
    <2>1. r \in Requests /\ t \in Admitted(Sched, r)
        BY <1>1, <1>2
    <2> HIDE DEF r
    <2> QED
        BY <1>1, <1>2, <2>1, AdmitStep
<1>4. nextSeq \in Nat \ {0}
    BY <1>0 DEF TypeOK
<1>5. /\ loop' \in [stage : {"poll", "act", "ended"}, open : BOOLEAN, controlOpen : BOOLEAN,
                  stopping : BOOLEAN, pendingStop : Requests \cup {Empty}]
      /\ loop'.stopping = loop.stopping /\ loop'.pendingStop = Empty
    BY <1>0, <1>1 DEF TypeOK
<1>6. TypeOK'
    BY <1>0, <1>1, <1>4, <1>5 DEF TypeOK, clientVars
<1>7. StopHeld'
    BY <1>0, <1>1, <1>5 DEF StopHeld
<1> QED
    BY <1>3, <1>6, <1>7 DEF IInv

(* SelectData. *)
LEMMA SelectDataOK ==
    ASSUME WriterConstants, IInv, SelectData
    PROVE  IInv'
<1>0. TypeOK /\ StopHeld
    BY DEF IInv
<1>1. /\ ~ loop.stopping /\ UNCHANGED <<claimed, serving>>
      /\ UNCHANGED <<control, conn, drained, stopSeq, commits>>
    BY DEF SelectData, DataEnabled, WriterUnchanged
<1>2. /\ loop = [stage |-> loop.stage, open |-> loop.open, controlOpen |-> loop.controlOpen,
                 stopping |-> loop.stopping, pendingStop |-> loop.pendingStop]
      /\ loop.open \in BOOLEAN /\ loop.controlOpen \in BOOLEAN /\ loop.stopping \in BOOLEAN
      /\ loop.pendingStop \in Requests \cup {Empty}
    BY <1>0 DEF TypeOK
<1>3. stopSeq = 0 /\ loop.pendingStop = Empty
    BY <1>0, <1>1 DEF StopHeld
<1>4. ASSUME NEW o \in BOOLEAN,
             loop' = [stage |-> "poll", open |-> o, controlOpen |-> loop.controlOpen,
                      stopping |-> loop.stopping, pendingStop |-> loop.pendingStop],
             data' \in Seq(Requests), nextSeq' \in Nat \ {0}
      PROVE  TypeOK' /\ StopHeld'
    <2>1. /\ loop' \in [stage : {"poll", "act", "ended"}, open : BOOLEAN, controlOpen : BOOLEAN,
                  stopping : BOOLEAN, pendingStop : Requests \cup {Empty}]
          /\ loop'.pendingStop = Empty
        BY <1>2, <1>3, <1>4
    <2>2. TypeOK'
        BY <1>0, <1>1, <1>4, <2>1 DEF TypeOK
    <2>3. StopHeld'
        BY <1>1, <1>3, <2>1 DEF StopHeld
    <2> QED
        BY <2>2, <2>3
<1>5. CASE /\ data # <<>>
           /\ \E s \in Admitted(Sched, Head(data)) : SetSched(s)
           /\ nextSeq' = nextSeq + 1 /\ data' = Tail(data)
           /\ loop' = [loop EXCEPT !.stage = "poll"]
    <2>1. Head(data) \in Requests /\ data' \in Seq(Requests) /\ nextSeq' \in Nat \ {0}
        BY <1>0, <1>5 DEF TypeOK
    <2>2. PICK t \in Admitted(Sched, Head(data)) : SetSched(t)
        BY <1>5
    <2>3. SchedHeld(Sched)' /\ CommitsHeld(Sched, commits)' /\ SequencesHeld'
        <3> DEFINE r == Head(data)
        <3>1. r \in Requests /\ t \in Admitted(Sched, r)
            BY <2>1, <2>2
        <3> HIDE DEF r
        <3> QED
            BY <1>1, <1>5, <2>2, <3>1, AdmitStep
    <2>4. loop' = [stage |-> "poll", open |-> loop.open, controlOpen |-> loop.controlOpen,
                   stopping |-> loop.stopping, pendingStop |-> loop.pendingStop]
        BY <1>2, <1>5
    <2>5. TypeOK' /\ StopHeld'
        BY <1>2, <1>4, <2>1, <2>4
    <2> QED
        BY <2>3, <2>5 DEF IInv
<1>6. CASE /\ loop' = [loop EXCEPT !.open = FALSE, !.stage = "poll"]
           /\ UNCHANGED <<data, schedVars, nextSeq>>
    <2>1. loop' = [stage |-> "poll", open |-> FALSE, controlOpen |-> loop.controlOpen,
                   stopping |-> loop.stopping, pendingStop |-> loop.pendingStop]
        BY <1>2, <1>6
    <2>2. data' \in Seq(Requests) /\ nextSeq' \in Nat \ {0}
        BY <1>0, <1>6 DEF TypeOK
    <2>3. TypeOK' /\ StopHeld'
        BY <1>4, <2>1, <2>2
    <2>4. UNCHANGED <<schedVars, histVars>>
        BY <1>1, <1>6 DEF histVars
    <2>5. loop'.pendingStop = Empty
        BY <1>3, <2>1
    <2> QED
        BY <1>1, <2>3, <2>4, <2>5, QuietOK
<1> QED
    BY <1>5, <1>6 DEF SelectData

(* A preparation ended: its result is kept with its job. *)
LEMMA ResultOK ==
    ASSUME NEW s, Core(s), NEW t,
           t = [admissions |-> t.admissions, lanes |-> t.lanes, gens |-> t.gens,
                nextGen |-> t.nextGen, ready |-> t.ready, jobs |-> t.jobs],
           t.admissions = s.admissions, t.lanes = s.lanes, t.gens = s.gens,
           t.nextGen = s.nextGen, t.ready = s.ready,
           t.jobs = [h \in DOMAIN t.jobs |-> t.jobs[h]], DOMAIN t.jobs = DOMAIN s.jobs,
           \A h \in DOMAIN t.jobs : t.jobs[h] \in {"running", "prepared", "refused"}
    PROVE  Core(t)
<1>0. SchedTyped(s) /\ LanesHeld(s) /\ ReadyHeld(s) /\ JobsHeld(s)
    BY DEF Core
<1>1. SchedTyped(t)
    BY <1>0 DEF SchedTyped
<1>2. LanesHeld(t)
    <2>1. \A w \in DOMAIN s.lanes : LaneHeld(s, w, s.lanes[w])
        BY ONLY <1>0, LanesAre
    <2>2. \A w, l : LaneHeld(s, w, l) => LaneHeld(t, w, l)
        BY LaneOfGens
    <2>3. \A w \in DOMAIN t.lanes : LaneHeld(t, w, t.lanes[w])
        BY <2>1, <2>2
    <2> QED
        BY ONLY <2>3, LanesAre
<1>3. \A g : IsActive(t, g) <=> IsActive(s, g)
    BY DEF IsActive
<1>4. ReadyHeld(t)
    BY <1>0, <1>3 DEF ReadyHeld
<1>5. JobsHeld(t)
    BY <1>0, <1>3 DEF JobsHeld
<1> QED
    BY <1>1, <1>2, <1>4, <1>5 DEF Core

(* The steps of the jobs. *)
LEMMA JobsOK ==
    ASSUME IInv, Jobs
    PROVE  IInv'
<1> PICK g \in DOMAIN jobs, result \in {"prepared", "refused"} : JobEnds(g, result)
    BY DEF Jobs
<1>0. TypeOK /\ StopHeld /\ SequencesHeld /\ SchedHeld(Sched) /\ CommitsHeld(Sched, commits)
    BY DEF IInv
<1>1. /\ jobs' = [jobs EXCEPT ![g] = result] /\ UNCHANGED <<clientVars, loop, histVars>>
      /\ UNCHANGED <<admissions, lanes, gens, nextGen, ready>>
    BY DEF JobEnds
<1>2. /\ Sched.admissions = admissions /\ Sched.lanes = lanes /\ Sched.gens = gens
      /\ Sched.nextGen = nextGen /\ Sched.ready = ready /\ Sched.jobs = jobs
    BY DEF Sched
<1>3. /\ Sched'.admissions = Sched.admissions /\ Sched'.lanes = Sched.lanes
      /\ Sched'.gens = Sched.gens /\ Sched'.nextGen = Sched.nextGen
      /\ Sched'.ready = Sched.ready /\ Sched'.jobs = jobs'
      /\ Sched' = [admissions |-> Sched'.admissions, lanes |-> Sched'.lanes,
                   gens |-> Sched'.gens, nextGen |-> Sched'.nextGen,
                   ready |-> Sched'.ready, jobs |-> Sched'.jobs]
    BY <1>1 DEF Sched
<1>4. /\ jobs = [h \in DOMAIN jobs |-> jobs[h]]
      /\ \A h \in DOMAIN jobs : jobs[h] \in {"running", "prepared", "refused"}
    BY <1>0, <1>2 DEF SchedHeld, SchedTyped
<1>5. /\ DOMAIN jobs' = DOMAIN jobs /\ jobs' = [h \in DOMAIN jobs' |-> jobs'[h]]
      /\ \A h \in DOMAIN jobs' : jobs'[h] \in {"running", "prepared", "refused"}
    BY <1>1, <1>4
<1>6. Core(Sched) /\ AdmissionsHeld(Sched)
    BY <1>0 DEF SchedHeld, Core
<1> DEFINE s == Sched
           t == Sched'
<1>7. /\ t = [admissions |-> t.admissions, lanes |-> t.lanes, gens |-> t.gens,
                nextGen |-> t.nextGen, ready |-> t.ready, jobs |-> t.jobs]
      /\ t.admissions = s.admissions /\ t.lanes = s.lanes /\ t.gens = s.gens
      /\ t.nextGen = s.nextGen /\ t.ready = s.ready
      /\ t.jobs = [h \in DOMAIN t.jobs |-> t.jobs[h]] /\ DOMAIN t.jobs = DOMAIN s.jobs
      /\ \A h \in DOMAIN t.jobs : t.jobs[h] \in {"running", "prepared", "refused"}
      /\ Core(s) /\ AdmissionsHeld(s) /\ CommitsHeld(s, commits)
    BY <1>0, <1>2, <1>3, <1>5, <1>6
<1> HIDE DEF s, t
<1>8. Core(t)
    BY ONLY <1>7, ResultOK
<1>9. AdmissionsHeld(t)
    BY ONLY <1>7, SameAdmissions
<1>10. CommitsHeld(t, commits)
    BY ONLY <1>7 DEF CommitsHeld
<1>11. SchedHeld(t)
    BY ONLY <1>8, <1>9 DEF Core, SchedHeld
<1>12. SchedHeld(Sched)' /\ CommitsHeld(Sched, commits)'
    <2>1. commits' = commits
        BY <1>1 DEF histVars
    <2> QED
        BY <1>10, <1>11, <2>1 DEF t
<1>13. TypeOK' /\ SequencesHeld' /\ StopHeld'
    BY <1>0, <1>1 DEF TypeOK, SequencesHeld, StopHeld, clientVars, histVars
<1> QED
    BY <1>12, <1>13 DEF IInv

(* complete_generation. *)
LEMMA CompleteOK ==
    ASSUME MaxJobs \in Nat, NEW s, SchedHeld(s), NEW g \in DOMAIN s.jobs, s.jobs[g] # "running",
           NEW c, CommitsHeld(s, c)
    PROVE  LET t == CompleteGeneration(s, g)
           IN  SchedHeld(t) /\ CommitsHeld(t, c) /\ t.admissions = s.admissions
<1> DEFINE v == s.jobs[g]
           u == LeftSet(s, g, v)
           t == CompleteGeneration(s, g)
<1>0. Core(s) /\ AdmissionsHeld(s) /\ g \in DOMAIN s.jobs /\ MaxJobs \in Nat
    BY DEF SchedHeld, Core
<1>1. v \in {"prepared", "refused"}
    BY DEF SchedHeld, SchedTyped
<1>2. t = StartAvailable(u)
    BY DEF CompleteGeneration, LeftSet
<1> HIDE DEF v, t
<1>3. /\ Core(u) /\ u.admissions = s.admissions /\ u.nextGen = s.nextGen
      /\ DOMAIN u.gens = DOMAIN s.gens
      /\ g \in DOMAIN s.gens /\ u.gens[g].state = v /\ s.gens[g].state = "running"
      /\ \A h \in DOMAIN s.gens :
            /\ u.gens[h].sem = s.gens[h].sem
            /\ u.gens[h].remaining = s.gens[h].remaining
            /\ h # g => u.gens[h].state = s.gens[h].state
    BY ONLY <1>0, <1>1, EndedOK
<1> HIDE DEF u
<1>4. /\ Core(t) /\ SameGens(u, t) /\ t.admissions = u.admissions /\ t.nextGen = u.nextGen
    BY ONLY <1>0, <1>2, <1>3, StartOK
<1>5. /\ DOMAIN t.gens = DOMAIN s.gens /\ t.admissions = s.admissions /\ t.nextGen = s.nextGen
      /\ \A h \in DOMAIN s.gens : /\ t.gens[h].sem = s.gens[h].sem
                                  /\ t.gens[h].remaining = s.gens[h].remaining
    BY ONLY <1>3, <1>4 DEF SameGens
<1>6. \A h \in DOMAIN s.gens : t.gens[h].state = "committed" <=> s.gens[h].state = "committed"
    <2> SUFFICES ASSUME NEW h \in DOMAIN s.gens
                 PROVE  t.gens[h].state = "committed" <=> s.gens[h].state = "committed"
        OBVIOUS
    <2>1. \/ t.gens[h].state = u.gens[h].state
          \/ u.gens[h].state = "queued" /\ t.gens[h].state = "running"
        BY <1>3, <1>4 DEF SameGens
    <2>2. CASE h = g
        BY <1>1, <1>3, <2>1, <2>2
    <2>3. CASE h # g
        BY <1>3, <2>1, <2>3
    <2> QED
        BY <2>2, <2>3
<1>7. AdmissionsHeld(t)
    BY ONLY <1>0, <1>5, SameAdmissions
<1>8. s.nextGen \in Nat /\ t.nextGen \in Nat /\ s.nextGen <= t.nextGen
    BY <1>0, <1>5 DEF Core, SchedTyped
<1>9. CommitsHeld(t, c)
    BY <1>5, <1>6, <1>8, CommitsKept
<1> QED
    BY <1>4, <1>5, <1>7, <1>9 DEF SchedHeld, Core, t

(* SelectJob. *)
LEMMA SelectJobOK ==
    ASSUME WriterConstants, IInv, NEW g \in DOMAIN jobs, SelectJob(g)
    PROVE  IInv'
<1>0. TypeOK /\ StopHeld /\ SequencesHeld /\ SchedHeld(Sched) /\ CommitsHeld(Sched, commits)
    BY DEF IInv
<1>1. /\ jobs[g] # "running" /\ SetSched(CompleteGeneration(Sched, g))
      /\ loop' = [loop EXCEPT !.stage = "poll"] /\ UNCHANGED <<clientVars, histVars>>
    BY DEF SelectJob
<1> DEFINE s == Sched
           t == CompleteGeneration(Sched, g)
<1>2. /\ SchedHeld(s) /\ CommitsHeld(s, commits) /\ g \in DOMAIN s.jobs /\ s.jobs[g] # "running"
      /\ t = CompleteGeneration(s, g) /\ s.admissions = admissions /\ SetSched(t)
      /\ MaxJobs \in Nat
    BY <1>0, <1>1 DEF Sched, WriterConstants
<1> HIDE DEF s, t
<1>3. SchedHeld(t) /\ CommitsHeld(t, commits) /\ t.admissions = s.admissions
    BY ONLY <1>2, CompleteOK
<1>4. Sched' = t /\ admissions' = t.admissions
    BY <1>2, <1>3, SetIs DEF SchedHeld
<1>5. /\ admissions' = admissions /\ commits' = commits /\ nextSeq' = nextSeq
      /\ drained' = drained /\ stopSeq' = stopSeq
    BY <1>1, <1>2, <1>3, <1>4 DEF histVars
<1>6. SchedHeld(Sched)' /\ CommitsHeld(Sched, commits)'
    BY <1>3, <1>4, <1>5
<1>7. /\ loop' \in [stage : {"poll", "act", "ended"}, open : BOOLEAN, controlOpen : BOOLEAN,
                  stopping : BOOLEAN, pendingStop : Requests \cup {Empty}]
      /\ loop'.stopping = loop.stopping /\ loop'.pendingStop = loop.pendingStop
    BY <1>0, <1>1 DEF TypeOK
<1>8. TypeOK'
    BY <1>0, <1>1, <1>5, <1>7 DEF TypeOK, clientVars
<1>9. SequencesHeld' /\ StopHeld'
    BY <1>0, <1>5, <1>7 DEF SequencesHeld, StopHeld
<1> QED
    BY <1>6, <1>8, <1>9 DEF IInv

(* drain_one of an admission that waits for no preparation. *)
LEMMA DrainPlain ==
    ASSUME NEW s, SchedHeld(s), s.admissions # << >>, Distinct(s.admissions),
           Head(s.admissions).gen = NoGen, NEW c, CommitsHeld(s, c)
    PROVE  LET t == [s EXCEPT !.admissions = Tail(@)]
           IN  SchedHeld(t) /\ CommitsHeld(t, c) /\ t.admissions = Tail(s.admissions)
<1> DEFINE t == [s EXCEPT !.admissions = Tail(@)]
           a == Head(s.admissions)
<1>0. Core(s) /\ AdmissionsHeld(s) /\ s.admissions \in Seq(AdmissionRecord) /\ s.admissions # << >>
    BY DEF SchedHeld, Core, SchedTyped
<1>1. /\ Core(t) /\ t.admissions = Tail(s.admissions)
      /\ t.gens = s.gens /\ t.nextGen = s.nextGen
    BY ONLY <1>0, RestOK
<1>2. a = Head(s.admissions) /\ a.gen = NoGen
    OBVIOUS
<1> HIDE DEF t, a
<1>3. a.gen \notin DOMAIN s.gens
    BY <1>0, <1>2 DEF Core, SchedTyped, NoGen
<1>4. AdmissionsHeld(t)
    <2>1. /\ DOMAIN t.gens \subseteq DOMAIN s.gens
          /\ \A h \in DOMAIN s.gens : h # a.gen => /\ h \in DOMAIN t.gens
                                                 /\ t.gens[h].sem = s.gens[h].sem
                                                 /\ t.gens[h].remaining = s.gens[h].remaining
        BY <1>1
    <2>2. Distinct(s.admissions)
        OBVIOUS
    <2> QED
        BY ONLY <1>0, <1>1, <1>2, <1>3, <2>1, <2>2, AdmissionLess
<1>5. CommitsHeld(t, c)
    BY <1>1 DEF CommitsHeld
<1> QED
    BY <1>1, <1>4, <1>5 DEF SchedHeld, Core, t

(* drain_one of a registration or a lookup whose preparation is settled. *)
LEMMA DrainPrepared ==
    ASSUME MaxJobs \in Nat, NEW s, SchedHeld(s), s.admissions # << >>, Distinct(s.admissions),
           NEW a, a = Head(s.admissions), a.gen # NoGen, s.gens[a.gen].state \in Settled,
           NEW c, CommitsHeld(s, c), NEW result \in {"committed", "failed"},
           result = "failed" => a.kind = "registration" /\ s.gens[a.gen].state = "prepared", NEW d,
           d = IF a.kind = "registration" /\ result = "committed"
                                          /\ s.gens[a.gen].state = "prepared"
               THEN Counted(c, a.gen) ELSE c
    PROVE  LET t == Finished([s EXCEPT !.admissions = Tail(@)], a, result)
           IN  SchedHeld(t) /\ CommitsHeld(t, d) /\ t.admissions = Tail(s.admissions)
<1> DEFINE r == [s EXCEPT !.admissions = Tail(@)]
           t == Finished(r, a, result)
           g == a.gen
<1>0. /\ Core(s) /\ AdmissionsHeld(s) /\ s.admissions \in Seq(AdmissionRecord)
      /\ s.admissions # << >> /\ Distinct(s.admissions) /\ a = Head(s.admissions)
    BY DEF SchedHeld, Core, SchedTyped
<1>1. /\ Core(r) /\ r.admissions = Tail(s.admissions)
      /\ r.gens = s.gens /\ r.nextGen = s.nextGen
    BY ONLY <1>0, RestOK
<1>2. /\ a = s.admissions[1] /\ 1 \in 1 .. Len(s.admissions) /\ a \in AdmissionRecord
    BY <1>0, SeqFacts
<1>3. /\ a.kind \in Kinds
    BY <1>2 DEF AdmissionRecord
<1>4. /\ a.kind \in {"registration", "evidence"} /\ g \in DOMAIN s.gens
      /\ a.kind = "registration" => s.gens[g].sem # Empty
      /\ a.kind = "evidence" => s.gens[g].sem = Empty
    BY <1>0, <1>2, <1>3 DEF AdmissionsHeld, Kinds
<1>5. s.gens[g].remaining # 0
    <2>1. a.seq \in Awaiting(s, g)
        BY <1>2 DEF Awaiting
    <2>2. IsFiniteSet(Awaiting(s, g)) /\ s.gens[g].remaining = Cardinality(Awaiting(s, g))
        BY <1>0, <1>4 DEF AdmissionsHeld
    <2>3. Cardinality(Awaiting(s, g)) = 0 => Awaiting(s, g) = {}
        BY ONLY <2>2, FS_EmptySet
    <2> QED
        BY ONLY <2>1, <2>2, <2>3
<1> HIDE DEF r, t
<1>6. /\ Core(t) /\ t.admissions = r.admissions /\ t.nextGen = r.nextGen
      /\ DOMAIN t.gens \subseteq DOMAIN r.gens
      /\ \A h \in DOMAIN r.gens : h # a.gen =>
            /\ h \in DOMAIN t.gens /\ t.gens[h].sem = r.gens[h].sem
            /\ t.gens[h].remaining = r.gens[h].remaining
            /\ \/ t.gens[h].state = r.gens[h].state
               \/ r.gens[h].state = "queued" /\ t.gens[h].state = "running"
      /\ \/ a.gen \notin DOMAIN t.gens /\ r.gens[a.gen].remaining = 1
         \/ /\ a.gen \in DOMAIN t.gens /\ t.gens[a.gen].sem = r.gens[a.gen].sem
            /\ t.gens[a.gen].remaining = r.gens[a.gen].remaining - 1
            /\ t.gens[a.gen].state = FinalState(r.gens[a.gen].state, result)
    <2>1. /\ MaxJobs \in Nat /\ Core(r) /\ a.gen \in DOMAIN r.gens
          /\ r.gens[a.gen].state \in Settled /\ r.gens[a.gen].remaining # 0
          /\ result \in {"committed", "failed"} /\ t = Finished(r, a, result)
        BY <1>1, <1>4, <1>5 DEF t
    <2> QED
        BY ONLY <2>1, FinishCore
<1>7. AdmissionsHeld(t)
    <2>1. /\ t.admissions = Tail(s.admissions)
          /\ DOMAIN t.gens \subseteq DOMAIN s.gens
          /\ \A h \in DOMAIN s.gens : h # a.gen => /\ h \in DOMAIN t.gens
                                                   /\ t.gens[h].sem = s.gens[h].sem
                                                   /\ t.gens[h].remaining = s.gens[h].remaining
        BY ONLY <1>1, <1>6
    <2>2. a.gen \in DOMAIN s.gens =>
              \/ a.gen \notin DOMAIN t.gens /\ s.gens[a.gen].remaining = 1
              \/ /\ a.gen \in DOMAIN t.gens /\ t.gens[a.gen].sem = s.gens[a.gen].sem
                 /\ t.gens[a.gen].remaining = s.gens[a.gen].remaining - 1
        BY ONLY <1>1, <1>6
    <2> QED
        BY ONLY <1>0, <2>1, <2>2, AdmissionLess
<1>8. CommitsHeld(t, d)
    <2>0. /\ t.nextGen = s.nextGen /\ DOMAIN t.gens \subseteq DOMAIN s.gens
          /\ \A h \in DOMAIN s.gens : h # g =>
                /\ h \in DOMAIN t.gens /\ t.gens[h].sem = s.gens[h].sem
                /\ t.gens[h].state = "committed" <=> s.gens[h].state = "committed"
          /\ g \in DOMAIN t.gens => /\ t.gens[g].sem = s.gens[g].sem
                                    /\ t.gens[g].state = FinalState(s.gens[g].state, result)
        BY <1>1, <1>6
    <2>1. /\ \A h \in DOMAIN c : /\ c[h] = 1 /\ h \in 1 .. s.nextGen - 1
                                 /\ h \in DOMAIN s.gens => s.gens[h].state = "committed"
          /\ \A h \in DOMAIN s.gens :
                (s.gens[h].state = "committed" /\ s.gens[h].sem # Empty) => h \in DOMAIN c
        BY DEF CommitsHeld
    <2>2. g \in 1 .. s.nextGen - 1
        BY <1>0, <1>4 DEF Core, SchedTyped
    <2>3. CASE /\ a.kind = "registration" /\ result = "committed"
               /\ s.gens[g].state = "prepared"
        <3>1. g \notin DOMAIN c
            BY <1>4, <2>1, <2>3
        <3>2. d = With(c, g, 1)
            BY <2>3, <3>1 DEF Counted
        <3>3. /\ DOMAIN d = DOMAIN c \cup {g} /\ d[g] = 1
              /\ \A h \in DOMAIN c : d[h] = c[h]
            BY ONLY <3>1, <3>2 DEF With
        <3>4. FinalState(s.gens[g].state, result) = "committed"
            BY <2>3 DEF FinalState
        <3>5. ASSUME NEW h \in DOMAIN d
              PROVE  /\ d[h] = 1 /\ h \in 1 .. t.nextGen - 1
                     /\ h \in DOMAIN t.gens => t.gens[h].state = "committed"
            <4>1. CASE h = g
                BY <2>0, <2>2, <3>3, <3>4, <4>1
            <4>2. CASE h # g
                BY <2>0, <2>1, <3>3, <3>5, <4>2
            <4> QED
                BY <4>1, <4>2
        <3>6. ASSUME NEW h \in DOMAIN t.gens, t.gens[h].state = "committed", t.gens[h].sem # Empty
              PROVE  h \in DOMAIN d
            <4>1. CASE h = g
                BY <3>3, <4>1
            <4>2. CASE h # g
                BY <2>0, <2>1, <3>3, <3>6, <4>2
            <4> QED
                BY <4>1, <4>2
        <3> QED
            BY <3>5, <3>6 DEF CommitsHeld
    <2>4. CASE ~ (/\ a.kind = "registration" /\ result = "committed"
                  /\ s.gens[g].state = "prepared")
        <3>1. d = c
            BY <2>4
        <3>2. g \in DOMAIN c => FinalState(s.gens[g].state, result) = "committed"
            BY <1>4, <2>1 DEF FinalState
        <3>3. FinalState(s.gens[g].state, result) = "committed" /\ s.gens[g].sem # Empty =>
                  s.gens[g].state = "committed"
            BY <1>4, <2>4 DEF FinalState, Settled
        <3>4. ASSUME NEW h \in DOMAIN c
              PROVE  /\ c[h] = 1 /\ h \in 1 .. t.nextGen - 1
                     /\ h \in DOMAIN t.gens => t.gens[h].state = "committed"
            <4>1. CASE h = g
                BY <2>0, <2>1, <3>2, <3>4, <4>1
            <4>2. CASE h # g
                BY <2>0, <2>1, <3>4, <4>2
            <4> QED
                BY <4>1, <4>2
        <3>5. ASSUME NEW h \in DOMAIN t.gens, t.gens[h].state = "committed", t.gens[h].sem # Empty
              PROVE  h \in DOMAIN c
            <4>1. CASE h = g
                BY <1>4, <2>0, <2>1, <3>3, <3>5, <4>1
            <4>2. CASE h # g
                BY <2>0, <2>1, <3>5, <4>2
            <4> QED
                BY <4>1, <4>2
        <3> QED
            BY <3>1, <3>4, <3>5 DEF CommitsHeld
    <2> QED
        BY <2>3, <2>4
<1> QED
    BY <1>1, <1>6, <1>7, <1>8 DEF SchedHeld, Core, t, r

(* DrainOne. *)
LEMMA DrainOK ==
    ASSUME WriterConstants, IInv, NEW ok \in BOOLEAN, DrainOne(ok)
    PROVE  IInv'
<1> DEFINE s == Sched
           a == Head(admissions)
           rest == [s EXCEPT !.admissions = Tail(@)]
           result == IF ok THEN "committed" ELSE "failed"
           t == IF a.gen = NoGen THEN rest ELSE Finished(rest, a, result)
<1>0. TypeOK /\ StopHeld /\ SequencesHeld /\ SchedHeld(s) /\ CommitsHeld(s, commits)
    BY DEF IInv
<1>1. /\ s.admissions = admissions /\ s.gens = gens /\ MaxJobs \in Nat
      /\ admissions \in Seq(AdmissionRecord) /\ Len(admissions) \in Nat /\ Distinct(admissions)
      /\ drained.last \in Nat
    <2>1. s.admissions = admissions /\ s.gens = gens
        BY DEF Sched
    <2> QED
        BY <2>1, SequencesDiffer DEF WriterConstants
<1>2. /\ HeadReady(s) /\ SetSched(t)
      /\ ok \/ (a.kind = "registration" /\ gens[a.gen].state = "prepared")
      /\ commits' = IF a.kind = "registration" /\ ok /\ gens[a.gen].state = "prepared"
                    THEN Counted(commits, a.gen) ELSE commits
      /\ drained' = [last |-> a.seq, inOrder |-> drained.inOrder /\ a.seq = drained.last + 1]
      /\ conn' = [conn EXCEPT ![a.req] = "closed"]
      /\ loop' = [loop EXCEPT !.stage = "poll"]
      /\ UNCHANGED <<data, control, claimed, serving, nextSeq, stopSeq>>
    BY DEF DrainOne
<1>3. /\ admissions # << >> /\ (a.gen = NoGen \/ (a.gen # NoGen /\ gens[a.gen].state \in Settled))
    BY <1>1, <1>2 DEF HeadReady
<1>4. /\ Head(s.admissions) = a /\ s.admissions # << >> /\ Distinct(s.admissions)
      /\ Tail(s.admissions) = Tail(admissions)
    BY <1>1, <1>3
<1>5. SchedHeld(t) /\ CommitsHeld(t, commits') /\ t.admissions = Tail(admissions)
    <2>1. CASE a.gen = NoGen
        <3>1. t = rest
            BY <2>1
        <3>2. commits' = commits
            <4>1. /\ 1 \in 1 .. Len(s.admissions) /\ a = s.admissions[1] /\ a \in AdmissionRecord
                BY <1>1, <1>3, <1>4
            <4>2. a.kind \in Kinds
                BY <4>1 DEF AdmissionRecord
            <4>3. a.kind # "registration"
                <5>1. a.kind = "registration" => a.gen \in DOMAIN s.gens
                    BY <1>0, <4>1 DEF SchedHeld, AdmissionsHeld
                <5>2. NoGen \notin DOMAIN s.gens
                    BY <1>0 DEF SchedHeld, SchedTyped, NoGen
                <5> QED
                    BY <2>1, <5>1, <5>2
            <4> QED
                BY <1>2, <4>3
        <3>3. SchedHeld(s) /\ CommitsHeld(s, commits) /\ Head(s.admissions).gen = NoGen
            BY <1>0, <1>4, <2>1
        <3> HIDE DEF s, t
        <3>4. SchedHeld(rest) /\ CommitsHeld(rest, commits) /\ rest.admissions = Tail(s.admissions)
            BY ONLY <1>4, <3>3, DrainPlain
        <3> HIDE DEF rest
        <3> QED
            BY <1>4, <3>1, <3>2, <3>4
    <2>2. CASE a.gen # NoGen
        <3>1. t = Finished(rest, a, result) /\ result \in {"committed", "failed"}
            BY <2>2
        <3>2. /\ a = Head(s.admissions) /\ a.gen # NoGen /\ s.gens[a.gen].state \in Settled
              /\ SchedHeld(s) /\ CommitsHeld(s, commits) /\ MaxJobs \in Nat
            BY <1>0, <1>1, <1>3, <1>4, <2>2
        <3>3. /\ result = "committed" <=> ok = TRUE
              /\ result = "failed" => a.kind = "registration" /\ s.gens[a.gen].state = "prepared"
            BY <1>1, <1>2
        <3>4. commits' = IF a.kind = "registration" /\ result = "committed"
                                          /\ s.gens[a.gen].state = "prepared"
                         THEN Counted(commits, a.gen) ELSE commits
            BY <1>1, <1>2, <3>3
        <3> DEFINE c == commits
                   d == commits'
        <3>5. /\ CommitsHeld(s, c)
              /\ d = IF a.kind = "registration" /\ result = "committed"
                                          /\ s.gens[a.gen].state = "prepared"
                     THEN Counted(c, a.gen) ELSE c
            BY <3>2, <3>4
        <3> HIDE DEF s, t, c, d, a, result
        <3>6. LET f == Finished([s EXCEPT !.admissions = Tail(@)], a, result)
              IN  SchedHeld(f) /\ CommitsHeld(f, d) /\ f.admissions = Tail(s.admissions)
            BY ONLY <1>4, <3>1, <3>2, <3>3, <3>5, DrainPrepared
        <3> QED
            BY <1>4, <3>1, <3>6 DEF d
    <2> QED
        BY <2>1, <2>2
<1> HIDE DEF t, s
<1>6. Sched' = t /\ admissions' = Tail(admissions)
    BY <1>2, <1>5, SetIs DEF SchedHeld
<1>7. SchedHeld(Sched)' /\ CommitsHeld(Sched, commits)'
    BY <1>5, <1>6
<1>8. /\ Len(admissions) > 0 /\ a = admissions[1] /\ Len(admissions') = Len(admissions) - 1
      /\ \A i \in 1 .. Len(admissions) - 1 : admissions'[i] = admissions[i + 1]
      /\ a \in AdmissionRecord
    BY <1>1, <1>3, <1>6, SeqFacts
<1> HIDE DEF a, rest, result
<1>9. /\ drained.inOrder /\ nextSeq = drained.last + Len(admissions) + 1
      /\ \A i \in 1 .. Len(admissions) : admissions[i].seq = drained.last + i
    BY <1>0 DEF SequencesHeld
<1>10. a.seq = drained.last + 1
    BY <1>1, <1>8, <1>9
<1>11. drained'.last = drained.last + 1 /\ drained'.inOrder
    BY <1>2, <1>9, <1>10
<1>12. SequencesHeld'
    <2> DEFINE d == drained.last
               n == Len(admissions)
               m == Len(admissions')
               e == drained'.last
    <2>1. /\ d \in Nat /\ n \in Nat /\ n > 0 /\ m = n - 1 /\ e = d + 1
          /\ nextSeq' = d + n + 1
          /\ \A i \in 1 .. n : admissions[i].seq = d + i
          /\ \A i \in 1 .. n - 1 : admissions'[i] = admissions[i + 1]
        BY <1>1, <1>2, <1>8, <1>9, <1>11
    <2> HIDE DEF d, n, m, e
    <2>2. nextSeq' = e + m + 1
        BY ONLY <2>1
    <2>3. ASSUME NEW i \in 1 .. m PROVE admissions'[i].seq = e + i
        <3>1. i \in 1 .. n - 1 /\ i + 1 \in 1 .. n /\ d + (i + 1) = e + i
            BY <2>1
        <3> QED
            BY <2>1, <3>1
    <2> QED
        BY <1>11, <2>2, <2>3 DEF SequencesHeld, m, e
<1>13. /\ loop' \in [stage : {"poll", "act", "ended"}, open : BOOLEAN, controlOpen : BOOLEAN,
                  stopping : BOOLEAN, pendingStop : Requests \cup {Empty}]
       /\ loop'.stopping = loop.stopping /\ loop'.pendingStop = loop.pendingStop
    BY <1>0, <1>2 DEF TypeOK
<1>14. /\ drained' \in [last : Nat, inOrder : BOOLEAN]
       /\ conn' \in [Requests -> {"idle", "sending", "waiting", "closed"}]
    <2>1. drained' = [last |-> drained.last + 1, inOrder |-> TRUE]
        BY <1>2, <1>9, <1>10
    <2>2. drained.last + 1 \in Nat
        BY <1>1
    <2>3. drained' \in [last : Nat, inOrder : BOOLEAN]
        BY ONLY <2>1, <2>2
    <2>4. conn' \in [Requests -> {"idle", "sending", "waiting", "closed"}]
        BY <1>0, <1>2 DEF TypeOK
    <2> QED
        BY <2>3, <2>4
<1>15. TypeOK'
    BY <1>0, <1>2, <1>13, <1>14 DEF TypeOK
<1>16. StopHeld'
    BY <1>0, <1>2, <1>13 DEF StopHeld
<1> QED
    BY <1>7, <1>12, <1>15, <1>16 DEF IInv

(* The empty scheduler. *)
LEMMA InitOK ==
    ASSUME WriterConstants, Init
    PROVE  IInv
<1>1. TypeOK
    <2>1. conn \in [Requests -> {"idle", "sending", "waiting", "closed"}]
        BY DEF Init
    <2>2. data \in Seq(Requests) /\ control \in Seq(Requests)
        BY DEF Init
    <2>3. claimed \in BOOLEAN /\ serving \in BOOLEAN
        BY DEF Init
    <2>4. loop \in [stage : {"poll", "act", "ended"}, open : BOOLEAN, controlOpen : BOOLEAN,
                    stopping : BOOLEAN, pendingStop : Requests \cup {Empty}]
        BY DEF Init
    <2>5. nextSeq \in Nat \ {0} /\ stopSeq \in Nat
        BY DEF Init
    <2>6. drained \in [last : Nat, inOrder : BOOLEAN]
        BY DEF Init
    <2> QED
        BY <2>1, <2>2, <2>3, <2>4, <2>5, <2>6 DEF TypeOK
<1>2. SequencesHeld /\ StopHeld
    BY DEF Init, SequencesHeld, StopHeld, Empty
<1> DEFINE s == Sched
<1>3. /\ s = [admissions |-> s.admissions, lanes |-> s.lanes, gens |-> s.gens,
             nextGen |-> s.nextGen, ready |-> s.ready, jobs |-> s.jobs]
      /\ s.admissions = << >> /\ s.lanes = << >> /\ s.gens = << >>
      /\ s.nextGen = 1 /\ s.ready = << >> /\ s.jobs = << >>
    BY DEF Sched, Init
<1>4. /\ DOMAIN << >> = {} /\ << >> = [x \in DOMAIN << >> |-> << >>[x]] /\ Len(<< >>) = 0
      /\ << >> \in Seq(Nat) /\ << >> \in Seq(AdmissionRecord)
    OBVIOUS
<1> HIDE DEF s
<1>5. SchedTyped(s)
    BY <1>3, <1>4 DEF SchedTyped
<1>6. LanesHeld(s)
    BY <1>3, <1>4 DEF LanesHeld
<1>7. ReadyHeld(s)
    BY <1>3, <1>4 DEF ReadyHeld
<1>8. JobsHeld(s)
    <2>1. IsFiniteSet({}) /\ Cardinality({}) = 0
        BY FS_EmptySet
    <2>2. 0 <= MaxJobs
        BY DEF WriterConstants
    <2>3. DOMAIN s.jobs = {}
        BY <1>3, <1>4
    <2> QED
        BY <2>1, <2>2, <2>3 DEF JobsHeld
<1>9. AdmissionsHeld(s)
    BY <1>3, <1>4 DEF AdmissionsHeld
<1>10. CommitsHeld(s, commits)
    BY <1>3, <1>4 DEF CommitsHeld, Init
<1> QED
    BY <1>1, <1>2, <1>5, <1>6, <1>7, <1>8, <1>9, <1>10 DEF IInv, SchedHeld, s

(* Every step keeps the invariant. *)
LEMMA StepOK ==
    ASSUME WriterConstants, IInv, [Next]_vars
    PROVE  IInv'
<1>1. ASSUME UNCHANGED vars PROVE IInv'
    <2>1. TypeOK' /\ UNCHANGED <<schedVars, histVars>> /\ loop' = loop
        BY <1>1 DEF vars, IInv, TypeOK, schedVars, histVars
    <2> QED
        BY <2>1, QuietOK DEF IInv, StopHeld
<1>2. CASE Connections
    BY <1>2, ConnectionsOK
<1>3. CASE Writer
    <2>1. CASE PollControl \/ LoopEnds \/ SelectControl
        BY <2>1, LoopOK
    <2>2. CASE AdmitStop
        BY <2>2, AdmitStopOK
    <2>3. CASE SelectData
        BY <2>3, SelectDataOK
    <2>4. ASSUME NEW ok \in BOOLEAN, DrainOne(ok) PROVE IInv'
        BY <2>4, DrainOK
    <2>5. ASSUME NEW g \in DOMAIN jobs, SelectJob(g) PROVE IInv'
        BY <2>5, SelectJobOK
    <2> QED
        BY <1>3, <2>1, <2>2, <2>3, <2>4, <2>5 DEF Writer
<1>4. CASE Jobs
    BY <1>4, JobsOK
<1>5. CASE Ended
    BY <1>1, <1>5 DEF Ended
<1> QED
    BY <1>1, <1>2, <1>3, <1>4, <1>5 DEF Next

(* The writer satisfies its inductive invariant, for any number of requests, any      *)
(* capacities and any resolution of the requests: lanes, ready generations, jobs and  *)
(* counters agree, and the sequences of the admissions continue the one drained last. *)
THEOREM WriterInvariant == WriterConstants /\ Spec => []IInv
<1>1. WriterConstants /\ Init => IInv
    BY InitOK
<1>2. WriterConstants /\ IInv /\ [Next]_vars => IInv'
    BY StepOK
<1>3. WriterConstants => []WriterConstants
    <2>1. WriterConstants => WriterConstants'
        BY DEF WriterConstants, Empty
    <2> QED
        BY <2>1, PTL
<1> QED
    BY <1>1, <1>2, <1>3, PTL DEF Spec

(* Requests take effect in the order the writer thread received them, and nothing is  *)
(* received after a stop (writer_loop_with_channels, drain_one).                      *)
THEOREM AppliesInOrder == WriterConstants /\ Spec => []AppliedInOrder
<1>1. IInv => AppliedInOrder
    BY DEF IInv, SequencesHeld, StopHeld, AppliedInOrder
<1> QED
    BY <1>1, WriterInvariant, PTL

(* One preparation per workspace at a time and MaxJobs in all, whatever joins,        *)
(* refusals and lane removals happen meanwhile (start_available_generations).         *)
THEOREM OneJobEach == WriterConstants /\ Spec => []OneJobPerWorkspace
<1>1. IInv => OneJobPerWorkspace
    <2> SUFFICES ASSUME IInv PROVE OneJobPerWorkspace
        OBVIOUS
    <2>1. JobsHeld(Sched)
        BY DEF IInv, SchedHeld
    <2>2. Sched.jobs = jobs /\ Sched.gens = gens /\ Sched.lanes = lanes
        BY DEF Sched
    <2>3. Cardinality(DOMAIN jobs) <= MaxJobs /\ \A g \in DOMAIN jobs : IsActive(Sched, g)
        BY <2>1, <2>2 DEF JobsHeld
    <2>4. \A g \in DOMAIN jobs : lanes[gens[g].ws].active = g
        BY <2>2, <2>3 DEF IsActive
    <2> QED
        BY <2>3, <2>4 DEF OneJobPerWorkspace
<1> QED
    BY <1>1, WriterInvariant, PTL

(* A preparation is committed once however many registrations joined it, and none of  *)
(* them is told of a success without that commit (finish_registration).               *)
THEOREM CommitsOnce == WriterConstants /\ Spec => []CommittedOnce
<1>1. IInv => CommittedOnce
    <2> SUFFICES ASSUME IInv PROVE CommittedOnce
        OBVIOUS
    <2>1. AdmissionsHeld(Sched) /\ CommitsHeld(Sched, commits)
        BY DEF IInv, SchedHeld
    <2>2. Sched.admissions = admissions /\ Sched.gens = gens
        BY DEF Sched
    <2>3. \A g \in DOMAIN commits : commits[g] <= 1
        BY <2>1 DEF CommitsHeld
    <2>4. admissions \in Seq(AdmissionRecord)
        BY SequencesDiffer
    <2>5. ASSUME NEW i \in DOMAIN admissions, admissions[i].kind = "registration",
                 gens[admissions[i].gen].state = "committed"
          PROVE  admissions[i].gen \in DOMAIN commits
        <3>1. i \in 1 .. Len(admissions)
            BY <2>4
        <3>2. admissions[i].gen \in DOMAIN gens /\ gens[admissions[i].gen].sem # Empty
            BY <2>1, <2>2, <2>5, <3>1 DEF AdmissionsHeld
        <3> QED
            BY <2>1, <2>2, <2>5, <3>2 DEF CommitsHeld
    <2> QED
        BY <2>3, <2>5 DEF CommittedOnce
<1> QED
    BY <1>1, WriterInvariant, PTL

-----------------------------------------------------------------------------
(* The stream of a task: the variables of TaskStream and its limits.       *)
CONSTANTS None, ScanLimit, MaxEvents
VARIABLES row, log, client, request, server, cursor, status, records, sent, idle, frames

Stream == INSTANCE TaskStream


Records == [sequence : Nat, event : Stream!Events]
Frames == [status : Stream!Rows, event : Nat, cursor : Nat]

(* What TLC calls a sequence is a function on its positions.               *)
LEMMA Positions ==
    ASSUME Stream!TypeOK
    PROVE  /\ Len(log) \in Nat /\ DOMAIN log = 1..Len(log)
           /\ \A i \in 1..Len(log) : log[i] \in Stream!Events
           /\ Len(frames) \in Nat /\ DOMAIN frames = 1..Len(frames)
           /\ \A i \in 1..Len(frames) : frames[i] \in Frames
           /\ Len(records) \in Nat /\ DOMAIN records = 1..Len(records)
           /\ \A i \in 1..Len(records) : records[i] \in Records
<1>1. log \in Seq(Stream!Events) /\ frames \in Seq(Frames) /\ records \in Seq(Records)
    BY DEF Stream!TypeOK, Frames, Records
<1>2. Len(log) \in Nat /\ DOMAIN log = 1..Len(log) /\ \A i \in 1..Len(log) : log[i] \in Stream!Events
    BY <1>1
<1>3. /\ Len(frames) \in Nat /\ DOMAIN frames = 1..Len(frames)
      /\ \A i \in 1..Len(frames) : frames[i] \in Frames
    BY <1>1
<1>4. /\ Len(records) \in Nat /\ DOMAIN records = 1..Len(records)
      /\ \A i \in 1..Len(records) : records[i] \in Records
    BY <1>1
<1> QED
    BY <1>2, <1>3, <1>4

(* The stream starts well.                                                 *)
LEMMA StreamInitOK ==
    ASSUME Stream!Init
    PROVE  Stream!IInv
<1>1. Stream!TypeOK
    <2>1. "running" \in Stream!States /\ "closed" \in Stream!Servers
        BY DEF Stream!States, Stream!Servers
    <2>2. row \in Stream!Rows /\ status \in Stream!Rows
        BY <2>1 DEF Stream!Init, Stream!Rows
    <2>3. log \in Seq(Stream!Events) /\ records \in Seq(Records) /\ frames \in Seq(Frames)
        BY DEF Stream!Init
    <2>4. /\ client \in {"idle", "attached", "reading", "returned", "failed"}
          /\ sent \in BOOLEAN /\ idle \in BOOLEAN
        BY DEF Stream!Init
    <2>5. request \in Nat \cup {None} /\ server \in Stream!Servers /\ cursor \in Nat
        BY <2>1 DEF Stream!Init
    <2> QED
        BY <2>2, <2>3, <2>4, <2>5 DEF Stream!TypeOK, Records, Frames
<1>2. DOMAIN log = {} /\ DOMAIN frames = {} /\ DOMAIN records = {} /\ Len(log) = 0 /\ Len(records) = 0
    BY DEF Stream!Init
<1>3. Stream!LogHeld /\ Stream!StatusHeld /\ Stream!CursorHeld /\ Stream!RecordsHeld /\ Stream!StreamFaithful
    BY <1>2 DEF Stream!Init, Stream!LogHeld, Stream!StatusHeld, Stream!CursorHeld, Stream!RecordsHeld, Stream!StreamFaithful,
                Stream!DeliveredInOrder, Stream!StatusCurrent
<1> QED
    BY <1>1, <1>3 DEF Stream!IInv

(* An event that is appended to the log moves none that is there.          *)
LEMMA Appended ==
    ASSUME Stream!TypeOK, NEW e \in Stream!Events, log' = Append(log, e)
    PROVE  /\ log' \in Seq(Stream!Events) /\ Len(log') = Len(log) + 1
           /\ DOMAIN log' = 1..(Len(log) + 1)
           /\ \A i \in 1..Len(log) : log'[i] = log[i]
           /\ log'[Len(log) + 1] = e
BY DEF Stream!TypeOK

(* A commit of the executor, of another task or of a user, between any two *)
(* reads of the stream.                                                    *)
LEMMA CommitOK ==
    ASSUME Stream!StreamConstants, Stream!IInv,
           \/ \E to \in {"verifying", "completed", "failed"} : Stream!Transition(to)
           \/ Stream!OtherEvent \/ Stream!SubmitControl
    PROVE  Stream!IInv'
<1>1. Stream!TypeOK /\ row \in Stream!Rows /\ row.revision \in Nat /\ status \in Stream!Rows /\ status.revision \in Nat
    BY DEF Stream!IInv, Stream!TypeOK, Stream!Rows
<1>2. UNCHANGED <<client, request, Stream!stream>>
    BY DEF Stream!Transition, Stream!OtherEvent, Stream!SubmitControl
<1>3. PICK e \in Stream!Events :
         /\ log' = Append(log, e)
         /\ \/ /\ row.state \notin Stream!Terminal /\ e.of = "task" /\ e.revision = row.revision + 1
               /\ row' \in Stream!Rows /\ row'.revision = row.revision + 1 /\ row'.state = e.to
            \/ UNCHANGED row /\ e.of = "other"
            \/ /\ row.state \notin Stream!Terminal /\ UNCHANGED row
               /\ e.of = "task" /\ e.to \notin Stream!Terminal /\ e.revision = row.revision
    <2>1. ASSUME NEW to \in {"verifying", "completed", "failed"}, Stream!Transition(to)
          PROVE  /\ Stream!Event("task", to, row.revision + 1) \in Stream!Events
                 /\ [state |-> to, revision |-> row.revision + 1] \in Stream!Rows
        BY <1>1 DEF Stream!Event, Stream!Events, Stream!Rows, Stream!States, Stream!Terminal
    <2>2. Stream!Event("other", None, 0) \in Stream!Events
        BY DEF Stream!Event, Stream!Events
    <2>3. Stream!Event("task", None, row.revision) \in Stream!Events /\ None \notin Stream!Terminal
        BY <1>1 DEF Stream!Event, Stream!Events, Stream!StreamConstants, Stream!States
    <2> QED
        BY <1>1, <2>1, <2>2, <2>3 DEF Stream!Transition, Stream!OtherEvent, Stream!SubmitControl, Stream!Event
<1>4. /\ log' \in Seq(Stream!Events) /\ Len(log') = Len(log) + 1 /\ DOMAIN log' = 1..(Len(log) + 1)
      /\ \A i \in 1..Len(log) : log'[i] = log[i]
      /\ log'[Len(log) + 1] = e
    BY <1>1, <1>3, Appended
<1>5. /\ Len(log) \in Nat /\ DOMAIN log = 1..Len(log) /\ \A i \in 1..Len(log) : log[i] \in Stream!Events
      /\ Len(frames) \in Nat /\ DOMAIN frames = 1..Len(frames)
      /\ \A i \in 1..Len(frames) : frames[i] \in Frames
      /\ Len(records) \in Nat /\ DOMAIN records = 1..Len(records)
    BY <1>1, Positions
<1>6. cursor \in Nat /\ cursor <= Len(log) /\ request \in Nat \cup {None}
    BY <1>1 DEF Stream!IInv, Stream!TypeOK, Stream!CursorHeld
<1>7. Stream!TypeOK'
    BY <1>1, <1>2, <1>3, <1>4 DEF Stream!TypeOK, Stream!stream
<1>8. Stream!LogHeld'
    <2>1. SUFFICES ASSUME NEW i \in 1..(Len(log) + 1), log'[i].of = "task"
                   PROVE  /\ log'[i].revision <= row'.revision
                          /\ log'[i].to \in Stream!Terminal =>
                               row'.state \in Stream!Terminal /\ log'[i].revision = row'.revision
        BY <1>4 DEF Stream!LogHeld
    <2>2. CASE i = Len(log) + 1
        BY <1>1, <1>3, <1>4, <2>1, <2>2
    <2>3. CASE i \in 1..Len(log)
        <3>1. log'[i] = log[i] /\ log[i].revision \in Nat
            BY <1>4, <1>5, <2>3 DEF Stream!Events
        <3>2. /\ log[i].revision <= row.revision
              /\ log[i].to \in Stream!Terminal => row.state \in Stream!Terminal /\ log[i].revision = row.revision
            BY <1>5, <2>1, <2>3, <3>1 DEF Stream!IInv, Stream!LogHeld
        <3> QED
            BY <1>1, <1>3, <3>1, <3>2
    <2> QED
        BY <1>5, <2>2, <2>3
<1>9. Stream!StatusHeld'
    <2>1. row' = row \/ row'.revision = row.revision + 1
        BY <1>3
    <2> QED
        BY <1>1, <1>2, <2>1 DEF Stream!IInv, Stream!StatusHeld, Stream!stream
<1>10. Stream!CursorHeld'
    BY <1>2, <1>4, <1>5, <1>6 DEF Stream!IInv, Stream!CursorHeld, Stream!stream
<1>11. Stream!RecordsHeld'
    <2>1. \A k \in DOMAIN records : cursor + k \in 1..Len(log)
        BY <1>5, <1>6 DEF Stream!IInv, Stream!RecordsHeld
    <2> QED
        BY <1>2, <1>4, <1>5, <1>6, <2>1 DEF Stream!IInv, Stream!RecordsHeld, Stream!stream
<1>12. \A i \in DOMAIN frames : frames[i].event # 0 => frames[i].event \in 1..Len(log)
    BY <1>5, <1>6 DEF Stream!IInv, Stream!CursorHeld, Frames
<1>13. Stream!StreamFaithful'
    <2>1. Stream!DeliveredInOrder'
        <3>1. Stream!DeliveredInOrder
            BY DEF Stream!IInv, Stream!StreamFaithful
        <3>2. request # None => \A s \in (request + 1)..cursor : s \in 1..Len(log)
            BY <1>5, <1>6
        <3> QED
            BY <1>2, <1>4, <1>12, <3>1, <3>2 DEF Stream!DeliveredInOrder, Stream!stream
    <2>2. Stream!StatusCurrent'
        BY <1>2, <1>4, <1>12 DEF Stream!IInv, Stream!StreamFaithful, Stream!StatusCurrent, Stream!stream
    <2> QED
        BY <1>2, <2>1, <2>2 DEF Stream!IInv, Stream!StreamFaithful, Stream!stream
<1> QED
    BY <1>7, <1>8, <1>9, <1>10, <1>11, <1>13 DEF Stream!IInv

(* The client asks for the stream, from a cursor within the log.           *)
LEMMA AskOK ==
    ASSUME Stream!StreamConstants, Stream!IInv, Stream!ResumeAttached \/ \E c \in Stream!Cursors : Stream!Ask(c)
    PROVE  Stream!IInv'
<1>1. client = "idle" /\ client' = "attached" /\ UNCHANGED <<log, row, Stream!stream>>
    BY DEF Stream!ResumeAttached, Stream!Ask
<1>2. Len(log) \in Nat
    BY Positions DEF Stream!IInv
<1>3. request' \in Nat \cup {None} /\ (request' # None => request' <= Len(log))
    BY <1>2 DEF Stream!ResumeAttached, Stream!Ask, Stream!Cursors, Stream!LatestOutboxSequence, Stream!StreamConstants
<1>4. server = "closed" /\ frames = <<>> /\ cursor = 0
    BY <1>1 DEF Stream!IInv, Stream!CursorHeld
<1>5. Stream!TypeOK'
    BY <1>1, <1>3 DEF Stream!IInv, Stream!TypeOK, Stream!stream
<1>6. Stream!LogHeld' /\ Stream!StatusHeld' /\ Stream!RecordsHeld'
    BY <1>1 DEF Stream!IInv, Stream!LogHeld, Stream!StatusHeld, Stream!RecordsHeld, Stream!stream
<1>7. Stream!CursorHeld'
    BY <1>1, <1>3 DEF Stream!IInv, Stream!CursorHeld, Stream!stream
<1>8. DOMAIN frames = {}
    BY <1>4
<1>9. Stream!StreamFaithful'
    <2>1. request' # None => (request' + 1)..cursor' = {}
        <3>1. cursor' = 0
            BY <1>1, <1>4 DEF Stream!stream
        <3>2. request' # None => request' \in Nat
            BY <1>3
        <3> QED
            BY <3>1, <3>2
    <2> QED
        BY <1>1, <1>4, <1>8, <2>1 DEF Stream!StreamFaithful, Stream!DeliveredInOrder, Stream!StatusCurrent, Stream!stream
<1> QED
    BY <1>5, <1>6, <1>7, <1>9 DEF Stream!IInv

(* The stream opens at the requested cursor, or at the end of the log.     *)
LEMMA OpenOK ==
    ASSUME Stream!StreamConstants, Stream!IInv, Stream!OpenStream
    PROVE  Stream!IInv'
<1>1. /\ client = "attached" /\ client' = "reading" /\ server' = "load"
      /\ UNCHANGED <<log, row, request, status, records, sent, idle, frames>>
      /\ cursor' = IF request = None THEN Len(log) ELSE request
    BY DEF Stream!OpenStream, Stream!LatestOutboxSequence
<1>2. server = "closed" /\ frames = <<>> /\ records = <<>>
    BY <1>1 DEF Stream!IInv, Stream!CursorHeld
<1>3. DOMAIN frames = {} /\ DOMAIN records = {} /\ Len(records) = 0
    BY <1>2
<1>4. Len(log) \in Nat /\ request \in Nat \cup {None} /\ (request # None => request <= Len(log))
    BY Positions DEF Stream!IInv, Stream!TypeOK, Stream!CursorHeld
<1>5. cursor' \in Nat /\ cursor' <= Len(log) /\ (request # None => cursor' = request)
    BY <1>1, <1>4
<1>6. Stream!TypeOK'
    <2>1. "load" \in Stream!Servers
        BY DEF Stream!Servers
    <2> QED
        BY <1>1, <1>5, <2>1 DEF Stream!IInv, Stream!TypeOK
<1>7. Stream!LogHeld' /\ Stream!StatusHeld'
    BY <1>1 DEF Stream!IInv, Stream!LogHeld, Stream!StatusHeld
<1>8. Stream!CursorHeld' /\ Stream!RecordsHeld'
    BY <1>1, <1>3, <1>4, <1>5 DEF Stream!CursorHeld, Stream!RecordsHeld
<1>9. Stream!StreamFaithful'
    <2>1. request' # None => (request' + 1)..cursor' = {}
        BY <1>1, <1>4, <1>5
    <2> QED
        BY <1>1, <1>3, <2>1 DEF Stream!StreamFaithful, Stream!DeliveredInOrder, Stream!StatusCurrent
<1> QED
    BY <1>6, <1>7, <1>8, <1>9 DEF Stream!IInv

(* Steps that change neither the log, the row, the cursor nor a frame.     *)
LEMMA StreamQuietOK ==
    ASSUME Stream!IInv,
           Stream!Return \/ Stream!TimeOut \/ Stream!Crash \/ Stream!EndRound \/ Stream!NextRound \/ Stream!IdleOut \/ UNCHANGED Stream!vars
    PROVE  Stream!IInv'
<1>1. /\ UNCHANGED <<log, row, request, cursor, status, records, sent, frames>>
      /\ server' = server \/ server' \in {"broken", "sleep", "load", "quiet"}
      /\ client' = client \/ (client = "reading" /\ client' \in {"returned", "failed"})
      /\ idle' \in BOOLEAN
    BY DEF Stream!Return, Stream!TimeOut, Stream!Crash, Stream!EndRound, Stream!NextRound, Stream!IdleOut, Stream!vars, Stream!stream, Stream!IInv, Stream!TypeOK
<1>2. client \in {"idle", "attached"} => server = "closed"
    BY DEF Stream!IInv, Stream!CursorHeld
<1>3. client' \in {"idle", "attached"} => client' = client /\ server' = server
    BY <1>1, <1>2 DEF Stream!Return, Stream!TimeOut, Stream!Crash, Stream!EndRound, Stream!NextRound, Stream!IdleOut, Stream!vars, Stream!stream
<1>4. Stream!TypeOK'
    <2>1. server' \in Stream!Servers
        BY <1>1 DEF Stream!IInv, Stream!TypeOK, Stream!Servers
    <2>2. client' \in {"idle", "attached", "reading", "returned", "failed"}
        BY <1>1 DEF Stream!IInv, Stream!TypeOK
    <2> QED
        BY <1>1, <2>1, <2>2 DEF Stream!IInv, Stream!TypeOK
<1>5. Stream!LogHeld' /\ Stream!StatusHeld' /\ Stream!RecordsHeld'
    BY <1>1 DEF Stream!IInv, Stream!LogHeld, Stream!StatusHeld, Stream!RecordsHeld
<1>6. Stream!CursorHeld'
    <2>1. client \in {"idle", "attached"} => client' = client
        BY <1>1
    <2> QED
        BY <1>1, <1>3, <2>1 DEF Stream!IInv, Stream!CursorHeld
<1>7. Stream!StreamFaithful'
    BY <1>1 DEF Stream!IInv, Stream!StreamFaithful, Stream!DeliveredInOrder, Stream!StatusCurrent
<1> QED
    BY <1>4, <1>5, <1>6, <1>7 DEF Stream!IInv

(* The status is read: from now on it is the row's.                        *)
LEMMA LoadOK ==
    ASSUME Stream!IInv, Stream!LoadStatus
    PROVE  Stream!IInv'
<1>1. /\ server = "load" /\ server' = "scan" /\ status' = row
      /\ UNCHANGED <<log, row, client, request, cursor, records, sent, idle, frames>>
    BY DEF Stream!LoadStatus, Stream!ActiveTaskStatus
<1>2. row \in Stream!Rows /\ row.revision \in Nat /\ status.revision \in Nat /\ status.revision <= row.revision
    BY DEF Stream!IInv, Stream!TypeOK, Stream!Rows, Stream!StatusHeld
<1>3. DOMAIN frames = 1..Len(frames) /\ \A i \in 1..Len(frames) : frames[i].status.revision \in Nat
    BY Positions DEF Stream!IInv, Frames, Stream!Rows
<1>4. Stream!TypeOK'
    <2>1. "scan" \in Stream!Servers
        BY DEF Stream!Servers
    <2> QED
        BY <1>1, <1>2, <2>1 DEF Stream!IInv, Stream!TypeOK
<1>5. Stream!LogHeld' /\ Stream!CursorHeld' /\ Stream!RecordsHeld'
    BY <1>1 DEF Stream!IInv, Stream!LogHeld, Stream!CursorHeld, Stream!RecordsHeld
<1>6. Stream!StatusHeld'
    BY <1>1, <1>2, <1>3 DEF Stream!IInv, Stream!StatusHeld
<1>7. Stream!StreamFaithful'
    BY <1>1 DEF Stream!IInv, Stream!StreamFaithful, Stream!DeliveredInOrder, Stream!StatusCurrent
<1> QED
    BY <1>4, <1>5, <1>6, <1>7 DEF Stream!IInv

(* The scan takes what the log holds behind the cursor.                    *)
LEMMA ScanOK ==
    ASSUME Stream!StreamConstants, Stream!IInv, Stream!Scan
    PROVE  Stream!IInv'
<1>1. /\ server = "scan" /\ server' = "refresh" /\ records' = Stream!OutboxAfter(cursor)
      /\ UNCHANGED <<log, row, client, request, cursor, status, sent, idle, frames>>
    BY DEF Stream!Scan
<1>2. Len(log) \in Nat /\ cursor \in Nat /\ cursor <= Len(log)
      /\ \A i \in 1..Len(log) : log[i] \in Stream!Events
    BY Positions DEF Stream!IInv, Stream!TypeOK, Stream!CursorHeld
<1>3. PICK n \in Nat : /\ cursor + n <= Len(log)
                       /\ records' = [i \in 1..n |-> [sequence |-> cursor + i, event |-> log[cursor + i]]]
    <2> DEFINE m == IF Len(log) - cursor <= ScanLimit
                    THEN (IF Len(log) > cursor THEN Len(log) - cursor ELSE 0) ELSE ScanLimit
    <2>1. m \in Nat /\ cursor + m <= Len(log)
        BY <1>2 DEF Stream!StreamConstants
    <2>2. records' = [i \in 1..m |-> [sequence |-> cursor + i, event |-> log[cursor + i]]]
        BY <1>1 DEF Stream!OutboxAfter
    <2> QED
        BY <2>1, <2>2
<1>4. \A i \in 1..n : [sequence |-> cursor + i, event |-> log[cursor + i]] \in Records
    BY <1>2, <1>3 DEF Records
<1>5. records' \in Seq(Records) /\ Len(records') = n /\ DOMAIN records' = 1..n
    BY <1>3, <1>4
<1>6. Stream!TypeOK'
    <2>1. "refresh" \in Stream!Servers
        BY DEF Stream!Servers
    <2> QED
        BY <1>1, <1>5, <2>1 DEF Stream!IInv, Stream!TypeOK, Records
<1>7. Stream!LogHeld' /\ Stream!StatusHeld'
    BY <1>1 DEF Stream!IInv, Stream!LogHeld, Stream!StatusHeld
<1>8. Stream!CursorHeld'
    BY <1>1 DEF Stream!IInv, Stream!CursorHeld
<1>9. Stream!RecordsHeld'
    BY <1>1, <1>3, <1>5 DEF Stream!RecordsHeld
<1>10. Stream!StreamFaithful'
    BY <1>1 DEF Stream!IInv, Stream!StreamFaithful, Stream!DeliveredInOrder, Stream!StatusCurrent
<1> QED
    BY <1>6, <1>7, <1>8, <1>9, <1>10 DEF Stream!IInv

(* The status is read again when an event of the task was scanned.         *)
LEMMA RefreshOK ==
    ASSUME Stream!IInv, Stream!Refresh
    PROVE  Stream!IInv'
<1>1. /\ server = "refresh" /\ server' = "deliver" /\ status' = Stream!RefreshedStatus
      /\ UNCHANGED <<log, row, client, request, cursor, records, sent, idle, frames>>
    BY DEF Stream!Refresh
<1>2. /\ row \in Stream!Rows /\ row.revision \in Nat /\ status \in Stream!Rows /\ status.revision \in Nat
      /\ status.revision <= row.revision
    BY DEF Stream!IInv, Stream!TypeOK, Stream!Rows, Stream!StatusHeld
<1>3. DOMAIN frames = 1..Len(frames) /\ \A i \in 1..Len(frames) : frames[i].status.revision \in Nat
    BY Positions DEF Stream!IInv, Frames, Stream!Rows
<1>4. status' = row \/ (status' = status /\ \A k \in DOMAIN records : records[k].event.of # "task")
    BY <1>1 DEF Stream!RefreshedStatus, Stream!ActiveTaskStatus
<1>5. Stream!TypeOK'
    <2>1. "deliver" \in Stream!Servers
        BY DEF Stream!Servers
    <2>2. status' \in Stream!Rows
        BY <1>2, <1>4
    <2> QED
        BY <1>1, <2>1, <2>2 DEF Stream!IInv, Stream!TypeOK
<1>6. Stream!LogHeld' /\ Stream!CursorHeld'
    BY <1>1 DEF Stream!IInv, Stream!LogHeld, Stream!CursorHeld
<1>7. Stream!StatusHeld'
    BY <1>1, <1>2, <1>3, <1>4 DEF Stream!IInv, Stream!StatusHeld
<1>8. Stream!RecordsHeld'
    <2>1. \A k \in DOMAIN records : cursor + k \in DOMAIN log /\ records[k].event = log[cursor + k]
        <3>1. /\ Len(log) \in Nat /\ DOMAIN log = 1..Len(log) /\ cursor \in Nat
              /\ Len(records) \in Nat /\ DOMAIN records = 1..Len(records)
            BY Positions DEF Stream!IInv, Stream!TypeOK
        <3> QED
            BY <3>1 DEF Stream!IInv, Stream!RecordsHeld
    <2>2. \A k \in DOMAIN records :
            records[k].event.of = "task" => records[k].event.revision <= row.revision
        BY <2>1 DEF Stream!IInv, Stream!LogHeld
    <2> QED
        BY <1>1, <1>4, <2>2 DEF Stream!IInv, Stream!RecordsHeld
<1>9. Stream!StreamFaithful'
    BY <1>1 DEF Stream!IInv, Stream!StreamFaithful, Stream!DeliveredInOrder, Stream!StatusCurrent
<1> QED
    BY <1>5, <1>6, <1>7, <1>8, <1>9 DEF Stream!IInv

(* A frame that is written moves none that was.                            *)
LEMMA Framed ==
    ASSUME Stream!TypeOK, NEW f \in Frames, frames' = Append(frames, f)
    PROVE  /\ frames' \in Seq(Frames) /\ Len(frames') = Len(frames) + 1
           /\ DOMAIN frames' = 1..(Len(frames) + 1)
           /\ \A i \in 1..Len(frames) : frames'[i] = frames[i]
           /\ frames'[Len(frames) + 1] = f
<1>1. frames \in Seq(Frames)
    BY DEF Stream!TypeOK, Frames
<1> QED
    BY <1>1

(* A record is handled: an event of another task only moves the cursor, one *)
(* of the task is paired with a status that is as new, and the stream ends *)
(* only when both are terminal.                                            *)
LEMMA DeliverOK ==
    ASSUME Stream!StreamConstants, Stream!IInv, Stream!Deliver
    PROVE  Stream!IInv'
<1> DEFINE e == log[cursor + 1]
<1> DEFINE f == [status |-> status, event |-> cursor + 1, cursor |-> cursor + 1]
<1>1. Stream!TypeOK /\ cursor \in Nat /\ request \in Nat \cup {None} /\ status \in Stream!Rows /\ row \in Stream!Rows
    BY DEF Stream!IInv, Stream!TypeOK
<1>2. /\ Len(log) \in Nat /\ DOMAIN log = 1..Len(log) /\ \A i \in 1..Len(log) : log[i] \in Stream!Events
      /\ Len(frames) \in Nat /\ DOMAIN frames = 1..Len(frames)
      /\ \A i \in 1..Len(frames) : frames[i] \in Frames
      /\ Len(records) \in Nat /\ DOMAIN records = 1..Len(records)
      /\ \A i \in 1..Len(records) : records[i] \in Records
      /\ records \in Seq(Records)
    BY <1>1, Positions DEF Stream!TypeOK, Records
<1>3. server = "deliver" /\ records # <<>> /\ UNCHANGED <<log, row, client, request, status>>
    BY DEF Stream!Deliver
<1>4. Len(records) > 0 /\ Head(records) = records[1] /\ 1 \in DOMAIN records
    BY <1>2, <1>3
<1>5. /\ Head(records).sequence = cursor + 1 /\ Head(records).event = e
      /\ cursor + 1 \in 1..Len(log) /\ e \in Stream!Events
      /\ e.of = "task" => e.revision <= status.revision
    <2>1. Stream!RecordsHeld
        BY DEF Stream!IInv
    <2> QED
        BY <1>1, <1>2, <1>3, <1>4, <2>1 DEF Stream!RecordsHeld
<1>6. cursor' = cursor + 1 /\ records' = Tail(records)
    BY <1>5 DEF Stream!Deliver
<1>7. /\ e.of = "task" =>
           /\ frames' = Append(frames, f) /\ sent' = TRUE /\ idle' = FALSE
           /\ server' = IF e.to \in Stream!Terminal THEN "finished" ELSE "deliver"
      /\ e.of # "task" => UNCHANGED <<sent, idle, frames>> /\ server' = "deliver"
    BY <1>5, <1>6 DEF Stream!Deliver, Stream!Write
<1>8. /\ records' \in Seq(Records) /\ Len(records') = Len(records) - 1
      /\ DOMAIN records' = 1..(Len(records) - 1)
      /\ \A k \in 1..(Len(records) - 1) : records'[k] = records[k + 1]
    BY <1>2, <1>4, <1>6
<1>9. f \in Frames
    BY <1>1 DEF Frames
<1>10. client \notin {"idle", "attached"} /\ (request # None => request <= cursor)
    BY <1>3 DEF Stream!IInv, Stream!CursorHeld
<1>11. e.of = "task" =>
         /\ frames' \in Seq(Frames) /\ Len(frames') = Len(frames) + 1
         /\ DOMAIN frames' = 1..(Len(frames) + 1)
         /\ \A i \in 1..Len(frames) : frames'[i] = frames[i]
         /\ frames'[Len(frames) + 1] = f
    <2>1. CASE e.of = "task"
        BY <1>1, <1>7, <1>9, <2>1, Framed
    <2> QED
        BY <2>1
<1>12. Stream!TypeOK'
    <2>1. server' \in Stream!Servers
        BY <1>7 DEF Stream!Servers
    <2>2. frames' \in Seq(Frames)
        BY <1>1, <1>7, <1>11 DEF Stream!TypeOK, Frames
    <2>3. sent' \in BOOLEAN /\ idle' \in BOOLEAN
        BY <1>1, <1>7 DEF Stream!TypeOK
    <2> QED
        BY <1>1, <1>3, <1>6, <1>8, <2>1, <2>2, <2>3 DEF Stream!TypeOK, Frames, Records
<1>13. Stream!LogHeld'
    BY <1>3 DEF Stream!IInv, Stream!LogHeld
<1>14. f.status = status /\ f.event = cursor + 1 /\ f.cursor = cursor + 1 /\ status.revision \in Nat
    BY <1>1 DEF Stream!Rows
<1>15. Stream!StatusHeld'
    <2>1. Stream!StatusHeld
        BY DEF Stream!IInv
    <2>2. CASE e.of # "task"
        <3>1. UNCHANGED <<row, status, frames>>
            BY <1>3, <1>7, <2>2
        <3> QED
            BY <2>1, <3>1 DEF Stream!StatusHeld
    <2>3. CASE e.of = "task"
        <3>1. \A i \in DOMAIN frames' : i \in 1..Len(frames) \/ i = Len(frames) + 1
            BY <1>2, <1>11, <2>3
        <3>2. \A i \in DOMAIN frames' : frames'[i].status.revision <= status.revision
            <4>1. \A i \in 1..Len(frames) : frames[i].status.revision <= status.revision
                BY <1>2, <2>1 DEF Stream!StatusHeld
            <4> QED
                BY <1>11, <1>14, <2>3, <3>1, <4>1
        <3> QED
            BY <1>3, <2>1, <3>2 DEF Stream!StatusHeld
    <2> QED
        BY <2>2, <2>3
<1>16. Stream!CursorHeld'
    <2>1. \A i \in DOMAIN frames' : frames'[i].event <= cursor'
        <3>1. \A i \in 1..Len(frames) : frames[i].event \in Nat /\ frames[i].event <= cursor
            BY <1>2 DEF Stream!IInv, Stream!CursorHeld, Frames
        <3>2. CASE e.of = "task"
            <4>1. \A i \in DOMAIN frames' : i \in 1..Len(frames) \/ i = Len(frames) + 1
                BY <1>2, <1>11, <3>2
            <4> QED
                BY <1>1, <1>6, <1>11, <1>14, <3>1, <3>2, <4>1
        <3>3. CASE e.of # "task"
            BY <1>1, <1>2, <1>6, <1>7, <3>1, <3>3
        <3> QED
            BY <3>2, <3>3
    <2>2. cursor' <= Len(log) /\ (request # None => request <= cursor')
        BY <1>1, <1>2, <1>5, <1>6, <1>10
    <2> QED
        BY <1>3, <1>10, <2>1, <2>2 DEF Stream!IInv, Stream!CursorHeld
<1>17. Stream!RecordsHeld'
    <2>1. ASSUME NEW k \in 1..(Len(records) - 1)
          PROVE  /\ records'[k] = records[k + 1] /\ k + 1 \in DOMAIN records
                 /\ cursor' + k = cursor + (k + 1)
        BY <1>1, <1>2, <1>6, <1>8
    <2>2. cursor' + Len(records') = cursor + Len(records)
        BY <1>1, <1>2, <1>6, <1>8
    <2> QED
        BY <1>3, <1>8, <2>1, <2>2 DEF Stream!IInv, Stream!RecordsHeld
<1> HIDE DEF e, f
<1>18. Stream!DeliveredInOrder'
    <2>1. Stream!DeliveredInOrder /\ \A i \in 1..Len(frames) : frames[i].event <= cursor /\ frames[i].event \in Nat
        BY <1>2 DEF Stream!IInv, Stream!StreamFaithful, Stream!CursorHeld, Frames
    <2>2. CASE e.of = "task"
        <3>1. \A i \in DOMAIN frames' : i \in 1..Len(frames) \/ i = Len(frames) + 1
            BY <1>2, <1>11, <2>2
        <3>2. \A i \in DOMAIN frames' : frames'[i].event # 0 => log[frames'[i].event].of = "task"
            BY <1>2, <1>11, <1>14, <2>1, <2>2, <3>1 DEF Stream!DeliveredInOrder, e
        <3>3. ASSUME NEW i \in DOMAIN frames', NEW j \in DOMAIN frames',
                     frames'[i].event # 0, frames'[j].event # 0, i < j
              PROVE  frames'[i].event < frames'[j].event
            <4>1. i \in 1..Len(frames) /\ frames'[i] = frames[i]
                BY <1>2, <1>11, <2>2, <3>1, <3>3
            <4>2. CASE j \in 1..Len(frames)
                BY <1>2, <1>11, <2>1, <2>2, <3>3, <4>1, <4>2 DEF Stream!DeliveredInOrder
            <4>3. CASE j = Len(frames) + 1
                BY <1>1, <1>11, <1>14, <2>1, <2>2, <4>1, <4>3
            <4> QED
                BY <3>1, <4>2, <4>3
        <3>4. ASSUME request # None, NEW i \in DOMAIN frames', frames'[i].event # 0
              PROVE  request < frames'[i].event /\ frames'[i].event <= cursor'
            <4>1. CASE i \in 1..Len(frames)
                BY <1>1, <1>2, <1>6, <1>11, <2>1, <2>2, <3>4, <4>1 DEF Stream!DeliveredInOrder
            <4>2. CASE i = Len(frames) + 1
                BY <1>1, <1>6, <1>10, <1>11, <1>14, <2>2, <3>4, <4>2
            <4> QED
                BY <3>1, <4>1, <4>2
        <3>5. ASSUME request # None, NEW s \in (request + 1)..cursor', log[s].of = "task"
              PROVE  \E i \in DOMAIN frames' : frames'[i].event = s
            <4>1. s \in (request + 1)..cursor \/ s = cursor + 1
                BY <1>1, <1>6, <3>5
            <4>2. CASE s \in (request + 1)..cursor
                <5>1. PICK i \in DOMAIN frames : frames[i].event = s
                    BY <2>1, <3>5, <4>2 DEF Stream!DeliveredInOrder
                <5> QED
                    BY <1>2, <1>11, <2>2, <5>1
            <4>3. CASE s = cursor + 1
                <5>1. Len(frames) + 1 \in DOMAIN frames'
                    BY <1>2, <1>11, <2>2
                <5> QED
                    BY <1>11, <1>14, <2>2, <4>3, <5>1
            <4> QED
                BY <4>1, <4>2, <4>3
        <3> QED
            BY <1>3, <3>2, <3>3, <3>4, <3>5 DEF Stream!DeliveredInOrder
    <2>3. CASE e.of # "task"
        <3>1. UNCHANGED <<frames, log, request>>
            BY <1>3, <1>7, <2>3
        <3>2. ASSUME request # None, NEW s \in (request + 1)..cursor', log[s].of = "task"
              PROVE  s \in (request + 1)..cursor
            BY <1>1, <1>6, <2>3, <3>2 DEF e
        <3>3. \A i \in DOMAIN frames : frames[i].event <= cursor'
            BY <1>1, <1>2, <1>6, <2>1
        <3> QED
            BY <2>1, <3>1, <3>2, <3>3 DEF Stream!DeliveredInOrder
    <2> QED
        BY <2>2, <2>3
<1>19. Stream!StatusCurrent'
    <2>1. Stream!StatusCurrent /\ \A i \in 1..Len(frames) : frames[i].status.revision <= status.revision
        BY <1>2 DEF Stream!IInv, Stream!StreamFaithful, Stream!StatusHeld
    <2>2. CASE e.of = "task"
        <3>1. SUFFICES ASSUME NEW i \in DOMAIN frames'
                       PROVE  /\ frames'[i].event # 0 =>
                                   frames'[i].status.revision >= log[frames'[i].event].revision
                              /\ frames'[i].event # 0 => frames'[i].cursor = frames'[i].event
                              /\ i > 1 => frames'[i].status.revision >= frames'[i - 1].status.revision
            BY <1>3 DEF Stream!StatusCurrent
        <3>2. CASE i \in 1..Len(frames)
            <4>1. i > 1 => i - 1 \in 1..Len(frames)
                BY <1>2, <3>2
            <4> QED
                BY <1>2, <1>11, <2>1, <2>2, <3>2, <4>1 DEF Stream!StatusCurrent
        <3>3. CASE i = Len(frames) + 1
            <4>1. i > 1 => i - 1 \in 1..Len(frames) /\ i - 1 = Len(frames)
                BY <1>2, <3>3
            <4>2. e.revision \in Nat /\ e.revision <= status.revision
                BY <1>5, <2>2 DEF Stream!Events
            <4>3. \A k \in 1..Len(frames) : frames[k].status.revision \in Nat
                BY <1>2 DEF Frames, Stream!Rows
            <4> QED
                BY <1>11, <1>14, <2>1, <2>2, <3>3, <4>1, <4>2, <4>3 DEF e
        <3> QED
            BY <1>2, <1>11, <2>2, <3>2, <3>3
    <2>3. CASE e.of # "task"
        BY <1>3, <1>7, <2>1, <2>3 DEF Stream!StatusCurrent
    <2> QED
        BY <2>2, <2>3
<1>20. server' = "finished" => frames' # <<>> /\ frames'[Len(frames')].status.state \in Stream!Terminal
    <2>1. SUFFICES ASSUME server' = "finished"
                   PROVE  frames' # <<>> /\ frames'[Len(frames')].status.state \in Stream!Terminal
        OBVIOUS
    <2>2. e.of = "task" /\ e.to \in Stream!Terminal
        BY <1>7, <2>1
    <2>3. row.state \in Stream!Terminal /\ e.revision = row.revision
        BY <1>2, <1>5, <2>2 DEF Stream!IInv, Stream!LogHeld, e
    <2>4. status = row
        BY <1>1, <1>5, <2>2, <2>3 DEF Stream!IInv, Stream!StatusHeld, Stream!Rows
    <2>5. frames' # <<>>
        BY <1>2, <1>11, <2>2
    <2> QED
        BY <1>11, <1>14, <2>2, <2>3, <2>4, <2>5
<1> QED
    BY <1>12, <1>13, <1>15, <1>16, <1>17, <1>18, <1>19, <1>20 DEF Stream!IInv, Stream!StreamFaithful

(* The status is sent alone, once, and ends the stream if it is terminal.  *)
LEMMA SendStatusOK ==
    ASSUME Stream!IInv, Stream!SendStatus
    PROVE  Stream!IInv'
<1> DEFINE f == [status |-> status, event |-> 0, cursor |-> cursor]
<1>1. Stream!TypeOK /\ cursor \in Nat /\ request \in Nat \cup {None} /\ status \in Stream!Rows
    BY DEF Stream!IInv, Stream!TypeOK
<1>2. /\ Len(frames) \in Nat /\ DOMAIN frames = 1..Len(frames)
      /\ \A i \in 1..Len(frames) : frames[i] \in Frames
    BY <1>1, Positions
<1>3. /\ server = "deliver" /\ records = <<>>
      /\ UNCHANGED <<log, row, client, request, status, records, cursor>>
      /\ sent' = TRUE /\ idle' = FALSE
      /\ server' = IF status.state \in Stream!Terminal THEN "finished" ELSE "sleep"
    BY DEF Stream!SendStatus, Stream!Write
<1>4. frames' = Append(frames, f)
    BY <1>3 DEF Stream!SendStatus, Stream!Write
<1>5. f \in Frames
    BY <1>1 DEF Frames
<1>6. f.status = status /\ f.event = 0 /\ f.cursor = cursor /\ status.revision \in Nat
    BY <1>1 DEF Stream!Rows
<1> HIDE DEF f
<1>7. /\ frames' \in Seq(Frames) /\ Len(frames') = Len(frames) + 1
      /\ DOMAIN frames' = 1..(Len(frames) + 1)
      /\ \A i \in 1..Len(frames) : frames'[i] = frames[i]
      /\ frames'[Len(frames) + 1] = f
    BY <1>1, <1>4, <1>5, Framed
<1>8. /\ \A i \in DOMAIN frames' : i \in 1..Len(frames) \/ i = Len(frames) + 1
      /\ \A i \in 1..Len(frames) : i \in DOMAIN frames'
    BY <1>2, <1>7
<1>9. Stream!TypeOK'
    <2>1. server' \in Stream!Servers
        BY <1>3 DEF Stream!Servers
    <2> QED
        BY <1>1, <1>3, <1>7, <2>1 DEF Stream!TypeOK, Frames
<1>10. Stream!LogHeld'
    BY <1>3 DEF Stream!IInv, Stream!LogHeld
<1>11. Stream!StatusHeld'
    BY <1>2, <1>3, <1>6, <1>7, <1>8 DEF Stream!IInv, Stream!StatusHeld
<1>12. Stream!CursorHeld'
    <2>1. \A i \in DOMAIN frames' : frames'[i].event <= cursor
        BY <1>1, <1>2, <1>6, <1>7, <1>8 DEF Stream!IInv, Stream!CursorHeld
    <2> QED
        BY <1>3, <2>1 DEF Stream!IInv, Stream!CursorHeld
<1>13. Stream!RecordsHeld'
    BY <1>3 DEF Stream!IInv, Stream!RecordsHeld
<1>14. Stream!DeliveredInOrder'
    <2>1. Stream!DeliveredInOrder
        BY DEF Stream!IInv, Stream!StreamFaithful
    <2>2. \A i \in DOMAIN frames' : frames'[i].event # 0 => i \in DOMAIN frames /\ frames'[i] = frames[i]
        BY <1>2, <1>6, <1>7, <1>8
    <2>3. \A i \in DOMAIN frames : i \in DOMAIN frames' /\ frames'[i] = frames[i]
        BY <1>2, <1>7, <1>8
    <2> QED
        BY <1>3, <2>1, <2>2, <2>3 DEF Stream!DeliveredInOrder
<1>15. Stream!StatusCurrent'
    <2>1. Stream!StatusCurrent /\ \A i \in 1..Len(frames) : frames[i].status.revision <= status.revision
        BY <1>2 DEF Stream!IInv, Stream!StreamFaithful, Stream!StatusHeld
    <2>2. SUFFICES ASSUME NEW i \in DOMAIN frames'
                   PROVE  /\ frames'[i].event # 0 =>
                               frames'[i].status.revision >= log[frames'[i].event].revision
                          /\ frames'[i].event # 0 => frames'[i].cursor = frames'[i].event
                          /\ i > 1 => frames'[i].status.revision >= frames'[i - 1].status.revision
        BY <1>3 DEF Stream!StatusCurrent
    <2>3. CASE i \in 1..Len(frames)
        <3>1. i > 1 => i - 1 \in 1..Len(frames)
            BY <1>2, <2>3
        <3> QED
            BY <1>2, <1>7, <2>1, <2>3, <3>1 DEF Stream!StatusCurrent
    <2>4. CASE i = Len(frames) + 1
        <3>1. i > 1 => i - 1 \in 1..Len(frames) /\ i - 1 = Len(frames)
            BY <1>2, <2>4
        <3>2. \A k \in 1..Len(frames) : frames[k].status.revision \in Nat
            BY <1>2 DEF Frames, Stream!Rows
        <3> QED
            BY <1>6, <1>7, <2>1, <2>4, <3>1, <3>2
    <2> QED
        BY <1>8, <2>3, <2>4
<1>16. server' = "finished" => frames' # <<>> /\ frames'[Len(frames')].status.state \in Stream!Terminal
    <2>1. frames' # <<>>
        BY <1>2, <1>7
    <2> QED
        BY <1>3, <1>6, <1>7, <2>1
<1> QED
    BY <1>9, <1>10, <1>11, <1>12, <1>13, <1>14, <1>15, <1>16 DEF Stream!IInv, Stream!StreamFaithful

(* The invariant holds however the commits of the workspace interleave with *)
(* the reads of stream_task_status, for any log, scan limit and cursor.    *)
THEOREM StreamInvariant == Stream!StreamConstants /\ Stream!Spec => []Stream!IInv
<1>1. Stream!Init => Stream!IInv
    BY StreamInitOK
<1>2. Stream!StreamConstants /\ Stream!IInv /\ [Stream!Next]_(Stream!vars) => Stream!IInv'
    <2>1. SUFFICES ASSUME Stream!StreamConstants, Stream!IInv, [Stream!Next]_(Stream!vars)
                   PROVE  Stream!IInv'
        OBVIOUS
    <2>2. CASE (\E to \in {"verifying", "completed", "failed"} : Stream!Transition(to)) \/ Stream!OtherEvent \/ Stream!SubmitControl
        BY <2>1, <2>2, CommitOK
    <2>3. CASE Stream!ResumeAttached \/ \E c \in Stream!Cursors : Stream!Ask(c)
        BY <2>1, <2>3, AskOK
    <2>4. CASE Stream!OpenStream
        BY <2>1, <2>4, OpenOK
    <2>5. CASE Stream!Return \/ Stream!TimeOut \/ Stream!Crash \/ Stream!EndRound \/ Stream!NextRound \/ Stream!IdleOut \/ UNCHANGED Stream!vars
        BY <2>1, <2>5, StreamQuietOK
    <2>6. CASE Stream!LoadStatus
        BY <2>1, <2>6, LoadOK
    <2>7. CASE Stream!Scan
        BY <2>1, <2>7, ScanOK
    <2>8. CASE Stream!Refresh
        BY <2>1, <2>8, RefreshOK
    <2>9. CASE Stream!Deliver
        BY <2>1, <2>9, DeliverOK
    <2>10. CASE Stream!SendStatus
        BY <2>1, <2>10, SendStatusOK
    <2> QED
        BY <2>1, <2>2, <2>3, <2>4, <2>5, <2>6, <2>7, <2>8, <2>9, <2>10 DEF Stream!Next
<1>3. Stream!StreamConstants => []Stream!StreamConstants
    <2>1. Stream!StreamConstants => Stream!StreamConstants'
        BY DEF Stream!StreamConstants, Stream!States, Stream!Terminal
    <2> QED
        BY <2>1, PTL
<1> QED
    BY <1>1, <1>2, <1>3, PTL DEF Stream!Spec

(* The log, the row, the records and the frames stay well formed, of the   *)
(* stream that stream_task_status serves.                                  *)
THEOREM StreamTypeCorrect == Stream!StreamConstants /\ Stream!Spec => []Stream!TypeOK
<1>1. Stream!IInv => Stream!TypeOK
    BY DEF Stream!IInv
<1> QED
    BY <1>1, StreamInvariant, PTL

(* A client of the stream gets every event of the task after its cursor    *)
(* once and in order, none with an older status, and a stream that ends as *)
(* finished has told it the terminal state.                                *)
THEOREM StreamsFaithfully == Stream!StreamConstants /\ Stream!Spec => []Stream!StreamFaithful
<1>1. Stream!IInv => Stream!StreamFaithful
    BY DEF Stream!IInv
<1> QED
    BY <1>1, StreamInvariant, PTL
=============================================================================
