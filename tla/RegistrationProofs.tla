-------------------------- MODULE RegistrationProofs --------------------------
(***************************************************************************)
(* Guests, registrations and bookings stay whole, and events are not        *)
(* oversold, for any number of them and of requests in flight.              *)
(*                                                                         *)
(* The argument: a request is fresh until another one commits, so what a    *)
(* fresh request read still holds when it writes: about guests              *)
(* (FreshReadsHold) and about the seats of an event (FreshSeatsHold).       *)
(* Every commit outdates the requests left in flight, which is why the      *)
(* commits need no argument about the reads of others; a request that       *)
(* writes on old data ends `clean`, and with it what is only promised of    *)
(* requests nobody committed under.                                         *)
(*                                                                         *)
(* The seats taken are a sum over the registrations.  A counterexample to   *)
(* a law of sums would have a smallest set, since there is no endless       *)
(* chain of ever smaller finite sets (SmallestSet), and there is none.      *)
(***************************************************************************)
EXTENDS EventRegistration, FiniteSetTheorems, TLAPS

-----------------------------------------------------------------------------
(* Sums: MapThenSumSet adds up the set in the order CHOOSE takes it; what it *)
(* is for a set with one element less does not depend on the order.          *)

First(s) == CHOOSE x \in s : TRUE

\* g has the sums of w over the subsets of T.
IsSum(g, w, T) ==
  g = [s \in SUBSET T |-> IF s = {} THEN 0 ELSE w[First(s)].count + g[s \ {First(s)}]]

SumOver(w, T) == (CHOOSE g : IsSum(g, w, T))[T]

\* Finite sets cannot be made smaller for ever.
LEMMA SmallestSet ==
  ASSUME NEW T, IsFiniteSet(T), NEW F \in SUBSET (SUBSET T), F # {}
  PROVE  \E m \in F : \A s \in F : ~(s \subseteq m /\ s # m)
<1>1. F \subseteq FiniteSubsetsOf(T)
  <2>1. \A s \in F : s \subseteq T /\ IsFiniteSet(s) BY FS_Subset
  <2> QED BY <2>1 DEF FiniteSubsetsOf
<1>2. PICK m \in F : \A s \in F : <<s, m>> \notin StrictSubsetOrdering(T)
  BY <1>1, FS_StrictSubsetOrderingWellFounded, WFMin
<1>3. ASSUME NEW s \in F, s \subseteq m, s # m PROVE FALSE
  <2>1. s \in SUBSET T /\ m \in SUBSET T OBVIOUS
  <2>2. <<s, m>> \in (SUBSET T) \X (SUBSET T) BY <2>1
  <2>3. <<s, m>> \in StrictSubsetOrdering(T) BY <1>3, <2>2 DEF StrictSubsetOrdering
  <2> QED BY <1>2, <2>3
<1> QED BY <1>3

LEMMA FirstIn ==
  ASSUME NEW s, s # {}
  PROVE  First(s) \in s /\ s \ {First(s)} \subseteq s /\ s \ {First(s)} # s
BY DEF First

LEMMA IsSumAt ==
  ASSUME NEW g, NEW w, NEW T, IsSum(g, w, T), NEW s \in SUBSET T
  PROVE  g[s] = IF s = {} THEN 0 ELSE w[First(s)].count + g[s \ {First(s)}]
<1>1. g = [r \in SUBSET T |-> IF r = {} THEN 0 ELSE w[First(r)].count + g[r \ {First(r)}]]
  BY Zenon DEF IsSum
<1> HIDE DEF First
<1> QED BY <1>1

\* Two tables of sums agree where they overlap.
LEMMA SumsAgree ==
  ASSUME NEW g, NEW h, NEW w, NEW v, NEW T, NEW U, IsFiniteSet(T),
         IsSum(g, w, T), IsSum(h, v, U), \A x \in T \cap U : w[x].count = v[x].count,
         NEW s \in SUBSET (T \cap U)
  PROVE  g[s] = h[s]
<1> DEFINE F == {r \in SUBSET (T \cap U) : g[r] # h[r]}
<1>1. SUFFICES ASSUME F # {} PROVE FALSE OBVIOUS
<1>2. F \in SUBSET (SUBSET T) OBVIOUS
<1>3. PICK m \in F : \A r \in F : ~(r \subseteq m /\ r # m)
  <2> HIDE DEF F
  <2> QED BY <1>1, <1>2, SmallestSet
<1>4. m \in SUBSET T /\ m \in SUBSET U /\ g[m] # h[m] OBVIOUS
<1>5. /\ g[m] = IF m = {} THEN 0 ELSE w[First(m)].count + g[m \ {First(m)}]
      /\ h[m] = IF m = {} THEN 0 ELSE v[First(m)].count + h[m \ {First(m)}]
  BY <1>4, IsSumAt
<1>6. m # {} BY <1>4, <1>5
<1>7. First(m) \in m /\ m \ {First(m)} \subseteq m /\ m \ {First(m)} # m BY <1>6, FirstIn
<1>8. m \ {First(m)} \notin F BY <1>3, <1>7
<1>9. g[m \ {First(m)}] = h[m \ {First(m)}] BY <1>4, <1>7, <1>8
<1>10. w[First(m)].count = v[First(m)].count BY <1>4, <1>7
<1> QED BY <1>4, <1>5, <1>6, <1>9, <1>10

LEMMA SumsExist ==
  ASSUME NEW w, NEW T, IsFiniteSet(T)
  PROVE  \E g : IsSum(g, w, T)
<1> DEFINE F == {r \in SUBSET T : ~\E g : IsSum(g, w, r)}
<1>1. SUFFICES ASSUME F # {} PROVE FALSE OBVIOUS
<1>2. PICK m \in F : \A r \in F : ~(r \subseteq m /\ r # m)
  <2>1. F \in SUBSET (SUBSET T) OBVIOUS
  <2> HIDE DEF F
  <2> QED BY <1>1, <2>1, SmallestSet
<1>3. m \in SUBSET T /\ ~\E g : IsSum(g, w, m) OBVIOUS
<1> DEFINE Part(r) == CHOOSE g : IsSum(g, w, r)
<1>4. ASSUME NEW r, r \subseteq m, r # m PROVE IsSum(Part(r), w, r) /\ IsFiniteSet(r)
  <2>1. r \in SUBSET T /\ r \notin F BY <1>2, <1>3, <1>4
  <2>2. \E g : IsSum(g, w, r) BY <2>1
  <2> QED BY <2>1, <2>2, FS_Subset
<1> DEFINE Less(r) == r \ {First(r)}
<1> DEFINE G == [r \in SUBSET m |-> IF r = {} THEN 0 ELSE w[First(r)].count + Part(Less(r))[Less(r)]]
<1>5. ASSUME NEW r \in SUBSET m, r # {} PROVE G[Less(r)] = Part(Less(r))[Less(r)]
  <2> DEFINE q == Less(r)
  <2>1. q \subseteq m /\ q # m BY <1>5, FirstIn
  <2>2. IsSum(Part(q), w, q) /\ IsFiniteSet(q) BY <1>4, <2>1
  <2>3. Part(q)[q] = IF q = {} THEN 0 ELSE w[First(q)].count + Part(q)[Less(q)]
    <3> HIDE DEF q, Part, G
    <3> QED BY <2>2, IsSumAt
  <2>4. G[q] = IF q = {} THEN 0 ELSE w[First(q)].count + Part(Less(q))[Less(q)]
    <3> HIDE DEF q, Part, Less
    <3> QED BY <2>1
  <2>5. ASSUME q # {} PROVE Part(q)[Less(q)] = Part(Less(q))[Less(q)]
    <3>1. Less(q) \subseteq q /\ Less(q) # q BY <2>5, FirstIn
    <3>2. Less(q) \subseteq m /\ Less(q) # m BY <2>1, <3>1
    <3>3. IsSum(Part(Less(q)), w, Less(q)) /\ IsFiniteSet(Less(q)) BY <1>4, <3>2
    <3> HIDE DEF Part
    <3>4. Less(q) \in SUBSET (q \cap Less(q)) BY <3>1
    <3>5. \A x \in q \cap Less(q) : w[x].count = w[x].count OBVIOUS
    <3> HIDE DEF q, Less, G
    <3> QED BY <2>2, <3>3, <3>4, <3>5, SumsAgree
  <2>6. G[q] = Part(q)[q]
    <3> HIDE DEF q, Part, Less, G
    <3> QED BY <2>3, <2>4, <2>5
  <2> HIDE DEF Part, Less, G
  <2> QED BY <2>6
<1>6. IsSum(G, w, m)
  <2>1. ASSUME NEW r \in SUBSET m
        PROVE  (IF r = {} THEN 0 ELSE w[First(r)].count + Part(Less(r))[Less(r)])
                 = (IF r = {} THEN 0 ELSE w[First(r)].count + G[Less(r)])
    <3> HIDE DEF Part, Less, G
    <3> QED BY <1>5
  <2>2. G = [r \in SUBSET m |-> IF r = {} THEN 0 ELSE w[First(r)].count + G[Less(r)]]
    <3> HIDE DEF Part, Less
    <3>1. G = [r \in SUBSET m |-> IF r = {} THEN 0 ELSE w[First(r)].count + Part(Less(r))[Less(r)]]
      OBVIOUS
    <3> HIDE DEF G
    <3> QED BY <2>1, <3>1
  <2> HIDE DEF G, Part
  <2> QED BY <2>2, Zenon DEF IsSum
<1> QED BY <1>3, <1>6

\* The sum over a part of T is in every table for T.
LEMMA SumIn ==
  ASSUME NEW g, NEW w, NEW T, IsFiniteSet(T), IsSum(g, w, T), NEW s \in SUBSET T
  PROVE  g[s] = SumOver(w, s)
<1> DEFINE h == CHOOSE h : IsSum(h, w, s)
<1>1. IsFiniteSet(s) BY FS_Subset
<1>2. IsSum(h, w, s) BY <1>1, SumsExist
<1>3. h[s] = SumOver(w, s) BY DEF SumOver
<1> HIDE DEF h
<1>4. s \in SUBSET (T \cap s) /\ \A x \in T \cap s : w[x].count = w[x].count OBVIOUS
<1>5. g[s] = h[s] BY <1>2, <1>4, SumsAgree
<1> QED BY <1>3, <1>5

\* The sum depends on the weights of the members only.
LEMMA SumSame ==
  ASSUME NEW w, NEW v, NEW T, IsFiniteSet(T), \A x \in T : w[x].count = v[x].count
  PROVE  SumOver(w, T) = SumOver(v, T)
<1>1. PICK g : IsSum(g, w, T) BY SumsExist
<1>2. PICK h : IsSum(h, v, T) BY SumsExist
<1>3. T \in SUBSET T /\ T \in SUBSET (T \cap T) /\ \A x \in T \cap T : w[x].count = v[x].count OBVIOUS
<1>4. g[T] = h[T] BY <1>1, <1>2, <1>3, SumsAgree
<1>5. g[T] = SumOver(w, T) /\ h[T] = SumOver(v, T) BY <1>1, <1>2, <1>3, SumIn
<1> QED BY <1>4, <1>5

LEMMA SumUnfolds ==
  ASSUME NEW w, NEW T, IsFiniteSet(T)
  PROVE  SumOver(w, T) = IF T = {} THEN 0 ELSE w[First(T)].count + SumOver(w, T \ {First(T)})
<1>1. PICK g : IsSum(g, w, T) BY SumsExist
<1>2. T \in SUBSET T /\ T \ {First(T)} \in SUBSET T OBVIOUS
<1>3. g[T] = SumOver(w, T) /\ g[T \ {First(T)}] = SumOver(w, T \ {First(T)})
  BY <1>1, <1>2, SumIn
<1>4. g[T] = IF T = {} THEN 0 ELSE w[First(T)].count + g[T \ {First(T)}] BY <1>1, <1>2, IsSumAt
<1> QED BY <1>3, <1>4

\* Whichever member is taken away, the sum is less by its weight.
LEMMA SumWithout ==
  ASSUME NEW w, NEW T, IsFiniteSet(T), \A x \in T : w[x].count \in Nat
  PROVE  /\ SumOver(w, T) \in Nat
         /\ \A x \in T : SumOver(w, T) = w[x].count + SumOver(w, T \ {x})
<1> DEFINE Holds(r) == /\ SumOver(w, r) \in Nat
                       /\ \A x \in r : SumOver(w, r) = w[x].count + SumOver(w, r \ {x})
<1> DEFINE F == {r \in SUBSET T : ~Holds(r)}
<1>1. SUFFICES ASSUME F # {} PROVE FALSE
  <2> HIDE DEF Holds
  <2>1. CASE F = {}
    <3>1. Holds(T) BY <2>1
    <3> QED BY <3>1 DEF Holds
  <2> QED BY <2>1
<1>2. PICK m \in F : \A r \in F : ~(r \subseteq m /\ r # m)
  <2>1. F \in SUBSET (SUBSET T) OBVIOUS
  <2> HIDE DEF F
  <2> QED BY <1>1, <2>1, SmallestSet
<1>3. m \in SUBSET T /\ ~Holds(m) /\ IsFiniteSet(m) BY <1>2, FS_Subset
<1>4. ASSUME NEW r, r \subseteq m, r # m PROVE Holds(r)
  <2> HIDE DEF Holds
  <2> QED BY <1>2, <1>3, <1>4
<1>5. CASE m = {}
  <2>1. SumOver(w, m) = 0 BY <1>3, <1>5, SumUnfolds
  <2> QED BY <1>3, <1>5, <2>1
<1>6. CASE m # {}
  <2> DEFINE f == First(m)
  <2>1. f \in m /\ m \ {f} \subseteq m /\ m \ {f} # m BY <1>6, FirstIn
  <2>2. SumOver(w, m) = w[f].count + SumOver(w, m \ {f}) BY <1>3, <1>6, SumUnfolds
  <2> HIDE DEF f
  <2>3. Holds(m \ {f}) BY <1>4, <2>1
  <2>4. w[f].count \in Nat BY <1>3, <2>1
  <2>5. SumOver(w, m \ {f}) \in Nat BY <2>3
  <2>6. SumOver(w, m) \in Nat BY <2>2, <2>4, <2>5
  <2>7. ASSUME NEW x \in m, x # f PROVE SumOver(w, m) = w[x].count + SumOver(w, m \ {x})
    <3>1. Holds(m \ {x}) BY <1>4
    <3>2. SumOver(w, m \ {f}) = w[x].count + SumOver(w, (m \ {f}) \ {x}) BY <2>3, <2>7
    <3>3. SumOver(w, m \ {x}) = w[f].count + SumOver(w, (m \ {x}) \ {f}) BY <2>1, <2>7, <3>1
    <3>4. (m \ {f}) \ {x} = (m \ {x}) \ {f} OBVIOUS
    <3>5. (m \ {f}) \ {x} \subseteq m /\ (m \ {f}) \ {x} # m BY <2>1
    <3>6. Holds((m \ {f}) \ {x}) BY <1>4, <3>5
    <3>7. SumOver(w, (m \ {f}) \ {x}) \in Nat BY <3>6
    <3>8. w[x].count \in Nat BY <1>3
    <3> HIDE DEF Holds
    <3>9. SumOver(w, m) = w[f].count + (w[x].count + SumOver(w, (m \ {f}) \ {x}))
      BY <2>2, <3>2
    <3>10. SumOver(w, m \ {x}) = w[f].count + SumOver(w, (m \ {f}) \ {x}) BY <3>3, <3>4
    <3>11. \A a, b, c \in Nat : a + (b + c) = b + (a + c) OBVIOUS
    <3> QED BY <2>4, <3>7, <3>8, <3>9, <3>10, <3>11
  <2>8. \A x \in m : SumOver(w, m) = w[x].count + SumOver(w, m \ {x}) BY <2>2, <2>7
  <2> QED BY <1>3, <2>6, <2>8
<1> QED BY <1>5, <1>6

\* A part has no larger a sum.
LEMMA SumOfPart ==
  ASSUME NEW w, NEW T, IsFiniteSet(T), \A x \in T : w[x].count \in Nat, NEW s \in SUBSET T
  PROVE  SumOver(w, s) <= SumOver(w, T)
<1> DEFINE F == {r \in SUBSET T : s \subseteq r /\ ~(SumOver(w, s) <= SumOver(w, r))}
<1>1. SUFFICES ASSUME F # {} PROVE FALSE OBVIOUS
<1>2. PICK m \in F : \A r \in F : ~(r \subseteq m /\ r # m)
  <2>1. F \in SUBSET (SUBSET T) OBVIOUS
  <2> HIDE DEF F
  <2> QED BY <1>1, <2>1, SmallestSet
<1>3. m \in SUBSET T /\ s \subseteq m /\ ~(SumOver(w, s) <= SumOver(w, m)) BY <1>2
<1>4. IsFiniteSet(s) /\ IsFiniteSet(m) BY <1>3, FS_Subset
<1>5. SumOver(w, s) \in Nat BY <1>4, SumWithout
<1>6. s # m BY <1>3, <1>5
<1>7. PICK x \in m : x \notin s BY <1>3, <1>6
<1>8. m \ {x} \notin F BY <1>2, <1>7
<1>9. SumOver(w, s) <= SumOver(w, m \ {x}) BY <1>3, <1>7, <1>8
<1>10. SumOver(w, m) = w[x].count + SumOver(w, m \ {x}) BY <1>3, <1>4, <1>7, SumWithout
<1>11. IsFiniteSet(m \ {x}) /\ \A y \in m \ {x} : w[y].count \in Nat BY <1>3, <1>4, FS_Subset
<1>12. SumOver(w, m \ {x}) \in Nat BY <1>11, SumWithout
<1>13. w[x].count \in Nat BY <1>3
<1> QED BY <1>3, <1>5, <1>9, <1>10, <1>12, <1>13

-----------------------------------------------------------------------------
(* The seats that are taken                                                  *)

\* The registrations Attendees counts.
Confirmed(t, e, except) ==
  {i \in Registrations \ except :
     t[i] \notin {None, Gone} /\ t[i].event = e /\ t[i].status = "confirmed"}

LEMMA AttendeesAreSum ==
  ASSUME NEW t, NEW e, NEW except
  PROVE  Attendees(t, e, except) = SumOver(t, Confirmed(t, e, except))
<1>1. Attendees(t, e, except) = MapThenSumSet(LAMBDA i : t[i].count, Confirmed(t, e, except))
  BY DEF Attendees, Confirmed
<1>2. ASSUME NEW S PROVE MapThenSumSet(LAMBDA i : t[i].count, S) = SumOver(t, S)
  BY Zenon DEF MapThenSumSet, MapThenFoldSet, SumOver, IsSum, First
<1> HIDE DEF Confirmed
<1> QED BY <1>1, <1>2, Zenon


-----------------------------------------------------------------------------
(* The requests in flight                                                    *)

Types == TypeOK /\ reqs \in [Requests -> RequestType]

\* A request that is outdated keeps its type and is not fresh.
LEMMA OutdatedTyped ==
  ASSUME NEW r \in RequestType
  PROVE  /\ Outdated(r) \in RequestType
         /\ Outdated(r) # Idle => Outdated(r).fresh = FALSE
<1>1. CASE r = Idle BY <1>1 DEF Outdated, RequestType
<1>2. CASE r # Idle
  <2> r.fresh \in BOOLEAN BY <1>2 DEF RequestType
  <2>1. CASE r.op = "register" BY <1>2, <2>1 DEF Outdated, RequestType, Idle
  <2>2. CASE r.op = "move" BY <1>2, <2>2 DEF Outdated, RequestType, Idle
  <2>3. CASE r.op = "createOrLink" BY <1>2, <2>3 DEF Outdated, RequestType, Idle
  <2>4. CASE r.op = "linkGuest" BY <1>2, <2>4 DEF Outdated, RequestType, Idle
  <2>5. CASE r.op = "createGuest" BY <1>2, <2>5 DEF Outdated, RequestType, Idle
  <2>6. CASE r.op = "updateGuest" BY <1>2, <2>6 DEF Outdated, RequestType, Idle
  <2>7. CASE r.op = "merge" BY <1>2, <2>7 DEF Outdated, RequestType, Idle
  <2> QED BY <1>2, <2>1, <2>2, <2>3, <2>4, <2>5, <2>6, <2>7 DEF RequestType
<1> QED BY <1>1, <1>2

\* After a commit nobody is fresh.
LEMMA CommitOutdates ==
  ASSUME Types, NEW q \in Requests, Commit(q)
  PROVE  /\ reqs' \in [Requests -> RequestType]
         /\ clean' \in BOOLEAN
         /\ begun' \in 0..MaxRequests
         /\ FreshReadsHold'
<1>1. \A p \in Requests : reqs[p] \in RequestType BY DEF Types
<1>2. \A p \in Requests : reqs'[p] \in RequestType
  BY <1>1, OutdatedTyped DEF Commit, RequestType
<1>3. \A p \in Requests : reqs'[p] # Idle => reqs'[p].fresh = FALSE
  BY <1>1, OutdatedTyped DEF Commit
<1> QED BY <1>2, <1>3 DEF Commit, FreshReadsHold, Types, TypeOK

\* So it is after a handler that is one step.
LEMMA AtOnceOutdates ==
  ASSUME Types, AtOnce
  PROVE  /\ reqs' \in [Requests -> RequestType]
         /\ clean' \in BOOLEAN
         /\ begun' \in 0..MaxRequests
         /\ FreshReadsHold'
<1>1. \A p \in Requests : reqs[p] \in RequestType BY DEF Types
<1>2. \A p \in Requests : reqs'[p] \in RequestType
  BY <1>1, OutdatedTyped DEF AtOnce
<1>3. \A p \in Requests : reqs'[p] # Idle => reqs'[p].fresh = FALSE
  BY <1>1, OutdatedTyped DEF AtOnce
<1>4. begun' \in 0..MaxRequests
  BY ParameterAssumption DEF AtOnce, Types, TypeOK
<1> QED BY <1>2, <1>3, <1>4 DEF AtOnce, FreshReadsHold, Types, TypeOK

\* A request that begins with a read that holds leaves all else as it was.
LEMMA BeginReads ==
  ASSUME GuestsInv, NEW q \in Requests, NEW r \in RequestType, StillSo(r), Begin(q, r)
  PROVE  GuestsInv'
<1>1. reqs' \in [Requests -> RequestType] BY DEF Begin, GuestsInv
<1>2. FreshReadsHold'
  <2> SUFFICES ASSUME NEW p \in Requests, reqs'[p] # Idle, reqs'[p].fresh
               PROVE  StillSo(reqs[p])'
    BY DEF FreshReadsHold
  <2>1. CASE p = q
    <3> reqs'[p] = r BY <2>1 DEF Begin, GuestsInv
    <3> QED BY DEF StillSo, FoundOrNew, Active, SameEmail, Spelled, Begin, tables
  <2>2. CASE p # q
    <3> reqs'[p] = reqs[p] BY <2>2 DEF Begin, GuestsInv
    <3> StillSo(reqs[p]) BY DEF GuestsInv, FreshReadsHold
    <3> QED BY DEF StillSo, FoundOrNew, Active, SameEmail, Spelled, Begin, tables
  <2> QED BY <2>1, <2>2
<1>3. begun' \in 0..MaxRequests
  BY ParameterAssumption DEF Begin, GuestsInv, Inv, TypeOK
<1>4. TypeOK' BY <1>3 DEF Begin, tables, GuestsInv, Inv, TypeOK
<1>5. GuestInParty' /\ MergesHaveAnEnd' /\ MergedAreDeleted'
  BY DEF Begin, tables, GuestsInv, Inv, GuestInParty, MergesHaveAnEnd, MergedAreDeleted
<1>6. EmailsDiffer' BY DEF Begin, tables, GuestsInv, Inv, EmailsDiffer, Active
<1>7. MergedGuestOwnsNothing'
  BY DEF Begin, tables, GuestsInv, Inv, MergedGuestOwnsNothing, IsRow
<1> QED BY <1>1, <1>2, <1>4, <1>5, <1>6, <1>7 DEF GuestsInv, Inv

\* A transaction that is refused leaves all else as it was.
LEMMA RollbackKeeps ==
  ASSUME GuestsInv, NEW q \in Requests, Rollback(q)
  PROVE  GuestsInv'
<1>1. reqs' \in [Requests -> RequestType] BY DEF Rollback, GuestsInv, RequestType
<1>2. FreshReadsHold'
  <2> SUFFICES ASSUME NEW p \in Requests, reqs'[p] # Idle, reqs'[p].fresh
               PROVE  StillSo(reqs[p])'
    BY DEF FreshReadsHold
  <2> reqs'[p] = reqs[p] BY DEF Rollback, GuestsInv
  <2> StillSo(reqs[p]) BY DEF GuestsInv, FreshReadsHold
  <2> QED BY DEF StillSo, FoundOrNew, Active, SameEmail, Spelled, Rollback, tables
<1>4. TypeOK' BY DEF Rollback, tables, GuestsInv, Inv, TypeOK
<1>5. GuestInParty' /\ MergesHaveAnEnd' /\ MergedAreDeleted'
  BY DEF Rollback, tables, GuestsInv, Inv, GuestInParty, MergesHaveAnEnd, MergedAreDeleted
<1>6. EmailsDiffer' BY DEF Rollback, tables, GuestsInv, Inv, EmailsDiffer, Active
<1>7. MergedGuestOwnsNothing'
  BY DEF Rollback, tables, GuestsInv, Inv, MergedGuestOwnsNothing, IsRow
<1> QED BY <1>1, <1>2, <1>4, <1>5, <1>6, <1>7 DEF GuestsInv, Inv

LEMMA NewStatusTyped ==
  ASSUME NEW e, NEW capacity, NEW count, NEW except
  PROVE  NewStatus(e, capacity, count, except) \in {"confirmed", "waitlisted"}
BY DEF NewStatus

\* Whatever a handler begins with, it remembers what it read.
LEMMA ReadingKeeps ==
  ASSUME GuestsInv, NEW q \in Requests, Reading(q)
  PROVE  GuestsInv'
<1> USE DEF GuestsInv, Inv
<1>1. ASSUME NEW e \in Events, NEW g \in Guests, BeginRegister(q, e, g) PROVE GuestsInv'
  <2>1. PICK i \in IF Pair(e, g) = {} THEN {None} ELSE Pair(e, g) :
          Begin(q, [op |-> "register", row |-> i, event |-> e, guest |-> g,
                    status |-> NewStatus(e, events[e], 1, {}),
                    bookingId |-> IF i = None THEN None ELSE rows[i].bookingId,
                    fresh |-> TRUE])
    BY <1>1 DEF BeginRegister
  <2> DEFINE r == [op |-> "register", row |-> i, event |-> e, guest |-> g,
                    status |-> NewStatus(e, events[e], 1, {}),
                    bookingId |-> IF i = None THEN None ELSE rows[i].bookingId,
                    fresh |-> TRUE]
  <2>2. /\ i \in Registrations \cup {None}
        /\ (IF i = None THEN None ELSE rows[i].bookingId) \in BookingIds \cup {None}
    BY DEF Pair, TypeOK, IsRow, Row
  <2>3. r \in RequestType BY <2>2, NewStatusTyped DEF RequestType
  <2>4. StillSo(r) BY <1>1 DEF BeginRegister, StillSo
  <2> QED BY <2>1, <2>3, <2>4, BeginReads
<1>2. ASSUME NEW x \in BookingIds, NEW t \in Target, BeginMove(q, x, t) PROVE GuestsInv'
  <2>1. PICK i \in WithBookingId(x) :
          Begin(q, [op |-> "move", row |-> i, to |-> t, fresh |-> TRUE,
                    status |-> NewStatus(t.event, CapacityOf(t), rows[i].count, {i})])
    BY <1>2 DEF BeginMove
  <2> DEFINE r == [op |-> "move", row |-> i, to |-> t, fresh |-> TRUE,
                    status |-> NewStatus(t.event, CapacityOf(t), rows[i].count, {i})]
  <2>2. i \in Registrations BY DEF WithBookingId
  <2>3. r \in RequestType BY <2>2, NewStatusTyped DEF RequestType
  <2>4. StillSo(r) BY DEF StillSo
  <2> QED BY <2>1, <2>3, <2>4, BeginReads
<1>3. ASSUME NEW c \in Conversations, NEW b \in LinkBodies, BeginCreateOrLink(q, c, b)
      PROVE  GuestsInv'
  <2> DEFINE found(g) == IF WithBookingId(b.bookingId) # {} THEN WithBookingId(b.bookingId)
                         ELSE Pair(b.to.event, g)
             R(g, i) == [op |-> "createOrLink", conversation |-> c, body |-> b,
                         guest |-> g, created |-> guests[g].state = "unknown",
                         links |-> linked[c] # g, row |-> i,
                         byId |-> WithBookingId(b.bookingId) # {},
                         status |-> NewStatus(b.to.event, CapacityOf(b.to), b.count, {i}),
                         fresh |-> TRUE]
  <2>1. PICK g \in Resolved(c, b) :
          /\ b.apply => SameEmail(b.email) \subseteq {g}
          /\ \E i \in IF found(g) = {} THEN {None} ELSE found(g) : Begin(q, R(g, i))
    BY <1>3 DEF BeginCreateOrLink
  <2>2. PICK i \in IF found(g) = {} THEN {None} ELSE found(g) : Begin(q, R(g, i)) BY <2>1
  <2>3. i \in Registrations \cup {None} BY DEF Pair, WithBookingId
  <2>4. b \in LinkBody BY ParameterAssumption
  <2>5. g \in Guests /\ FoundOrNew(g, guests[g].state = "unknown", b.email)
    BY <2>4 DEF Resolved, FoundOrNew, LinkBody, Active, SameEmail, TypeOK, Guest
  <2>6. R(g, i) \in RequestType
    BY <2>3, <2>5, NewStatusTyped DEF RequestType
  <2>7. StillSo(R(g, i)) BY <2>1, <2>5 DEF StillSo
  <2> QED BY <2>2, <2>6, <2>7, BeginReads
<1>4. ASSUME NEW c \in Conversations, NEW g \in Guests, BeginLinkGuest(q, c, g) PROVE GuestsInv'
  <2> DEFINE r == [op |-> "linkGuest", conversation |-> c, guest |-> g, created |-> FALSE,
                   email |-> None, fresh |-> TRUE]
  <2>1. r \in RequestType BY DEF RequestType
  <2>2. StillSo(r) BY <1>4 DEF StillSo, BeginLinkGuest, FoundOrNew
  <2> QED BY <1>4, <2>1, <2>2, BeginReads DEF BeginLinkGuest
<1>5. ASSUME NEW c \in Conversations, NEW m \in Emails \cup {None},
             BeginGuestFromConversation(q, c, m)
      PROVE  GuestsInv'
  <2> DEFINE R(g) == [op |-> "linkGuest", conversation |-> c, guest |-> g,
                      created |-> guests[g].state = "unknown", email |-> m, fresh |-> TRUE]
  <2>1. PICK g \in IF m # None /\ SameEmail(m) # {} THEN SameEmail(m)
                   ELSE {h \in Guests : guests[h].state = "unknown"} : Begin(q, R(g))
    BY <1>5 DEF BeginGuestFromConversation
  <2>2. g \in Guests /\ FoundOrNew(g, guests[g].state = "unknown", m)
    BY DEF FoundOrNew, SameEmail, Active
  <2>3. R(g) \in RequestType BY <2>2 DEF RequestType
  <2>4. StillSo(R(g)) BY <2>2 DEF StillSo
  <2> QED BY <2>1, <2>3, <2>4, BeginReads
<1>6. ASSUME NEW m \in Emails \cup {None}, BeginCreateGuest(q, m) PROVE GuestsInv'
  <2> DEFINE r == [op |-> "createGuest", email |-> m, fresh |-> TRUE]
  <2>1. r \in RequestType BY DEF RequestType
  <2>2. StillSo(r) BY <1>6 DEF StillSo, BeginCreateGuest
  <2> QED BY <1>6, <2>1, <2>2, BeginReads DEF BeginCreateGuest
<1>7. ASSUME NEW g \in Guests, NEW m \in Emails, BeginUpdateGuest(q, g, m) PROVE GuestsInv'
  <2> DEFINE r == [op |-> "updateGuest", guest |-> g, email |-> m, fresh |-> TRUE]
  <2>1. r \in RequestType BY DEF RequestType
  <2>2. StillSo(r) BY <1>7 DEF StillSo, BeginUpdateGuest
  <2> QED BY <1>7, <2>1, <2>2, BeginReads DEF BeginUpdateGuest
<1>8. ASSUME NEW g \in Guests, NEW h \in Guests, BeginMerge(q, g, h) PROVE GuestsInv'
  <2> DEFINE r == [op |-> "merge", primary |-> g, secondary |-> h, fresh |-> TRUE]
  <2>1. r \in RequestType BY DEF RequestType
  <2>2. StillSo(r) BY <1>8 DEF StillSo, BeginMerge
  <2> QED BY <1>8, <2>1, <2>2, BeginReads DEF BeginMerge
<1> QED BY <1>1, <1>2, <1>3, <1>4, <1>5, <1>6, <1>7, <1>8 DEF Reading

-----------------------------------------------------------------------------
(* The tables keep their types                                               *)

\* What a request in flight remembers has its type.
LEMMA RequestFields ==
  ASSUME Types, NEW q \in Requests
  PROVE  LET r == reqs[q] IN
         /\ r.op = "register" =>
              /\ r.row \in Registrations \cup {None} /\ r.event \in Events
              /\ r.guest \in Guests /\ r.status \in {"confirmed", "waitlisted"}
              /\ r.bookingId \in BookingIds \cup {None}
         /\ r.op = "move" =>
              /\ r.row \in Registrations /\ r.to \in Target
              /\ r.status \in {"confirmed", "waitlisted"}
         /\ r.op = "createOrLink" =>
              /\ r.conversation \in Conversations /\ r.body \in LinkBody
              /\ r.guest \in Guests /\ r.created \in BOOLEAN /\ r.links \in BOOLEAN
              /\ r.row \in Registrations \cup {None} /\ r.byId \in BOOLEAN
              /\ r.status \in {"confirmed", "waitlisted"}
         /\ r.op = "linkGuest" =>
              /\ r.conversation \in Conversations /\ r.guest \in Guests
              /\ r.created \in BOOLEAN /\ r.email \in Emails \cup {None}
         /\ r.op = "createGuest" => r.email \in Emails \cup {None}
         /\ r.op = "updateGuest" => r.guest \in Guests /\ r.email \in Emails
         /\ r.op = "merge" => r.primary \in Guests /\ r.secondary \in Guests
<1> reqs[q] \in RequestType BY DEF Types
<1> QED BY ParameterAssumption DEF RequestType, Idle

LEMMA NewGuestTyped ==
  ASSUME NEW m \in Emails \cup {None}
  PROVE  NewGuest(m) \in Guest
BY DEF NewGuest, Guest

LEMMA EventsWithTyped ==
  ASSUME TypeOK, NEW t \in Target
  PROVE  EventsWith(t) \in [Events -> Capacities \cup {None, Gone}]
BY DEF EventsWith, Target, TypeOK

-----------------------------------------------------------------------------
(* Handlers in one step                                                      *)

LEMMA EventStepsKeep ==
  ASSUME GuestsInv, EventSteps
  PROVE  GuestsInv'
<1> USE DEF GuestsInv, Inv
<1>1. AtOnce /\ UNCHANGED <<guests, linked, stays, clean>>
  BY DEF EventSteps, createEvent, updateEvent, deleteEvent, CancelRegistration, AtOnce
<1>2. /\ events' \in [Events -> Capacities \cup {None, Gone}]
      /\ rows' \in [Registrations -> Row \cup {None, Gone}]
      /\ \A i \in Registrations : IsRow(i)' => IsRow(i) /\ rows'[i].guest = rows[i].guest
  <2>1. ASSUME NEW e \in Events, NEW capacity \in Capacities, createEvent(e, capacity)
        PROVE  <1>2!1 /\ rows' = rows
    BY <2>1 DEF createEvent, TypeOK
  <2>2. ASSUME NEW e \in Events, NEW capacity \in Capacities, updateEvent(e, capacity)
        PROVE  <1>2!1 /\ rows' = rows
    BY <2>2 DEF updateEvent, TypeOK
  <2>3. ASSUME NEW e \in Events, deleteEvent(e)
        PROVE  <1>2
    BY <2>3 DEF deleteEvent, TypeOK, IsRow
  <2>4. ASSUME NEW i \in Registrations, CancelRegistration(i)
        PROVE  <1>2
    <3>1. rows[i] \in Row BY <2>4 DEF CancelRegistration, TypeOK, IsRow
    <3>2. [rows[i] EXCEPT !.status = "cancelled"] \in Row BY <3>1 DEF Row
    <3> QED BY <2>4, <3>1, <3>2 DEF CancelRegistration, TypeOK, IsRow, Row
  <2> QED BY <2>1, <2>2, <2>3, <2>4 DEF EventSteps, TypeOK, IsRow
<1>3. TypeOK' /\ reqs' \in [Requests -> RequestType] /\ FreshReadsHold'
  BY <1>1, <1>2, AtOnceOutdates DEF TypeOK, Types
<1>4. GuestInParty' /\ MergesHaveAnEnd' /\ MergedAreDeleted'
  BY <1>1 DEF GuestInParty, MergesHaveAnEnd, MergedAreDeleted
<1>5. EmailsDiffer' BY <1>1 DEF EmailsDiffer, Active
<1>6. MergedGuestOwnsNothing' BY <1>1, <1>2 DEF MergedGuestOwnsNothing
<1> QED BY <1>3, <1>4, <1>5, <1>6

LEMMA GuestStepsKeep ==
  ASSUME GuestsInv, GuestSteps
  PROVE  GuestsInv'
<1> USE DEF GuestsInv, Inv
<1> PICK g \in Guests : deleteGuest(g) BY DEF GuestSteps
<1>1. AtOnce /\ UNCHANGED <<events, rows, linked, stays, clean>>
  BY DEF deleteGuest, AtOnce
<1>2. /\ guests' = [guests EXCEPT ![g].state = "deleted"]
      /\ guests' \in [Guests -> Guest]
      /\ \A h \in Guests : /\ guests'[h].mergedInto = guests[h].mergedInto
                           /\ guests'[h].email = guests[h].email
                           /\ guests'[h].state \in {guests[h].state, "deleted"}
  <2>1. guests' = [guests EXCEPT ![g].state = "deleted"] BY DEF deleteGuest
  <2>2. guests[g] \in Guest BY DEF TypeOK
  <2>3. [guests[g] EXCEPT !.state = "deleted"] \in Guest BY <2>2 DEF Guest
  <2> QED BY <2>1, <2>2, <2>3 DEF TypeOK, Guest
<1>3. TypeOK' /\ reqs' \in [Requests -> RequestType] /\ FreshReadsHold'
  BY <1>1, <1>2, AtOnceOutdates DEF TypeOK, Types
<1>4. GuestInParty' /\ MergesHaveAnEnd' /\ MergedAreDeleted'
  BY <1>1, <1>2 DEF GuestInParty, MergesHaveAnEnd, MergedAreDeleted
<1>5. EmailsDiffer' BY <1>1, <1>2 DEF EmailsDiffer, Active
<1>6. MergedGuestOwnsNothing' BY <1>1, <1>2 DEF MergedGuestOwnsNothing, IsRow
<1> QED BY <1>3, <1>4, <1>5, <1>6

-----------------------------------------------------------------------------
(* Transactions that write                                                   *)

\* A commit that leaves `clean` is one of a request whose reads still hold.
LEMMA CleanCommit ==
  ASSUME GuestsInv, NEW q \in Requests, Commit(q), reqs[q] # Idle, clean'
  PROVE  clean /\ StillSo(reqs[q])
BY DEF Commit, GuestsInv, FreshReadsHold

LEMMA CommitRegisterKeeps ==
  ASSUME GuestsInv, NEW q \in Requests, CommitRegister(q)
  PROVE  GuestsInv'
<1> USE DEF GuestsInv, Inv
<1> DEFINE r == reqs[q]
<1>1. /\ r.op = "register" /\ r # Idle /\ Commit(q)
      /\ UNCHANGED <<guests, events, linked, stays>>
  BY DEF CommitRegister, Idle
<1>2. /\ r.row \in Registrations \cup {None} /\ r.event \in Events /\ r.guest \in Guests
      /\ r.status \in {"confirmed", "waitlisted"} /\ r.bookingId \in BookingIds \cup {None}
  BY <1>1, RequestFields DEF Types
<1>3. /\ rows' \in [Registrations -> Row \cup {None, Gone}]
      /\ \A i \in Registrations : IsRow(i)' =>
           rows'[i].guest = r.guest \/ (IsRow(i) /\ rows'[i].guest = rows[i].guest)
  <2>1. CASE r.row = None
    <3> DEFINE new == [event |-> r.event, guest |-> r.guest,
                       status |-> r.status, count |-> 1, bookingId |-> None]
    <3>1. PICK i \in Registrations : rows' = [rows EXCEPT ![i] = new]
      BY <2>1 DEF CommitRegister
    <3>2. new \in Row BY <1>2 DEF Row
    <3> QED BY <3>1, <3>2 DEF TypeOK, IsRow
  <2>2. CASE r.row # None
    <3> DEFINE old == rows[r.row]
               new == [event |-> old.event, guest |-> old.guest,
                       status |-> r.status, count |-> 1, bookingId |-> r.bookingId]
    <3>1. r.row \in Registrations /\ IsRow(r.row) /\ old \in Row
      BY <1>2, <2>2 DEF CommitRegister, TypeOK, IsRow
    <3>2. new \in Row BY <1>2, <3>1 DEF Row
    <3>3. rows' = [rows EXCEPT ![r.row] = new]
      BY <2>2 DEF CommitRegister
    <3> QED BY <3>1, <3>2, <3>3 DEF TypeOK, IsRow
  <2> QED BY <2>1, <2>2
<1>4. TypeOK' /\ reqs' \in [Requests -> RequestType] /\ FreshReadsHold'
  BY <1>1, <1>3, CommitOutdates DEF TypeOK, Types
<1>5. clean' => clean /\ Active(r.guest) BY <1>1, CleanCommit DEF StillSo
<1>6. GuestInParty' /\ MergesHaveAnEnd' /\ MergedAreDeleted'
  BY <1>1, <1>5 DEF GuestInParty, MergesHaveAnEnd, MergedAreDeleted
<1>7. EmailsDiffer' BY <1>1, <1>5 DEF EmailsDiffer, Active
<1>8. MergedGuestOwnsNothing'
  BY <1>1, <1>3, <1>5 DEF MergedGuestOwnsNothing, MergedAreDeleted, Active
<1> QED BY <1>4, <1>6, <1>7, <1>8

LEMMA CommitMoveKeeps ==
  ASSUME GuestsInv, NEW q \in Requests, CommitMove(q)
  PROVE  GuestsInv'
<1> USE DEF GuestsInv, Inv
<1> DEFINE r == reqs[q]
<1>1. /\ r.op = "move" /\ r # Idle /\ Commit(q) /\ IsRow(r.row)
      /\ UNCHANGED <<guests, linked, stays>> /\ events' = EventsWith(r.to)
      /\ rows' = [rows EXCEPT ![r.row].event = r.to.event, ![r.row].status = r.status]
  BY DEF CommitMove, Idle
<1>2. /\ r.row \in Registrations /\ r.to \in Target
      /\ r.status \in {"confirmed", "waitlisted"}
  BY <1>1, RequestFields DEF Types
<1>3. /\ rows' \in [Registrations -> Row \cup {None, Gone}]
      /\ \A i \in Registrations : IsRow(i)' => IsRow(i) /\ rows'[i].guest = rows[i].guest
  <2> DEFINE new == [rows[r.row] EXCEPT !.event = r.to.event, !.status = r.status]
  <2>1. rows[r.row] \in Row BY <1>1, <1>2 DEF TypeOK, IsRow
  <2>2. new \in Row /\ new.guest = rows[r.row].guest BY <1>2, <2>1 DEF Row, Target
  <2>3. rows' = [rows EXCEPT ![r.row] = new] BY <1>1, <2>1 DEF TypeOK, Row
  <2> QED BY <1>1, <1>2, <2>1, <2>2, <2>3 DEF TypeOK, IsRow
<1>4. TypeOK' /\ reqs' \in [Requests -> RequestType] /\ FreshReadsHold'
  BY <1>1, <1>2, <1>3, CommitOutdates, EventsWithTyped DEF TypeOK, Types
<1>5. clean' => clean BY <1>1, CleanCommit
<1>6. GuestInParty' /\ MergesHaveAnEnd' /\ MergedAreDeleted'
  BY <1>1, <1>5 DEF GuestInParty, MergesHaveAnEnd, MergedAreDeleted
<1>7. EmailsDiffer' BY <1>1, <1>5 DEF EmailsDiffer, Active
<1>8. MergedGuestOwnsNothing'
  BY <1>1, <1>3, <1>5 DEF MergedGuestOwnsNothing
<1> QED BY <1>4, <1>6, <1>7, <1>8

\* The row of a guest is written: its address is nobody else's, and where it was
\* merged into stays.
LEMMA GuestWritten ==
  ASSUME GuestsInv, NEW g \in Guests, NEW new \in Guest,
         guests' = [guests EXCEPT ![g] = new],
         new.mergedInto = guests[g].mergedInto,
         new.mergedInto # None => new.state = "deleted",
         clean' => clean,
         clean' /\ new.state = "active" /\ new.email # None =>
           \A h \in Guests : h # g /\ Active(h) => guests[h].email # new.email
  PROVE  /\ guests' \in [Guests -> Guest]
         /\ MergesHaveAnEnd' /\ MergedAreDeleted' /\ EmailsDiffer'
         /\ \A h \in Guests : guests'[h].mergedInto = guests[h].mergedInto
<1> USE DEF GuestsInv, Inv
<1>1. guests' \in [Guests -> Guest] BY DEF TypeOK
<1>2. \A h \in Guests : guests'[h] = IF h = g THEN new ELSE guests[h] BY DEF TypeOK
<1>3. \A h \in Guests : guests'[h].mergedInto = guests[h].mergedInto BY <1>2
<1>4. MergesHaveAnEnd' BY <1>3 DEF MergesHaveAnEnd
<1>5. MergedAreDeleted' BY <1>2 DEF MergedAreDeleted
<1>6. EmailsDiffer'
  <2> SUFFICES ASSUME clean', NEW a \in Guests, NEW b \in Guests, a # b,
                      Active(a)', Active(b)', guests'[a].email # None
               PROVE  guests'[a].email # guests'[b].email
    BY DEF EmailsDiffer
  <2>1. CASE a = g BY <1>2, <2>1 DEF Active
  <2>2. CASE b = g BY <1>2, <2>2 DEF Active
  <2>3. CASE a # g /\ b # g BY <1>2, <2>3 DEF Active, EmailsDiffer
  <2> QED BY <2>1, <2>2, <2>3
<1> QED BY <1>1, <1>3, <1>4, <1>5, <1>6

\* Nobody has the address of a guest that is created.
LEMMA NewAddress ==
  ASSUME GuestsInv, NEW g \in Guests, NEW m \in Emails, SameEmail(m) \subseteq {g}
  PROVE  \A h \in Guests : h # g /\ Active(h) => guests[h].email # m
<1> SUFFICES ASSUME NEW h \in Guests, h # g, Active(h), guests[h].email = m
             PROVE  h \in SameEmail(m)
  OBVIOUS
<1> m # None => h \in SameEmail(m) BY DEF SameEmail
<1> m # None BY ParameterAssumption
<1> QED OBVIOUS

LEMMA CommitLinkGuestKeeps ==
  ASSUME GuestsInv, NEW q \in Requests, CommitLinkGuest(q)
  PROVE  GuestsInv'
<1> USE DEF GuestsInv, Inv
<1> DEFINE r == reqs[q]
           new == IF r.created THEN NewGuest(r.email) ELSE guests[r.guest]
<1>1. /\ r.op = "linkGuest" /\ r # Idle /\ Commit(q)
      /\ UNCHANGED <<events, rows, stays>>
      /\ r.created => guests[r.guest].state = "unknown"
      /\ guests' = [guests EXCEPT ![r.guest] = new]
      /\ linked' = [linked EXCEPT ![r.conversation] = r.guest]
  BY DEF CommitLinkGuest, Idle
<1>2. /\ r.conversation \in Conversations /\ r.guest \in Guests
      /\ r.created \in BOOLEAN /\ r.email \in Emails \cup {None}
  BY <1>1, RequestFields DEF Types
<1>3. clean' => clean /\ FoundOrNew(r.guest, r.created, r.email)
  BY <1>1, CleanCommit DEF StillSo
<1>4. /\ new \in Guest /\ new.mergedInto = guests[r.guest].mergedInto
      /\ new.mergedInto # None => new.state = "deleted"
  BY <1>1, <1>2, NewGuestTyped DEF TypeOK, MergedAreDeleted, NewGuest
<1>5. clean' /\ new.state = "active" /\ new.email # None =>
        \A h \in Guests : h # r.guest /\ Active(h) => guests[h].email # new.email
  <2>1. CASE r.created
    BY <1>2, <1>3, <2>1, NewAddress DEF FoundOrNew, NewGuest
  <2>2. CASE ~r.created
    BY <1>2, <1>3, <2>2 DEF EmailsDiffer, Active
  <2> QED BY <2>1, <2>2
<1> HIDE DEF new
<1>6. /\ guests' \in [Guests -> Guest]
      /\ MergesHaveAnEnd' /\ MergedAreDeleted' /\ EmailsDiffer'
      /\ \A h \in Guests : guests'[h].mergedInto = guests[h].mergedInto
  BY <1>1, <1>2, <1>3, <1>4, <1>5, GuestWritten
<1>7. TypeOK' /\ reqs' \in [Requests -> RequestType] /\ FreshReadsHold'
  BY <1>1, <1>2, <1>6, CommitOutdates DEF TypeOK, Types
<1>8. GuestInParty' BY <1>1 DEF GuestInParty
<1>9. MergedGuestOwnsNothing'
  <2>1. clean' => guests[r.guest].mergedInto = None
    BY <1>1, <1>2, <1>3 DEF FoundOrNew, Active, MergedAreDeleted
  <2> QED BY <1>1, <1>2, <1>3, <1>6, <2>1 DEF MergedGuestOwnsNothing, IsRow, TypeOK
<1> QED BY <1>6, <1>7, <1>8, <1>9

LEMMA CommitCreateGuestKeeps ==
  ASSUME GuestsInv, NEW q \in Requests, CommitCreateGuest(q)
  PROVE  GuestsInv'
<1> USE DEF GuestsInv, Inv
<1> DEFINE r == reqs[q]
           new == NewGuest(r.email)
<1>1. /\ r.op = "createGuest" /\ r # Idle /\ Commit(q)
      /\ UNCHANGED <<events, rows, linked, stays>>
  BY DEF CommitCreateGuest, Idle
<1>2. PICK g \in Guests : guests[g].state = "unknown" /\ guests' = [guests EXCEPT ![g] = new]
  BY DEF CommitCreateGuest
<1>3. r.email \in Emails \cup {None} BY <1>1, RequestFields DEF Types
<1>4. clean' => clean /\ (r.email # None => Spelled(r.email) = {})
  BY <1>1, CleanCommit DEF StillSo
<1>5. /\ new \in Guest /\ new.mergedInto = guests[g].mergedInto
      /\ new.mergedInto # None => new.state = "deleted"
  BY <1>2, <1>3, NewGuestTyped DEF MergedAreDeleted, NewGuest
<1>6. clean' /\ new.state = "active" /\ new.email # None =>
        \A h \in Guests : h # g /\ Active(h) => guests[h].email # new.email
  BY <1>4 DEF NewGuest, Spelled
<1> HIDE DEF new
<1>7. /\ guests' \in [Guests -> Guest]
      /\ MergesHaveAnEnd' /\ MergedAreDeleted' /\ EmailsDiffer'
      /\ \A h \in Guests : guests'[h].mergedInto = guests[h].mergedInto
  BY <1>2, <1>4, <1>5, <1>6, GuestWritten
<1>8. TypeOK' /\ reqs' \in [Requests -> RequestType] /\ FreshReadsHold'
  BY <1>1, <1>7, CommitOutdates DEF TypeOK, Types
<1>9. GuestInParty' BY <1>1 DEF GuestInParty
<1>10. MergedGuestOwnsNothing' BY <1>1, <1>4, <1>7 DEF MergedGuestOwnsNothing, IsRow
<1> QED BY <1>7, <1>8, <1>9, <1>10

LEMMA CommitUpdateGuestKeeps ==
  ASSUME GuestsInv, NEW q \in Requests, CommitUpdateGuest(q)
  PROVE  GuestsInv'
<1> USE DEF GuestsInv, Inv
<1> DEFINE r == reqs[q]
           new == [guests[r.guest] EXCEPT !.email = r.email]
<1>1. /\ r.op = "updateGuest" /\ r # Idle /\ Commit(q)
      /\ UNCHANGED <<events, rows, linked, stays>>
      /\ guests' = [guests EXCEPT ![r.guest].email = r.email]
  BY DEF CommitUpdateGuest, Idle
<1>2. r.guest \in Guests /\ r.email \in Emails /\ guests[r.guest] \in Guest
  BY <1>1, RequestFields DEF Types, TypeOK
<1>3. guests' = [guests EXCEPT ![r.guest] = new] BY <1>1, <1>2 DEF TypeOK
<1>4. clean' => clean /\ Active(r.guest)
                /\ (guests[r.guest].email # r.email => Spelled(r.email) \subseteq {r.guest})
  BY <1>1, CleanCommit DEF StillSo
<1>5. /\ new \in Guest /\ new.mergedInto = guests[r.guest].mergedInto
      /\ new.email = r.email /\ new.state = guests[r.guest].state
  BY <1>2 DEF Guest
<1>6. new.mergedInto # None => new.state = "deleted"
  BY <1>2, <1>5 DEF MergedAreDeleted
<1> HIDE DEF new
<1>7. clean' /\ new.state = "active" /\ new.email # None =>
        \A h \in Guests : h # r.guest /\ Active(h) => guests[h].email # new.email
  BY <1>2, <1>4, <1>5 DEF EmailsDiffer, Spelled
<1>8. /\ guests' \in [Guests -> Guest]
      /\ MergesHaveAnEnd' /\ MergedAreDeleted' /\ EmailsDiffer'
      /\ \A h \in Guests : guests'[h].mergedInto = guests[h].mergedInto
  BY <1>2, <1>3, <1>4, <1>5, <1>6, <1>7, GuestWritten
<1>9. TypeOK' /\ reqs' \in [Requests -> RequestType] /\ FreshReadsHold'
  BY <1>1, <1>8, CommitOutdates DEF TypeOK, Types
<1>10. GuestInParty' BY <1>1 DEF GuestInParty
<1>11. MergedGuestOwnsNothing' BY <1>1, <1>4, <1>8 DEF MergedGuestOwnsNothing, IsRow
<1> QED BY <1>8, <1>9, <1>10, <1>11

\* The guest create_or_link writes: found or created, with the address given.
CustomerRow(r) ==
  LET b == r.body
      g == IF r.created THEN NewGuest(b.email) ELSE guests[r.guest]
  IN  IF b.apply THEN [g EXCEPT !.email = b.email] ELSE g

LEMMA CustomerRowTyped ==
  ASSUME GuestsInv, NEW q \in Requests, reqs[q].op = "createOrLink",
         reqs[q].created => guests[reqs[q].guest].state = "unknown"
  PROVE  LET r == reqs[q]
             new == CustomerRow(r)
         IN  /\ new \in Guest /\ new.mergedInto = guests[r.guest].mergedInto
             /\ new.mergedInto # None => new.state = "deleted"
             /\ r.created => new.state = "active" /\ new.email = r.body.email
             /\ ~r.created => new.state = guests[r.guest].state
             /\ r.body.apply => new.email = r.body.email
             /\ ~r.created /\ ~r.body.apply => new = guests[r.guest]
<1> USE DEF GuestsInv, Inv
<1> DEFINE r == reqs[q]
           b == r.body
           g == IF r.created THEN NewGuest(b.email) ELSE guests[r.guest]
<1>1. r.guest \in Guests /\ r.created \in BOOLEAN /\ b \in LinkBody
  BY RequestFields DEF Types
<1>2. b.email \in Emails \cup {None} /\ b.apply \in BOOLEAN BY <1>1 DEF LinkBody
<1>3. /\ g \in Guest /\ g.mergedInto = guests[r.guest].mergedInto
      /\ g.mergedInto # None => g.state = "deleted"
      /\ r.created => g.state = "active" /\ g.email = b.email
      /\ ~r.created => g = guests[r.guest]
  BY <1>1, <1>2, NewGuestTyped DEF TypeOK, MergedAreDeleted, NewGuest
<1> HIDE DEF g
<1>4. CustomerRow(r) = IF b.apply THEN [g EXCEPT !.email = b.email] ELSE g
  BY DEF CustomerRow, g
<1>5. CASE b.apply
  <2> CustomerRow(r) = [g EXCEPT !.email = b.email] BY <1>4, <1>5
  <2> QED BY <1>2, <1>3, <1>5 DEF Guest
<1>6. CASE ~b.apply BY <1>3, <1>4, <1>6
<1> QED BY <1>2, <1>5, <1>6

LEMMA CommitCreateOrLinkKeeps ==
  ASSUME GuestsInv, NEW q \in Requests, CommitCreateOrLink(q)
  PROVE  GuestsInv'
<1> USE DEF GuestsInv, Inv
<1> DEFINE r == reqs[q]
           b == r.body
           new == CustomerRow(r)
           free == IF r.row = None THEN {j \in Registrations : rows[j] = None}
                   ELSE {j \in {r.row} : IsRow(j)}
           moves == r.row = None \/ r.byId
           row(i) == [event |-> IF moves THEN b.to.event ELSE rows[i].event,
                      guest |-> IF moves THEN r.guest ELSE rows[i].guest,
                      status |-> r.status, count |-> b.count, bookingId |-> b.bookingId]
<1>1. /\ r.op = "createOrLink" /\ r # Idle /\ Commit(q)
      /\ UNCHANGED stays
      /\ r.created => guests[r.guest].state = "unknown"
      /\ events' = EventsWith(b.to)
      /\ linked' = IF r.links THEN [linked EXCEPT ![r.conversation] = r.guest] ELSE linked
  BY DEF CommitCreateOrLink, Idle
<1>2. guests' = [guests EXCEPT ![r.guest] = new]
  BY DEF CommitCreateOrLink, CustomerRow
<1>3. PICK i \in free : rows' = [rows EXCEPT ![i] = row(i)]
  BY DEF CommitCreateOrLink
<1>4. /\ r.conversation \in Conversations /\ b \in LinkBody
      /\ r.guest \in Guests /\ r.created \in BOOLEAN /\ r.links \in BOOLEAN
      /\ r.row \in Registrations \cup {None} /\ r.byId \in BOOLEAN
      /\ r.status \in {"confirmed", "waitlisted"}
  BY <1>1, RequestFields DEF Types
<1>5. clean' => /\ clean /\ FoundOrNew(r.guest, r.created, b.email)
                /\ b.apply => SameEmail(b.email) \subseteq {r.guest}
  BY <1>1, CleanCommit DEF StillSo
<1>6. /\ new \in Guest /\ new.mergedInto = guests[r.guest].mergedInto
      /\ new.mergedInto # None => new.state = "deleted"
      /\ r.created => new.state = "active" /\ new.email = b.email
      /\ ~r.created => new.state = guests[r.guest].state
      /\ b.apply => new.email = b.email
      /\ ~r.created /\ ~b.apply => new = guests[r.guest]
  BY <1>1, CustomerRowTyped
<1> HIDE DEF new
<1>7. b.to \in Target /\ b.email \in Emails \cup {None} BY <1>4 DEF LinkBody
<1>8. clean' /\ new.state = "active" /\ new.email # None =>
        \A h \in Guests : h # r.guest /\ Active(h) => guests[h].email # new.email
  <2>1. CASE b.apply
    BY <1>5, <1>6, <1>4, <1>7, <2>1, NewAddress
  <2>2. CASE ~b.apply /\ r.created
    BY <1>5, <1>6, <1>4, <1>7, <2>2, NewAddress DEF FoundOrNew
  <2>3. CASE ~b.apply /\ ~r.created
    BY <1>5, <1>6, <1>4, <2>3 DEF EmailsDiffer, Active
  <2> QED BY <2>1, <2>2, <2>3
<1>9. /\ guests' \in [Guests -> Guest]
      /\ MergesHaveAnEnd' /\ MergedAreDeleted' /\ EmailsDiffer'
      /\ \A h \in Guests : guests'[h].mergedInto = guests[h].mergedInto
  BY <1>2, <1>4, <1>5, <1>6, <1>8, GuestWritten
<1>10. /\ rows' \in [Registrations -> Row \cup {None, Gone}]
       /\ \A j \in Registrations : IsRow(j)' =>
            rows'[j].guest = r.guest \/ (IsRow(j) /\ rows'[j].guest = rows[j].guest)
  <2>1. i \in Registrations /\ (moves \/ (IsRow(i) /\ rows[i] \in Row))
    BY <1>3, <1>4 DEF TypeOK, IsRow
  <2>2. /\ row(i) \in Row
        /\ row(i).guest = r.guest \/ (IsRow(i) /\ row(i).guest = rows[i].guest)
    BY <1>4, <1>7, <2>1 DEF Row, LinkBody, Target
  <2> HIDE DEF row, free
  <2> QED BY <1>3, <2>1, <2>2 DEF TypeOK, IsRow
<1>11. linked' \in [Conversations -> Guests \cup {None}] BY <1>1, <1>4 DEF TypeOK
<1>12. TypeOK' /\ reqs' \in [Requests -> RequestType] /\ FreshReadsHold'
  BY <1>1, <1>7, <1>9, <1>10, <1>11, CommitOutdates, EventsWithTyped DEF TypeOK, Types
<1>13. GuestInParty' BY <1>1 DEF GuestInParty
<1>14. MergedGuestOwnsNothing'
  <2>1. clean' => guests[r.guest].mergedInto = None
    BY <1>1, <1>4, <1>5 DEF FoundOrNew, Active, MergedAreDeleted
  <2> QED BY <1>1, <1>4, <1>5, <1>9, <1>10, <2>1 DEF MergedGuestOwnsNothing, TypeOK
<1> QED BY <1>9, <1>12, <1>13, <1>14

LEMMA CommitMergeKeeps ==
  ASSUME GuestsInv, NEW q \in Requests, CommitMerge(q)
  PROVE  GuestsInv'
<1> USE DEF GuestsInv, Inv
<1> DEFINE r == reqs[q]
           new == [guests[r.secondary] EXCEPT !.state = "deleted", !.mergedInto = r.primary]
<1>1. /\ r.op = "merge" /\ r # Idle /\ Commit(q)
      /\ UNCHANGED events
      /\ stays' = [s \in Stays |-> MovedStay(stays[s], r)]
      /\ linked' = [c \in Conversations |-> Moved(linked[c], r)]
      /\ rows' = [i \in Registrations |->
                    IF IsRow(i) THEN [rows[i] EXCEPT !.guest = Moved(@, r)] ELSE rows[i]]
      /\ guests' = [guests EXCEPT ![r.secondary].state = "deleted",
                                  ![r.secondary].mergedInto = r.primary]
  BY DEF CommitMerge, Idle
<1>2. r.primary \in Guests /\ r.secondary \in Guests /\ guests[r.secondary] \in Guest
  BY <1>1, RequestFields DEF Types, TypeOK
<1>3. clean' => /\ clean /\ r.primary # r.secondary
                /\ guests[r.primary].mergedInto = None
                /\ guests[r.secondary].mergedInto = None
  BY <1>1, <1>2, CleanCommit DEF StillSo, Active, MergedAreDeleted
<1>4. guests' = [guests EXCEPT ![r.secondary] = new] BY <1>1, <1>2 DEF TypeOK
<1>5. /\ new \in Guest /\ new.state = "deleted" /\ new.mergedInto = r.primary
      /\ new.email = guests[r.secondary].email
  BY <1>2 DEF Guest
<1> HIDE DEF new
<1>6. \A g \in Guests : guests'[g] = IF g = r.secondary THEN new ELSE guests[g]
  BY <1>2, <1>4 DEF TypeOK
<1>7. \A g : Moved(g, r) = IF g = r.secondary THEN r.primary ELSE g BY DEF Moved
<1>8. /\ rows' \in [Registrations -> Row \cup {None, Gone}]
      /\ \A i \in Registrations : IsRow(i)' =>
           IsRow(i) /\ rows'[i].guest = Moved(rows[i].guest, r)
  <2>1. ASSUME NEW i \in Registrations, IsRow(i)
        PROVE  /\ [rows[i] EXCEPT !.guest = Moved(@, r)] \in Row
               /\ [rows[i] EXCEPT !.guest = Moved(@, r)].guest = Moved(rows[i].guest, r)
    <3>1. rows[i] \in Row BY <2>1 DEF TypeOK, IsRow
    <3>2. Moved(rows[i].guest, r) \in Guests BY <1>2, <1>7, <3>1 DEF Row
    <3> QED BY <3>1, <3>2 DEF Row
  <2> QED BY <1>1, <2>1 DEF TypeOK, IsRow
<1>9. /\ stays' \in [Stays -> Stay]
      /\ \A s \in Stays : /\ stays'[s].guest = Moved(stays[s].guest, r)
                          /\ stays'[s].party = {Moved(g, r) : g \in stays[s].party}
  <2>1. ASSUME NEW s \in Stays
        PROVE  /\ MovedStay(stays[s], r) \in Stay
               /\ MovedStay(stays[s], r).guest = Moved(stays[s].guest, r)
               /\ MovedStay(stays[s], r).party = {Moved(g, r) : g \in stays[s].party}
    <3>1. stays[s].guest \in Guests /\ stays[s].party \subseteq Guests
      BY DEF TypeOK, Stay
    <3>2. Moved(stays[s].guest, r) \in Guests
      BY <1>2, <1>7, <3>1
    <3>3. {Moved(g, r) : g \in stays[s].party} \subseteq Guests
      BY <1>2, <1>7, <3>1
    <3> QED BY <3>2, <3>3 DEF MovedStay, Stay
  <2> QED BY <1>1, <2>1
<1>10. linked' \in [Conversations -> Guests \cup {None}]
  BY <1>1, <1>2, <1>7 DEF TypeOK
<1>11. guests' \in [Guests -> Guest] BY <1>4, <1>5 DEF TypeOK
<1>12. TypeOK' /\ reqs' \in [Requests -> RequestType] /\ FreshReadsHold'
  BY <1>1, <1>8, <1>9, <1>10, <1>11, CommitOutdates DEF TypeOK, Types
<1>13. GuestInParty' BY <1>9 DEF GuestInParty
<1>14. MergedAreDeleted' BY <1>5, <1>6 DEF MergedAreDeleted
<1>15. EmailsDiffer' BY <1>3, <1>5, <1>6 DEF EmailsDiffer, Active
<1>16. MergesHaveAnEnd'
  <2> SUFFICES ASSUME clean', NEW circle \in SUBSET Guests, circle # {}
               PROVE  \E g \in circle : guests'[g].mergedInto \notin circle
    BY DEF MergesHaveAnEnd
  <2>1. CASE r.secondary \notin circle
    <3> PICK g \in circle : guests[g].mergedInto \notin circle
      BY <1>3 DEF MergesHaveAnEnd
    <3> QED BY <1>6, <2>1
  <2>2. CASE r.secondary \in circle /\ r.primary \notin circle
    BY <1>2, <1>5, <1>6, <2>2
  <2>3. CASE r.primary \in circle
    BY <1>2, <1>3, <1>6, <2>3, ParameterAssumption
  <2> QED BY <2>1, <2>2, <2>3
<1>17. MergedGuestOwnsNothing'
  <2> SUFFICES ASSUME clean', NEW g \in Guests, guests'[g].mergedInto # None
               PROVE  /\ \A s \in Stays : g # stays'[s].guest /\ g \notin stays'[s].party
                      /\ \A i \in Registrations : IsRow(i)' => rows'[i].guest # g
                      /\ \A c \in Conversations : linked'[c] # g
    BY DEF MergedGuestOwnsNothing
  <2>1. g # r.primary BY <1>2, <1>3, <1>6
  <2>2. g = r.secondary \/ guests[g].mergedInto # None BY <1>6
  <2>3. \A h : Moved(h, r) = g => h = g /\ h # r.secondary BY <1>7, <2>1
  <2>4. ASSUME NEW s \in Stays PROVE g # stays'[s].guest /\ g \notin stays'[s].party
    BY <1>3, <1>9, <2>2, <2>3 DEF MergedGuestOwnsNothing
  <2>5. ASSUME NEW i \in Registrations, IsRow(i)' PROVE rows'[i].guest # g
    BY <1>3, <1>8, <2>2, <2>3, <2>5 DEF MergedGuestOwnsNothing
  <2>6. ASSUME NEW c \in Conversations PROVE linked'[c] # g
    BY <1>1, <1>3, <2>2, <2>3 DEF MergedGuestOwnsNothing
  <2> QED BY <2>4, <2>5, <2>6
<1> QED BY <1>12, <1>13, <1>14, <1>15, <1>16, <1>17

-----------------------------------------------------------------------------
(* One registration is written                                              *)

\* There are finitely many to count, and each has attendees.
LEMMA ConfirmedAreRows ==
  ASSUME TypeOK, RowsFinite, NEW e, NEW except
  PROVE  /\ IsFiniteSet(Confirmed(rows, e, except))
         /\ \A x \in Confirmed(rows, e, except) : rows[x].count \in Nat
         /\ Attendees(rows, e, except) \in Nat
<1>1. Confirmed(rows, e, except) \subseteq {i \in Registrations : IsRow(i)}
  BY DEF Confirmed, IsRow
<1>2. IsFiniteSet(Confirmed(rows, e, except)) BY <1>1, FS_Subset DEF RowsFinite
<1>3. \A x \in Confirmed(rows, e, except) : rows[x].count \in Nat
  BY DEF Confirmed, TypeOK, Row
<1>4. Attendees(rows, e, except) \in Nat BY <1>2, <1>3, AttendeesAreSum, SumWithout
<1> QED BY <1>2, <1>3, <1>4

\* One registration is written: the others take the seats they took, and it
\* takes no more than its own.
LEMMA RowWritten ==
  ASSUME TypeOK, RowsFinite, NEW i \in Registrations, NEW row \in Row,
         rows' = [rows EXCEPT ![i] = row], NEW e
  PROVE  /\ Attendees(rows, e, {i}) \in Nat /\ Attendees(rows', e, {}) \in Nat
         /\ Attendees(rows, e, {i}) <= Attendees(rows, e, {})
         /\ Attendees(rows, e, {i}) <= Attendees(rows', e, {})
         /\ Attendees(rows', e, {}) <= Attendees(rows, e, {i}) + row.count
         /\ row.event # e \/ row.status # "confirmed" =>
              Attendees(rows', e, {}) = Attendees(rows, e, {i})
<1> DEFINE C == Confirmed(rows, e, {i})
<1>1. /\ IsFiniteSet(C) /\ \A x \in C : rows[x].count \in Nat
      /\ Attendees(rows, e, {i}) \in Nat /\ Attendees(rows, e, {}) \in Nat
  BY ConfirmedAreRows
<1>2. i \notin C /\ C \subseteq Registrations BY DEF Confirmed
<1>3. rows'[i] = row /\ \A x \in Registrations : x # i => rows'[x] = rows[x] BY DEF TypeOK
<1>4. row.count \in Nat BY DEF Row
<1>5. /\ SumOver(rows', C) = Attendees(rows, e, {i})
      /\ SumOver(rows', C \cup {i}) = row.count + Attendees(rows, e, {i})
  <2>1. PICK u : u = rows' OBVIOUS
  <2>2. \A x \in C : rows[x].count \in Nat /\ u[x].count = rows[x].count
    BY <1>1, <1>2, <1>3, <2>1
  <2>3. u[i].count \in Nat BY <1>3, <1>4, <2>1
  <2>4. Attendees(rows, e, {i}) = SumOver(rows, C) BY AttendeesAreSum
  <2>5. SumOver(u, C) = SumOver(rows, C) /\ SumOver(u, C \cup {i}) = u[i].count + SumOver(rows, C)
    <3>1. PICK D : D = C \cup {i} OBVIOUS
    <3> HIDE DEF C
    <3>2. SumOver(u, C) = SumOver(rows, C) BY <1>1, <2>2, SumSame
    <3>3. IsFiniteSet(D) /\ i \in D /\ D \ {i} = C BY <1>1, <1>2, <3>1, FS_AddElement
    <3>4. \A x \in D : u[x].count \in Nat BY <2>2, <2>3, <3>1
    <3>5. \A x \in D : SumOver(u, D) = u[x].count + SumOver(u, D \ {x})
      BY <3>3, <3>4, SumWithout
    <3>6. SumOver(u, D) = u[i].count + SumOver(u, D \ {i}) BY <3>3, <3>5
    <3> QED BY <3>1, <3>2, <3>3, <3>6
  <2> HIDE DEF C
  <2> QED BY <1>3, <2>1, <2>4, <2>5
<1>7. Attendees(rows, e, {i}) <= Attendees(rows, e, {})
  <2>1. C \in SUBSET Confirmed(rows, e, {}) BY DEF Confirmed
  <2>2. SumOver(rows, C) <= SumOver(rows, Confirmed(rows, e, {}))
    BY <2>1, ConfirmedAreRows, SumOfPart
  <2> QED BY <2>2, AttendeesAreSum
<1>8. CASE Confirmed(rows', e, {}) = C
  <2>1. Attendees(rows', e, {}) = SumOver(rows', C) BY <1>8, AttendeesAreSum
  <2> HIDE DEF C
  <2>2. Attendees(rows', e, {}) = Attendees(rows, e, {i}) BY <1>5, <2>1
  <2> QED BY <1>1, <1>4, <1>7, <2>2
<1>9. CASE Confirmed(rows', e, {}) # C
  <2>1. \A x \in Registrations \ {i} : x \in Confirmed(rows', e, {}) <=> x \in C
    BY <1>3 DEF Confirmed
  <2>2. Confirmed(rows', e, {}) \subseteq Registrations BY DEF Confirmed
  <2>3. i \in Confirmed(rows', e, {}) /\ Confirmed(rows', e, {}) = C \cup {i}
    <3> DEFINE A == Confirmed(rows', e, {})
    <3>1. A \subseteq Registrations /\ A # C BY <1>9, <2>2
    <3>2. \A x \in Registrations \ {i} : x \in A <=> x \in C BY <2>1
    <3> HIDE DEF A, C
    <3>3. i \in A
      <4>1. CASE i \notin A
        <5>1. \A x : x \in A <=> x \in C BY <1>2, <3>1, <3>2, <4>1
        <5> QED BY <3>1, <5>1
      <4> QED BY <4>1
    <3>4. \A x : x \in A <=> x \in C \cup {i} BY <1>2, <3>1, <3>2, <3>3
    <3>5. A = C \cup {i} BY <3>4
    <3> QED BY <3>3, <3>5 DEF A
  <2>4. row.event = e /\ row.status = "confirmed" BY <1>3, <2>3 DEF Confirmed
  <2>5. Attendees(rows', e, {}) = SumOver(rows', C \cup {i}) BY <2>3, AttendeesAreSum
  <2> HIDE DEF C
  <2>6. Attendees(rows', e, {}) = row.count + Attendees(rows, e, {i}) BY <1>5, <2>5
  <2> QED BY <1>1, <1>4, <1>7, <2>4, <2>6
<1> QED BY <1>8, <1>9

\* More seats of an event are taken only within its capacity.
SeatsKept ==
  \A e \in Events :
    Attendees(rows', e, {}) > Attendees(rows, e, {}) => Attendees(rows', e, {}) <= events'[e]

\* Who is put on the waiting list asked for more seats than there were.
WaitingKept ==
  \A i \in Registrations :
    /\ rows'[i] # rows[i] /\ rows'[i] \notin {None, Gone}
    /\ rows'[i].status = "waitlisted"
    => Attendees(rows', rows'[i].event, {}) + rows'[i].count > events'[rows'[i].event]

LEMMA RowKeepsSeats ==
  ASSUME TypeOK, RowsFinite, NEW i \in Registrations, NEW row \in Row,
         rows' = [rows EXCEPT ![i] = row], events'[row.event] \in Nat,
         row.status = IF Attendees(rows, row.event, {i}) + row.count <= events'[row.event]
                      THEN "confirmed" ELSE "waitlisted"
  PROVE  SeatsKept /\ WaitingKept
<1>1. SeatsKept
  <2> SUFFICES ASSUME NEW e \in Events, Attendees(rows', e, {}) > Attendees(rows, e, {})
               PROVE  Attendees(rows', e, {}) <= events'[e]
    BY DEF SeatsKept
  <2>1. /\ Attendees(rows, e, {i}) \in Nat /\ Attendees(rows', e, {}) \in Nat
        /\ Attendees(rows, e, {i}) <= Attendees(rows, e, {})
        /\ Attendees(rows', e, {}) <= Attendees(rows, e, {i}) + row.count
        /\ row.event # e \/ row.status # "confirmed" =>
             Attendees(rows', e, {}) = Attendees(rows, e, {i})
    BY RowWritten
  <2>2. Attendees(rows, e, {}) \in Nat BY ConfirmedAreRows
  <2>3. row.event = e /\ row.status = "confirmed" BY <2>1, <2>2
  <2>4. Attendees(rows, e, {i}) + row.count <= events'[e] BY <2>3
  <2>5. row.count \in Nat BY DEF Row
  <2> QED BY <2>1, <2>3, <2>4, <2>5
<1>2. WaitingKept
  <2> SUFFICES ASSUME NEW j \in Registrations, rows'[j] # rows[j], rows'[j].status = "waitlisted"
               PROVE  Attendees(rows', rows'[j].event, {}) + rows'[j].count
                        > events'[rows'[j].event]
    BY DEF WaitingKept
  <2>1. j = i /\ rows'[j] = row BY DEF TypeOK
  <2>2. /\ Attendees(rows, row.event, {i}) \in Nat
        /\ Attendees(rows', row.event, {}) = Attendees(rows, row.event, {i})
    BY <2>1, RowWritten
  <2>3. ~(Attendees(rows, row.event, {i}) + row.count <= events'[row.event]) BY <2>1
  <2>4. row.count \in Nat BY DEF Row
  <2> QED BY <2>1, <2>2, <2>3, <2>4
<1> QED BY <1>1, <1>2

-----------------------------------------------------------------------------
(* What a request has counted is so until another commits                    *)

LEMMA TargetFields ==
  ASSUME TypeOK, NEW t \in Target, CanTarget(t)
  PROVE  t.event \in Events /\ CapacityOf(t) \in Nat /\ EventsWith(t)[t.event] = CapacityOf(t)
<1>1. t.event \in Events /\ t.opens \in Capacities \cup {None} BY DEF Target
<1>2. CASE t.opens = None
  <2>1. events[t.event] \in Capacities BY <1>1, <1>2 DEF CanTarget, IsEvent, TypeOK
  <2> QED BY <1>1, <1>2, <2>1, ParameterAssumption DEF CapacityOf, EventsWith
<1>3. CASE t.opens # None
  <2>1. t.opens \in Nat BY <1>1, <1>3, ParameterAssumption
  <2> QED BY <1>1, <1>3, <2>1 DEF CapacityOf, EventsWith, TypeOK
<1> QED BY <1>2, <1>3

\* Whatever a handler begins with, it remembers what it counted.
LEMMA ReadingCounts ==
  ASSUME GuestsInv, NEW q \in Requests, Reading(q)
  PROVE  \E r : Begin(q, r) /\ SeatsSo(r)
<1>1. ASSUME NEW e \in Events, NEW g \in Guests, BeginRegister(q, e, g)
      PROVE  \E r : Begin(q, r) /\ SeatsSo(r)
  <2>1. PICK i \in IF Pair(e, g) = {} THEN {None} ELSE Pair(e, g) :
          Begin(q, [op |-> "register", row |-> i, event |-> e, guest |-> g,
                    status |-> NewStatus(e, events[e], 1, {}),
                    bookingId |-> IF i = None THEN None ELSE rows[i].bookingId,
                    fresh |-> TRUE])
    BY <1>1 DEF BeginRegister
  <2> DEFINE r == [op |-> "register", row |-> i, event |-> e, guest |-> g,
                    status |-> NewStatus(e, events[e], 1, {}),
                    bookingId |-> IF i = None THEN None ELSE rows[i].bookingId,
                    fresh |-> TRUE]
  <2>2. i # None => IsRow(i) /\ rows[i].event = e /\ rows[i].status = "cancelled"
    BY <1>1 DEF BeginRegister, Pair
  <2>3. SeatsSo(r) BY <1>1, <2>2 DEF SeatsSo, BeginRegister
  <2> QED BY <2>1, <2>3
<1>2. ASSUME NEW x \in BookingIds, NEW t \in Target, BeginMove(q, x, t)
      PROVE  \E r : Begin(q, r) /\ SeatsSo(r)
  <2>1. PICK i \in WithBookingId(x) :
          Begin(q, [op |-> "move", row |-> i, to |-> t, fresh |-> TRUE,
                    status |-> NewStatus(t.event, CapacityOf(t), rows[i].count, {i})])
    BY <1>2 DEF BeginMove
  <2> DEFINE r == [op |-> "move", row |-> i, to |-> t, fresh |-> TRUE,
                    status |-> NewStatus(t.event, CapacityOf(t), rows[i].count, {i})]
  <2>2. IsRow(i) /\ CanTarget(t) BY <1>2 DEF BeginMove, WithBookingId
  <2>3. SeatsSo(r) BY <2>2 DEF SeatsSo
  <2> QED BY <2>1, <2>3
<1>3. ASSUME NEW c \in Conversations, NEW b \in LinkBodies, BeginCreateOrLink(q, c, b)
      PROVE  \E r : Begin(q, r) /\ SeatsSo(r)
  <2> DEFINE found(g) == IF WithBookingId(b.bookingId) # {} THEN WithBookingId(b.bookingId)
                         ELSE Pair(b.to.event, g)
             R(g, i) == [op |-> "createOrLink", conversation |-> c, body |-> b,
                         guest |-> g, created |-> guests[g].state = "unknown",
                         links |-> linked[c] # g, row |-> i,
                         byId |-> WithBookingId(b.bookingId) # {},
                         status |-> NewStatus(b.to.event, CapacityOf(b.to), b.count, {i}),
                         fresh |-> TRUE]
  <2>1. PICK g \in Resolved(c, b) :
          \E i \in IF found(g) = {} THEN {None} ELSE found(g) : Begin(q, R(g, i))
    BY <1>3 DEF BeginCreateOrLink
  <2>2. PICK i \in IF found(g) = {} THEN {None} ELSE found(g) : Begin(q, R(g, i)) BY <2>1
  <2>3. i # None /\ WithBookingId(b.bookingId) = {} => IsRow(i) /\ rows[i].event = b.to.event
    BY DEF Pair
  <2>4. CanTarget(b.to) BY <1>3 DEF BeginCreateOrLink
  <2>5. SeatsSo(R(g, i)) BY <2>3, <2>4 DEF SeatsSo
  <2> QED BY <2>2, <2>5
<1>4. ASSUME NEW r, Begin(q, r), r.op \notin {"register", "move", "createOrLink"}
      PROVE  \E s : Begin(q, s) /\ SeatsSo(s)
  BY <1>4 DEF SeatsSo
<1>5. ASSUME NEW c \in Conversations, NEW g \in Guests, BeginLinkGuest(q, c, g)
      PROVE  \E r : Begin(q, r) /\ SeatsSo(r)
  BY <1>4, <1>5 DEF BeginLinkGuest
<1>6. ASSUME NEW c \in Conversations, NEW m \in Emails \cup {None},
             BeginGuestFromConversation(q, c, m)
      PROVE  \E r : Begin(q, r) /\ SeatsSo(r)
  BY <1>4, <1>6 DEF BeginGuestFromConversation
<1>7. ASSUME NEW m \in Emails \cup {None}, BeginCreateGuest(q, m)
      PROVE  \E r : Begin(q, r) /\ SeatsSo(r)
  BY <1>4, <1>7 DEF BeginCreateGuest
<1>8. ASSUME NEW g \in Guests, NEW m \in Emails, BeginUpdateGuest(q, g, m)
      PROVE  \E r : Begin(q, r) /\ SeatsSo(r)
  BY <1>4, <1>8 DEF BeginUpdateGuest
<1>9. ASSUME NEW g \in Guests, NEW h \in Guests, BeginMerge(q, g, h)
      PROVE  \E r : Begin(q, r) /\ SeatsSo(r)
  BY <1>4, <1>9 DEF BeginMerge
<1> QED BY <1>1, <1>2, <1>3, <1>5, <1>6, <1>7, <1>8, <1>9 DEF Reading

LEMMA OutdatedStays ==
  ASSUME NEW r \in RequestType, r # Idle
  PROVE  Outdated(r) # Idle /\ Outdated(r).fresh = FALSE
<1>1. Outdated(r).op = r.op /\ r.op # "idle"
  <2>1. r.op # "idle" BY DEF RequestType
  <2>2. Outdated(r) = [r EXCEPT !.fresh = FALSE] BY DEF Outdated
  <2> QED BY <2>1, <2>2 DEF RequestType
<1>2. Outdated(r) # Idle BY <1>1 DEF Idle
<1> QED BY <1>2, OutdatedTyped

\* A commit leaves nobody fresh, and ends only the request that makes it.
LEMMA CommitEnds ==
  ASSUME Types, NEW q \in Requests, Commit(q)
  PROVE  /\ FreshSeatsHold'
         /\ \A p \in Requests : reqs[p] # Idle /\ reqs'[p] = Idle => p = q
<1>1. \A p \in Requests : reqs[p] \in RequestType BY DEF Types
<1>2. \A p \in Requests : p # q /\ reqs[p] # Idle =>
        reqs'[p] # Idle /\ reqs'[p].fresh = FALSE
  BY <1>1, OutdatedStays DEF Commit
<1>3. \A p \in Requests : p # q /\ reqs[p] = Idle => reqs'[p] = Idle
  BY DEF Commit, Outdated
<1>4. reqs'[q] = Idle BY DEF Commit
<1> QED BY <1>2, <1>3, <1>4 DEF FreshSeatsHold

LEMMA AtOnceEnds ==
  ASSUME Types, AtOnce
  PROVE  /\ FreshSeatsHold'
         /\ \A p \in Requests : ~(reqs[p] # Idle /\ reqs'[p] = Idle)
<1>1. \A p \in Requests : reqs[p] \in RequestType BY DEF Types
<1>2. \A p \in Requests : reqs[p] # Idle => reqs'[p] # Idle /\ reqs'[p].fresh = FALSE
  BY <1>1, OutdatedStays DEF AtOnce
<1>3. \A p \in Requests : reqs[p] = Idle => reqs'[p] = Idle
  BY DEF AtOnce, Outdated
<1> QED BY <1>2, <1>3 DEF FreshSeatsHold

LEMMA CountStays ==
  ASSUME NEW r, SeatsSo(r), UNCHANGED <<events, rows>>
  PROVE  SeatsSo(r)'
BY DEF SeatsSo, IsEvent, IsRow, CanTarget, CapacityOf, NewStatus

-----------------------------------------------------------------------------
(* What the commits do to the seats                                          *)

LEMMA NotCounted ==
  ASSUME NEW i, NEW e, NEW Y, Y \cap Registrations = {},
         ~(IsRow(i) /\ rows[i].event = e /\ rows[i].status = "confirmed")
  PROVE  Attendees(rows, e, {i}) = Attendees(rows, e, Y)
<1>1. Confirmed(rows, e, {i}) = Confirmed(rows, e, Y) BY DEF Confirmed, IsRow
<1> QED BY <1>1, AttendeesAreSum

LEMMA RegisterSeats ==
  ASSUME GuestsInv, RowsFinite, NEW q \in Requests, CommitRegister(q), SeatsSo(reqs[q])
  PROVE  SeatsKept /\ WaitingKept
<1> USE DEF GuestsInv, Inv
<1> DEFINE r == reqs[q]
<1>1. /\ r.row \in Registrations \cup {None} /\ r.event \in Events /\ r.guest \in Guests
      /\ r.status \in {"confirmed", "waitlisted"} /\ r.bookingId \in BookingIds \cup {None}
  BY RequestFields DEF Types, CommitRegister
<1>2. /\ IsEvent(r.event) /\ r.status = NewStatus(r.event, events[r.event], 1, {})
      /\ r.row # None =>
           IsRow(r.row) /\ rows[r.row].event = r.event /\ rows[r.row].status = "cancelled"
  BY DEF SeatsSo, CommitRegister
<1>3. events' = events /\ events[r.event] \in Nat
  BY <1>1, <1>2, ParameterAssumption DEF CommitRegister, IsEvent, TypeOK
<1>4. PICK i \in Registrations, row \in Row :
        /\ rows' = [rows EXCEPT ![i] = row]
        /\ row.event = r.event /\ row.status = r.status /\ row.count = 1
        /\ ~(IsRow(i) /\ rows[i].event = r.event /\ rows[i].status = "confirmed")
  <2>1. CASE r.row = None
    <3> DEFINE new == [event |-> r.event, guest |-> r.guest,
                       status |-> r.status, count |-> 1, bookingId |-> None]
    <3>1. PICK i \in Registrations : rows[i] = None /\ rows' = [rows EXCEPT ![i] = new]
      BY <2>1 DEF CommitRegister
    <3>2. new \in Row BY <1>1 DEF Row
    <3>3. ~IsRow(i) BY <3>1 DEF IsRow
    <3> QED BY <3>1, <3>2, <3>3
  <2>2. CASE r.row # None
    <3> DEFINE old == rows[r.row]
               new == [event |-> old.event, guest |-> old.guest,
                       status |-> r.status, count |-> 1, bookingId |-> r.bookingId]
    <3>1. r.row \in Registrations /\ IsRow(r.row) /\ old \in Row
      BY <1>1, <1>2, <2>2 DEF TypeOK, IsRow
    <3>2. new \in Row BY <1>1, <3>1 DEF Row
    <3>3. rows' = [rows EXCEPT ![r.row] = new] BY <2>2 DEF CommitRegister
    <3>4. new.event = r.event /\ new.status = r.status /\ new.count = 1 BY <1>2, <2>2
    <3>5. old.status # "confirmed" BY <1>2, <2>2
    <3> HIDE DEF new
    <3> QED BY <3>1, <3>2, <3>3, <3>4, <3>5
  <2> QED BY <2>1, <2>2
<1>5. Attendees(rows, r.event, {i}) = Attendees(rows, r.event, {})
  <2>1. {} \cap Registrations = {} OBVIOUS
  <2> HIDE DEF r
  <2> QED BY <1>4, <2>1, NotCounted
<1>6. row.status = IF Attendees(rows, row.event, {i}) + row.count <= events'[row.event]
                   THEN "confirmed" ELSE "waitlisted"
  BY <1>2, <1>3, <1>4, <1>5 DEF NewStatus
<1> HIDE DEF r
<1> QED BY <1>3, <1>4, <1>6, RowKeepsSeats

LEMMA MoveSeats ==
  ASSUME GuestsInv, RowsFinite, NEW q \in Requests, CommitMove(q), SeatsSo(reqs[q])
  PROVE  SeatsKept /\ WaitingKept
<1> USE DEF GuestsInv, Inv
<1> DEFINE r == reqs[q]
<1>1. r.row \in Registrations /\ r.to \in Target /\ r.status \in {"confirmed", "waitlisted"}
  BY RequestFields DEF Types, CommitMove
<1>2. /\ IsRow(r.row) /\ CanTarget(r.to)
      /\ r.status = NewStatus(r.to.event, CapacityOf(r.to), rows[r.row].count, {r.row})
      /\ events' = EventsWith(r.to)
      /\ rows' = [rows EXCEPT ![r.row].event = r.to.event, ![r.row].status = r.status]
  BY DEF SeatsSo, CommitMove
<1> DEFINE row == [rows[r.row] EXCEPT !.event = r.to.event, !.status = r.status]
<1>3. rows[r.row] \in Row BY <1>1, <1>2 DEF TypeOK, IsRow
<1>4. /\ row \in Row /\ row.event = r.to.event /\ row.status = r.status
      /\ row.count = rows[r.row].count
  BY <1>1, <1>3 DEF Row, Target
<1>5. rows' = [rows EXCEPT ![r.row] = row] BY <1>1, <1>2, <1>3 DEF TypeOK, Row
<1>6. CapacityOf(r.to) \in Nat /\ events'[r.to.event] = CapacityOf(r.to)
  BY <1>1, <1>2, TargetFields
<1>7. row.status = IF Attendees(rows, row.event, {r.row}) + row.count <= events'[row.event]
                   THEN "confirmed" ELSE "waitlisted"
  <2> HIDE DEF row, r
  <2> QED BY <1>2, <1>4, <1>6 DEF NewStatus
<1> HIDE DEF r, row
<1> QED BY <1>1, <1>4, <1>5, <1>6, <1>7, RowKeepsSeats

LEMMA CreateOrLinkSeats ==
  ASSUME GuestsInv, RowsFinite, NEW q \in Requests, CommitCreateOrLink(q), SeatsSo(reqs[q])
  PROVE  SeatsKept /\ WaitingKept
<1> USE DEF GuestsInv, Inv
<1> DEFINE r == reqs[q]
           b == r.body
           free == IF r.row = None THEN {j \in Registrations : rows[j] = None}
                   ELSE {j \in {r.row} : IsRow(j)}
           moves == r.row = None \/ r.byId
           row(i) == [event |-> IF moves THEN b.to.event ELSE rows[i].event,
                      guest |-> IF moves THEN r.guest ELSE rows[i].guest,
                      status |-> r.status, count |-> b.count, bookingId |-> b.bookingId]
<1>1. /\ r.guest \in Guests /\ b \in LinkBody /\ r.row \in Registrations \cup {None}
      /\ r.status \in {"confirmed", "waitlisted"}
  BY RequestFields DEF Types, CommitCreateOrLink
<1>2. /\ CanTarget(b.to)
      /\ r.status = NewStatus(b.to.event, CapacityOf(b.to), b.count, {r.row})
      /\ ~moves => IsRow(r.row) /\ rows[r.row].event = b.to.event
      /\ events' = EventsWith(b.to)
  BY DEF SeatsSo, CommitCreateOrLink
<1>3. PICK i \in free : rows' = [rows EXCEPT ![i] = row(i)] BY DEF CommitCreateOrLink
<1>4. b.to \in Target /\ b.count \in Nat \ {0} /\ b.bookingId \in BookingIds
  BY <1>1 DEF LinkBody
<1>5. /\ b.to.event \in Events /\ CapacityOf(b.to) \in Nat
      /\ events'[b.to.event] = CapacityOf(b.to)
  BY <1>2, <1>4, TargetFields
<1>6. i \in Registrations /\ (r.row = None => ~IsRow(i)) /\ (r.row # None => i = r.row /\ IsRow(i))
  BY <1>1 DEF IsRow
<1>7. /\ (IF moves THEN b.to.event ELSE rows[i].event) = b.to.event
      /\ (IF moves THEN r.guest ELSE rows[i].guest) \in Guests
  BY <1>1, <1>2, <1>6 DEF TypeOK, IsRow, Row
<1>8. row(i) \in Row BY <1>1, <1>4, <1>5, <1>7 DEF Row
<1>9. row(i).event = b.to.event /\ row(i).status = r.status /\ row(i).count = b.count
  BY <1>7
<1>10. Attendees(rows, b.to.event, {i}) = Attendees(rows, b.to.event, {r.row})
  <2>1. CASE r.row = None
    <3>1. {r.row} \cap Registrations = {} BY <2>1, ParameterAssumption
    <3>2. ~IsRow(i) BY <1>6, <2>1
    <3> HIDE DEF r, b, free, moves, row
    <3> QED BY <3>1, <3>2, NotCounted
  <2>2. CASE r.row # None BY <1>6, <2>2
  <2> QED BY <2>1, <2>2
<1>11. PICK new : new = row(i) OBVIOUS
<1> HIDE DEF row, moves, free
<1>12. new.status = IF Attendees(rows, new.event, {i}) + new.count <= events'[new.event]
                    THEN "confirmed" ELSE "waitlisted"
  <2> HIDE DEF r, b
  <2> QED BY <1>2, <1>5, <1>9, <1>10, <1>11 DEF NewStatus
<1> HIDE DEF r, b
<1> QED BY <1>3, <1>5, <1>6, <1>8, <1>9, <1>11, <1>12, RowKeepsSeats

\* A merge changes who holds a registration, and frees the seats of none.
LEMMA MergeSeats ==
  ASSUME GuestsInv, RowsFinite, NEW q \in Requests, CommitMerge(q), StillSo(reqs[q])
  PROVE  SeatsKept /\ Merging
<1> USE DEF GuestsInv, Inv
<1> DEFINE r == reqs[q]
<1>1. /\ r.primary \in Guests /\ r.secondary \in Guests /\ Active(r.secondary)
  BY RequestFields DEF Types, CommitMerge, StillSo
<1>2. Merging
  <2>1. guests[r.secondary].mergedInto = None BY <1>1 DEF Active, MergedAreDeleted
  <2>2. guests'[r.secondary].mergedInto = r.primary BY <1>1 DEF CommitMerge, TypeOK, Guest
  <2> QED BY <1>1, <2>1, <2>2, ParameterAssumption DEF Merging
<1>3. \A i \in Registrations :
        rows'[i] = IF IsRow(i) THEN [rows[i] EXCEPT !.guest = Moved(@, r)] ELSE rows[i]
  BY DEF CommitMerge
<1>4. \A i \in Registrations : IsRow(i) =>
        /\ rows'[i].event = rows[i].event /\ rows'[i].status = rows[i].status
        /\ rows'[i].count = rows[i].count
  BY <1>3 DEF TypeOK, IsRow, Row
<1>5. \A i \in Registrations : ~IsRow(i) => rows'[i] = rows[i] BY <1>3
<1>6. SeatsKept
  <2> SUFFICES ASSUME NEW e \in Events
               PROVE  /\ Attendees(rows', e, {}) \in Nat /\ Attendees(rows, e, {}) \in Nat
                      /\ Attendees(rows', e, {}) <= Attendees(rows, e, {})
    BY DEF SeatsKept
  <2> DEFINE C == Confirmed(rows, e, {})
             D == Confirmed(rows', e, {})
  <2>1. D \in SUBSET C BY <1>4, <1>5 DEF Confirmed, IsRow
  <2>2. \A x \in C : rows'[x].count = rows[x].count BY <1>4 DEF Confirmed, IsRow
  <2>3. /\ IsFiniteSet(C) /\ \A x \in C : rows[x].count \in Nat
        /\ Attendees(rows, e, {}) \in Nat
    BY ConfirmedAreRows
  <2>4. Attendees(rows, e, {}) = SumOver(rows, C) /\ Attendees(rows', e, {}) = SumOver(rows', D)
    BY AttendeesAreSum
  <2>5. PICK t, u : t = rows /\ u = rows' OBVIOUS
  <2> HIDE DEF C, D
  <2>6. IsFiniteSet(D) /\ \A x \in D : u[x].count \in Nat /\ u[x].count = t[x].count
    BY <2>1, <2>2, <2>3, <2>5, FS_Subset
  <2>7. SumOver(u, D) = SumOver(t, D) BY <2>6, SumSame
  <2>8. SumOver(u, D) \in Nat BY <2>6, SumWithout
  <2>9. SumOver(t, D) <= SumOver(t, C) BY <2>1, <2>3, <2>5, SumOfPart
  <2> QED BY <2>3, <2>4, <2>5, <2>7, <2>8, <2>9
<1> QED BY <1>2, <1>6

-----------------------------------------------------------------------------
(* The registrations stay finitely many                                      *)

\* At most one registration is there that was not.
LEMMA OneMoreRow ==
  ASSUME RowsFinite, NEW i,
         \A j \in Registrations : j # i /\ ~IsRow(j) => ~IsRow(j)'
  PROVE  RowsFinite'
<1> DEFINE A == {j \in Registrations : IsRow(j)}
           B == {j \in Registrations : rows'[j] \notin {None, Gone}}
<1>1. B \subseteq A \cup {i} BY DEF IsRow
<1>2. IsFiniteSet(A \cup {i}) BY FS_AddElement DEF RowsFinite
<1>3. IsFiniteSet(B) BY <1>1, <1>2, FS_Subset
<1> QED BY <1>3 DEF RowsFinite, IsRow

\* A handler that begins writes no table.
LEMMA BeginLeavesTables ==
  ASSUME NEW q \in Requests, Reading(q)
  PROVE  UNCHANGED tables
BY DEF Reading, BeginRegister, BeginMove, BeginCreateOrLink, BeginLinkGuest,
       BeginGuestFromConversation, BeginCreateGuest, BeginUpdateGuest, BeginMerge, Begin

LEMMA WritingCommits ==
  ASSUME NEW q \in Requests, Writing(q), ~Rollback(q)
  PROVE  Commit(q)
BY DEF Writing, CommitRegister, CommitMove, CommitCreateOrLink, CommitLinkGuest,
       CommitCreateGuest, CommitUpdateGuest, CommitMerge

LEMMA RowsStayFinite ==
  ASSUME TypeOK, RowsFinite, [Next]_vars
  PROVE  RowsFinite'
<1>1. ASSUME UNCHANGED rows PROVE RowsFinite' BY <1>1 DEF RowsFinite, IsRow
<1>2. ASSUME NEW e \in Events, deleteEvent(e) PROVE RowsFinite'
  <2>1. \A j \in Registrations : ~IsRow(j) => ~IsRow(j)' BY <1>2 DEF deleteEvent, IsRow
  <2> QED BY <2>1, OneMoreRow
<1>3. ASSUME NEW i, \A j \in Registrations : j # i => rows'[j] = rows[j] PROVE RowsFinite'
  <2>1. \A j \in Registrations : j # i /\ ~IsRow(j) => ~IsRow(j)' BY <1>3 DEF IsRow
  <2> QED BY <2>1, OneMoreRow
<1>4. ASSUME NEW i \in Registrations, CancelRegistration(i) PROVE RowsFinite'
  BY <1>3, <1>4 DEF CancelRegistration, TypeOK
<1>5. ASSUME NEW q \in Requests, CommitRegister(q) PROVE RowsFinite'
  <2>1. \E i : \A j \in Registrations : j # i => rows'[j] = rows[j]
    <3>1. CASE reqs[q].row = None BY <1>5, <3>1 DEF CommitRegister, TypeOK
    <3>2. CASE reqs[q].row # None BY <1>5, <3>2 DEF CommitRegister, TypeOK
    <3> QED BY <3>1, <3>2
  <2> QED BY <1>3, <2>1
<1>6. ASSUME NEW q \in Requests, CommitMove(q) PROVE RowsFinite'
  <2>1. \A j \in Registrations : j # reqs[q].row => rows'[j] = rows[j]
    BY <1>6 DEF CommitMove, TypeOK
  <2> QED BY <1>3, <2>1
<1>7. ASSUME NEW q \in Requests, CommitCreateOrLink(q) PROVE RowsFinite'
  <2> DEFINE r == reqs[q]
             b == r.body
             moves == r.row = None \/ r.byId
             row(i) == [event |-> IF moves THEN b.to.event ELSE rows[i].event,
                        guest |-> IF moves THEN r.guest ELSE rows[i].guest,
                        status |-> r.status, count |-> b.count, bookingId |-> b.bookingId]
  <2>1. \E i : rows' = [rows EXCEPT ![i] = row(i)] BY <1>7 DEF CommitCreateOrLink
  <2> HIDE DEF row
  <2> QED BY <1>3, <2>1 DEF TypeOK
<1>8. ASSUME NEW q \in Requests, CommitMerge(q) PROVE RowsFinite'
  <2>1. \A j \in Registrations : ~IsRow(j) => ~IsRow(j)' BY <1>8 DEF CommitMerge, IsRow
  <2> QED BY <2>1, OneMoreRow
<1>9. ASSUME EventSteps PROVE RowsFinite'
  BY <1>1, <1>2, <1>4, <1>9 DEF EventSteps, createEvent, updateEvent
<1>10. ASSUME GuestSteps PROVE RowsFinite' BY <1>1, <1>10 DEF GuestSteps, deleteGuest
<1>11. ASSUME NEW q \in Requests, Reading(q) PROVE RowsFinite'
  BY <1>1, <1>11, BeginLeavesTables DEF tables
<1>12. ASSUME NEW q \in Requests, Writing(q) PROVE RowsFinite'
  BY <1>1, <1>5, <1>6, <1>7, <1>8, <1>12
  DEF Writing, CommitLinkGuest, CommitCreateGuest, CommitUpdateGuest, Rollback, tables
<1> QED BY <1>1, <1>9, <1>10, <1>11, <1>12 DEF Next, vars

-----------------------------------------------------------------------------
(* What a fresh request counted still holds                                  *)

LEMMA FreshSeatsStay ==
  ASSUME GuestsInv, FreshSeatsHold, [Next]_vars
  PROVE  FreshSeatsHold'
<1> USE DEF GuestsInv, Inv, Types
<1>1. ASSUME EventSteps \/ GuestSteps PROVE FreshSeatsHold'
  <2>1. AtOnce
    BY <1>1 DEF EventSteps, GuestSteps, createEvent, updateEvent, deleteEvent,
       CancelRegistration, deleteGuest
  <2> QED BY <2>1, AtOnceEnds
<1>2. ASSUME NEW q \in Requests, Reading(q) PROVE FreshSeatsHold'
  <2>1. PICK r : Begin(q, r) /\ SeatsSo(r) BY <1>2, ReadingCounts
  <2>2. /\ UNCHANGED <<events, rows>>
        /\ \A p \in Requests : reqs'[p] = IF p = q THEN r ELSE reqs[p]
    BY <2>1 DEF Begin, tables
  <2>3. \A p \in Requests : reqs'[p] # Idle /\ reqs'[p].fresh => SeatsSo(reqs'[p])
    BY <2>1, <2>2 DEF FreshSeatsHold
  <2>4. ASSUME NEW p \in Requests, reqs'[p] # Idle, reqs'[p].fresh PROVE SeatsSo(reqs[p])'
    <3>1. PICK s : s = reqs'[p] OBVIOUS
    <3>2. SeatsSo(s) BY <2>3, <2>4, <3>1
    <3>3. SeatsSo(s)' BY <2>2, <3>2, CountStays
    <3> QED BY <3>1, <3>3
  <2> QED BY <2>4 DEF FreshSeatsHold
<1>3. ASSUME NEW q \in Requests, Rollback(q) PROVE FreshSeatsHold'
  <2>1. /\ UNCHANGED <<events, rows>>
        /\ \A p \in Requests : reqs'[p] = IF p = q THEN Idle ELSE reqs[p]
    BY <1>3 DEF Rollback, tables
  <2>2. ASSUME NEW p \in Requests, reqs'[p] # Idle, reqs'[p].fresh PROVE SeatsSo(reqs[p])'
    <3>1. PICK s : s = reqs'[p] OBVIOUS
    <3>2. SeatsSo(s) BY <2>1, <2>2, <3>1 DEF FreshSeatsHold
    <3>3. SeatsSo(s)' BY <2>1, <3>2, CountStays
    <3> QED BY <3>1, <3>3
  <2> QED BY <2>2 DEF FreshSeatsHold
<1>4. ASSUME NEW q \in Requests, Writing(q), ~Rollback(q) PROVE FreshSeatsHold'
  <2>1. Commit(q) BY <1>4, WritingCommits
  <2> QED BY <2>1, CommitEnds
<1>5. ASSUME UNCHANGED vars PROVE FreshSeatsHold'
  <2>1. UNCHANGED <<events, rows, reqs>> BY <1>5 DEF vars
  <2>2. ASSUME NEW p \in Requests, reqs'[p] # Idle, reqs'[p].fresh PROVE SeatsSo(reqs[p])'
    <3>1. PICK s : s = reqs'[p] OBVIOUS
    <3>2. SeatsSo(s) BY <2>1, <2>2, <3>1 DEF FreshSeatsHold
    <3>3. SeatsSo(s)' BY <2>1, <3>2, CountStays
    <3> QED BY <3>1, <3>3
  <2> QED BY <2>2 DEF FreshSeatsHold
<1> QED BY <1>1, <1>2, <1>3, <1>4, <1>5 DEF Next

-----------------------------------------------------------------------------
(* The commit of a fresh request                                             *)

\* A request that ends fresh is one that writes, or is rolled back.
LEMMA FreshCommitWrites ==
  ASSUME GuestsInv, [Next]_vars, FreshCommit
  PROVE  \E q \in Requests : Writing(q) /\ reqs[q] # Idle /\ reqs[q].fresh
<1> USE DEF GuestsInv, Inv, Types
<1>1. PICK p \in Requests : reqs[p] # Idle /\ reqs'[p] = Idle /\ reqs[p].fresh
  BY DEF FreshCommit
<1>2. ASSUME EventSteps \/ GuestSteps PROVE FALSE
  <2>1. AtOnce
    BY <1>2 DEF EventSteps, GuestSteps, createEvent, updateEvent, deleteEvent,
       CancelRegistration, deleteGuest
  <2> QED BY <1>1, <2>1, AtOnceEnds
<1>3. ASSUME NEW q \in Requests, Reading(q) PROVE FALSE
  <2>1. PICK r : Begin(q, r) BY <1>3, ReadingCounts
  <2>2. reqs[q] = Idle /\ \A s \in Requests : s # q => reqs'[s] = reqs[s]
    BY <2>1 DEF Begin
  <2> QED BY <1>1, <2>2
<1>4. ASSUME NEW q \in Requests, Writing(q) PROVE p = q
  <2>1. CASE Rollback(q) BY <1>1, <2>1 DEF Rollback
  <2>2. CASE ~Rollback(q)
    <3>1. Commit(q) BY <1>4, <2>2, WritingCommits
    <3> QED BY <1>1, <3>1, CommitEnds
  <2> QED BY <2>1, <2>2
<1>5. ASSUME UNCHANGED vars PROVE FALSE BY <1>1, <1>5 DEF vars
<1> QED BY <1>1, <1>2, <1>3, <1>4, <1>5 DEF Next

\* Where no registration is written, no seat is taken.
LEMMA SeatsUntouched ==
  ASSUME TypeOK, RowsFinite, UNCHANGED rows
  PROVE  SeatsKept /\ WaitingKept
<1>1. SeatsKept
  <2> SUFFICES ASSUME NEW e \in Events
               PROVE  ~(Attendees(rows', e, {}) > Attendees(rows, e, {}))
    BY DEF SeatsKept
  <2>1. Attendees(rows, e, {}) \in Nat BY ConfirmedAreRows
  <2>2. Attendees(rows', e, {}) = Attendees(rows, e, {}) OBVIOUS
  <2> QED BY <2>1, <2>2
<1> QED BY <1>1 DEF WaitingKept

LEMMA FreshStepKeeps ==
  ASSUME IInv, [Next]_vars, FreshCommit
  PROVE  SeatsKept /\ (~Merging => WaitingKept)
<1> USE DEF IInv
<1>1. TypeOK BY DEF GuestsInv, Inv
<1>2. PICK q \in Requests : Writing(q) /\ reqs[q] # Idle /\ reqs[q].fresh
  BY FreshCommitWrites
<1>3. SeatsSo(reqs[q]) BY <1>2 DEF FreshSeatsHold
<1>4. StillSo(reqs[q]) BY <1>2 DEF GuestsInv, FreshReadsHold
<1>5. ASSUME UNCHANGED rows PROVE SeatsKept /\ WaitingKept BY <1>1, <1>5, SeatsUntouched
<1>6. CASE CommitRegister(q) BY <1>3, <1>6, RegisterSeats
<1>7. CASE CommitMove(q) BY <1>3, <1>7, MoveSeats
<1>8. CASE CommitCreateOrLink(q) BY <1>3, <1>8, CreateOrLinkSeats
<1>9. CASE CommitMerge(q) BY <1>4, <1>9, MergeSeats
<1>10. CASE CommitLinkGuest(q) \/ CommitCreateGuest(q) \/ CommitUpdateGuest(q) \/ Rollback(q)
  BY <1>5, <1>10 DEF CommitLinkGuest, CommitCreateGuest, CommitUpdateGuest, Rollback, tables
<1> QED BY <1>2, <1>6, <1>7, <1>8, <1>9, <1>10 DEF Writing

-----------------------------------------------------------------------------
(* The theorems                                                              *)

LEMMA InitHolds ==
  ASSUME Init
  PROVE  GuestsInv
<1>1. /\ \A g \in Guests : /\ guests[g] \in Guest /\ guests[g].mergedInto = None
      /\ guests \in [Guests -> Guest]
  BY NewGuestTyped DEF Init, NewGuest, Guest
<1>2. TypeOK BY <1>1, ParameterAssumption DEF Init, TypeOK
<1>3. reqs \in [Requests -> RequestType] /\ FreshReadsHold
  BY DEF Init, RequestType, FreshReadsHold
<1>4. GuestInParty /\ MergedAreDeleted /\ MergedGuestOwnsNothing
  BY <1>1 DEF Init, GuestInParty, MergedAreDeleted, MergedGuestOwnsNothing
<1>5. MergesHaveAnEnd
  <2> SUFFICES ASSUME NEW circle \in SUBSET Guests, circle # {}
               PROVE  \E g \in circle : guests[g].mergedInto \notin circle
    BY DEF MergesHaveAnEnd
  <2> PICK g \in circle : g \in Guests OBVIOUS
  <2> QED BY <1>1, ParameterAssumption
<1>6. EmailsDiffer BY DEF Init, EmailsDiffer
<1> QED BY <1>2, <1>3, <1>4, <1>5, <1>6 DEF GuestsInv, Inv

LEMMA StepKeeps ==
  ASSUME GuestsInv, [Next]_vars
  PROVE  GuestsInv'
<1>1. ASSUME NEW q \in Requests, Writing(q) PROVE GuestsInv'
  BY <1>1, CommitRegisterKeeps, CommitMoveKeeps, CommitCreateOrLinkKeeps,
     CommitLinkGuestKeeps, CommitCreateGuestKeeps, CommitUpdateGuestKeeps,
     CommitMergeKeeps, RollbackKeeps DEF Writing
<1>2. CASE UNCHANGED vars
  <2> USE <1>2 DEF vars, GuestsInv, Inv
  <2>1. TypeOK' /\ reqs' \in [Requests -> RequestType] BY DEF TypeOK
  <2>2. FreshReadsHold'
    BY DEF FreshReadsHold, StillSo, FoundOrNew, SameEmail, Spelled, Active
  <2>3. GuestInParty' /\ MergesHaveAnEnd' /\ MergedAreDeleted'
    BY DEF GuestInParty, MergesHaveAnEnd, MergedAreDeleted
  <2>4. EmailsDiffer' BY DEF EmailsDiffer, Active
  <2>5. MergedGuestOwnsNothing' BY DEF MergedGuestOwnsNothing, IsRow
  <2> QED BY <2>1, <2>2, <2>3, <2>4, <2>5
<1> QED BY <1>1, <1>2, EventStepsKeep, GuestStepsKeep, ReadingKeeps DEF Next

LEMMA InitSeats ==
  ASSUME Init
  PROVE  FreshSeatsHold /\ RowsFinite
<1>1. FreshSeatsHold BY DEF Init, FreshSeatsHold
<1>2. {i \in Registrations : IsRow(i)} = {} BY DEF Init, IsRow
<1> QED BY <1>1, <1>2, FS_EmptySet DEF RowsFinite

\* For any number of guests, events, registrations, conversations and requests
\* in flight: the tables keep their types, the guest of a booking is of its
\* party, and, so long as no request acts on data read before another's commit,
\* merges never close a circle and active guests differ in their e-mail; and
\* what a fresh request read of guests and of seats is still so when it commits
\* (guest.service.ts, event.service.ts, conversation-event.service.ts).
THEOREM RegistrationInvariant == Spec => []IInv
<1>1. Init => IInv BY InitHolds, InitSeats DEF IInv
<1>2. IInv /\ [Next]_vars => IInv'
  <2> SUFFICES ASSUME IInv, [Next]_vars PROVE IInv' OBVIOUS
  <2>1. GuestsInv' BY StepKeeps DEF IInv
  <2>2. FreshSeatsHold' BY FreshSeatsStay DEF IInv
  <2>3. RowsFinite' BY RowsStayFinite DEF IInv, GuestsInv, Inv
  <2> QED BY <2>1, <2>2, <2>3 DEF IInv
<1> QED BY <1>1, <1>2, PTL DEF Spec

\* A request nobody committed under takes seats only within the capacity of the
\* event, however many registrations there are and whatever their attendees
\* (registerGuest, and create_or_link and move of applyConversationEventAction).
THEOREM SeatsNotOversold == Spec => SeatsWithinCapacity
<1> DEFINE Step == FreshCommit =>
              \A e \in Events :
                Attendees(rows', e, {}) > Attendees(rows, e, {}) =>
                  Attendees(rows', e, {}) <= events'[e]
<1>1. IInv /\ [Next]_vars => [Step]_vars
  <2> SUFFICES ASSUME IInv, [Next]_vars, FreshCommit PROVE Step OBVIOUS
  <2> QED BY FreshStepKeeps DEF SeatsKept
<1>2. Spec => [][Step]_vars BY <1>1, RegistrationInvariant, PTL DEF Spec
<1> QED BY <1>2 DEF SeatsWithinCapacity

\* It puts a guest on the waiting list only if the seats asked for are not free,
\* those the same registration held included: the row it changes is not counted.
THEOREM WaitlistIsFair == Spec => WaitlistedOnlyWhenFull
<1> DEFINE Step == FreshCommit /\ ~Merging =>
       \A i \in Registrations :
         /\ rows'[i] # rows[i] /\ rows'[i] \notin {None, Gone}
         /\ rows'[i].status = "waitlisted"
         => Attendees(rows', rows'[i].event, {}) + rows'[i].count > events'[rows'[i].event]
<1>1. IInv /\ [Next]_vars => [Step]_vars
  <2> SUFFICES ASSUME IInv, [Next]_vars, FreshCommit, ~Merging PROVE Step OBVIOUS
  <2> QED BY FreshStepKeeps DEF WaitingKept
<1>2. Spec => [][Step]_vars BY <1>1, RegistrationInvariant, PTL DEF Spec
<1> QED BY <1>2 DEF WaitlistedOnlyWhenFull

\* Nothing belongs to a guest merged away, and no handler gives it anything
\* later, so long as none acts on data read before the merge (mergeGuests).
THEOREM NothingLeftBehind == Spec => []MergedGuestOwnsNothing
<1>1. IInv => MergedGuestOwnsNothing BY DEF IInv, GuestsInv
<1> QED BY <1>1, RegistrationInvariant, PTL

\* Merging again what was merged never closes a circle, in however long a chain
\* of merges, so long as no merge acts on old data (mergeGuests).
THEOREM MergesEnd == Spec => []MergesHaveAnEnd
<1>1. IInv => MergesHaveAnEnd BY DEF IInv, GuestsInv, Inv
<1> QED BY <1>1, RegistrationInvariant, PTL

\* The guest of a booking is of its party, whatever merges do, in any order and
\* on old data too (mergeGuests, its updates of bookings and booking_guests).
THEOREM GuestStaysInParty == Spec => []GuestInParty
<1>1. IInv => GuestInParty BY DEF IInv, GuestsInv, Inv
<1> QED BY <1>1, RegistrationInvariant, PTL
=============================================================================
