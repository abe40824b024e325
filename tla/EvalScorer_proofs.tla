--------------------------- MODULE EvalScorer_proofs ---------------------------
(***************************************************************************)
(* Theorems about EvalScorer, for any finite set of messages and any       *)
(* replicas, tenants, caps and faults.                                     *)
(***************************************************************************)
EXTENDS EvalScorer, FiniteSetTheorems, TLAPS

TypeInv ==
    /\ delivered \in [Msgs -> 0..(MaxDeliveries + 1)]
    /\ settled \in SUBSET Msgs
    /\ row \in [Traces -> SUBSET Parts]
    /\ status \in [Traces -> Statuses]
    /\ scored \in SUBSET Traces
    /\ spend \in [Tenants -> Nat]
    /\ reading \in SUBSET (Traces \X Statuses)
    /\ pc \in [Replicas -> Places]
    /\ buffer \in [Replicas -> SUBSET Entries]
    /\ held \in [Replicas -> SUBSET Msgs]
    /\ batch \in [Replicas -> SUBSET Entries]
    /\ slice \in [Replicas -> SUBSET Entries]
    /\ samples \in [Replicas -> SUBSET Entries]
    /\ waiting \in [Replicas -> SUBSET Entries]
    /\ hopeless \in [Replicas -> SUBSET Traces]
    /\ acked \in [Replicas -> SUBSET Msgs]
    /\ billed \in [Traces -> Nat]
    /\ late \in [Replicas -> [Tenants -> Nat]]

\* Between flushes there is no batch and nothing to ack, between tenants no
\* slice; what is graded and what waits are different parts of the slice.
PlaceOf(r) ==
    /\ pc[r] = "idle" => batch[r] = {} /\ acked[r] = {}
    /\ pc[r] \in {"idle", "tenant"} => slice[r] = {}
    /\ samples[r] \subseteq slice[r]
    /\ waiting[r] \subseteq slice[r] \ samples[r]

\* An entry is in one place, a message in hand once, and a message that may be
\* acked is no longer in hand.
HeldOf(r) ==
    /\ buffer[r] \cap batch[r] = {}
    /\ buffer[r] \cap slice[r] = {}
    /\ batch[r] \cap slice[r] = {}
    /\ \A e, f \in InHand(r) : Msg(e) = Msg(f) => e = f
    /\ acked[r] \cap MsgsOf(InHand(r)) = {}
    /\ held[r] = MsgsOf(InHand(r)) \cup acked[r]

HandOf(r) == PlaceOf(r) /\ HeldOf(r)
HandInv == \A r \in Replicas : HandOf(r)

\* A replica that has called the judge for a tenant past its cap has no more of
\* it to grade, and will not pass the check again.
LateOf(r) ==
    \A n \in Tenants :
        /\ late[r][n] <= 1
        /\ late[r][n] = 1 => /\ spend[n] >= Cap
                             /\ pc[r] # "persist" => Of(samples[r], n) = {}

LateInv == \A r \in Replicas : LateOf(r)

\* The trace has a verdict, its tenant an alert, or there is nothing to grade.
Final(t) ==
    \/ t \in scored \cup missed
    \/ \E m \in Msgs : TraceOf[m] = t /\ TenantOf[m] \in alerted
    \/ t \notin Gradable

\* A row that has a status before its trace has ended got it from a replica that
\* had an answer; so did what storage has read of such a row.  Where the question
\* comes with the end, both are stored at once.
StatusInv ==
    /\ \A t \in AskedAtEnd : "answer" \in row[t] => "question" \in row[t]
    /\ \A t \in Traces : "answer" \notin row[t] =>
        /\ row[t] = {} => status[t] = "not_sampled"
        /\ status[t] # "not_sampled" => Final(t)
        /\ \A read \in Statuses \ {"not_sampled"} : <<t, read>> \in reading => Final(t)
        /\ \A r \in Replicas : t \in hopeless[r] => Final(t)

\* What may be acked is final, and of the slice what is neither graded nor waits.
AckOf(r) ==
    /\ \A m \in acked[r] : Final(TraceOf[m])
    /\ \A e \in slice[r] \ (samples[r] \cup waiting[r]) : Final(Trace(e))

AckInv == \A r \in Replicas : AckOf(r)

SettledInv == \A m \in settled \ givenUp : Final(TraceOf[m])

\* What the judge has not been asked about.
Unbilled(r) ==
    buffer[r] \cup batch[r] \cup IF pc[r] = "persist" THEN slice[r] \ samples[r] ELSE slice[r]

\* A delivery is in the hands of one replica.
ApartInv ==
    /\ \A r \in Replicas : \A e \in InHand(r) : e[2] <= delivered[Msg(e)]
    /\ \A r, q \in Replicas : r # q => InHand(r) \cap InHand(q) = {}

Deliveries(t) == {e \in About(Entries, t) : e[2] <= delivered[Msg(e)]}
Pending(t)    == {e \in About(Entries, t) : \E r \in Replicas : e \in Unbilled(r)}

\* Each delivery is paid for at most once.
BillInv ==
    \A t \in Traces : billed[t] + Cardinality(Pending(t)) <= Cardinality(Deliveries(t))

\* What is stored of a tenant is in its total.
ScoredOf(n) == {t \in scored : \E m \in Msgs : TraceOf[m] = t /\ TenantOf[m] = n}
SpendInv == \A n \in Tenants : spend[n] >= Cardinality(ScoredOf(n))

-------------------------------------------------------------------------------
(* Entries, types and replicas                                             *)

\* What an entry names is a message, its trace and its tenant.
LEMMA EntryParts ==
    ASSUME NEW e \in Entries
    PROVE  Msg(e) \in Msgs /\ Trace(e) \in Traces /\ Tenant(e) \in Tenants
           /\ Trace(e) = TraceOf[Msg(e)] /\ Tenant(e) = TenantOf[Msg(e)]
BY DEF Entries, Msg, Trace, Tenant, Traces, Tenants

\* The messages, the traces and a tenant's part of a set of entries.
LEMMA SetParts ==
    ASSUME NEW E \in SUBSET Entries
    PROVE  /\ MsgsOf(E) \in SUBSET Msgs /\ TracesOf(E) \in SUBSET Traces
           /\ \A n : Of(E, n) \in SUBSET E
BY EntryParts DEF MsgsOf, TracesOf, Of

\* The bounds are numbers.
LEMMA Bounds == Cap \in Nat /\ MaxDeliveries \in Nat
<1>1. Cap \in Nat /\ MaxDeliveries \in Nat \ {0}
    BY EvalAssumption, Zenon
<1> QED
    BY <1>1

\* Sets of entries, messages and traces are finite.
LEMMA FiniteEntries ==
    IsFiniteSet(Entries) /\ IsFiniteSet(Traces)
<1>1. IsFiniteSet(1..(MaxDeliveries + 1))
    <2>1. MaxDeliveries + 1 \in Int
        BY Bounds
    <2> QED
        BY <2>1, FS_Interval
<1>2. IsFiniteSet(Entries)
    BY <1>1, EvalAssumption, FS_Product DEF Entries
<1>3. DEFINE f == [m \in Msgs |-> TraceOf[m]]
<1>4. f \in Surjection(Msgs, Traces)
    BY DEF Surjection, Traces
<1> HIDE DEF f
<1>5. IsFiniteSet(Traces)
    BY <1>4, EvalAssumption, FS_Surjection
<1> QED
    BY <1>2, <1>5

\* A new entry is one delivery more of a message.
LEMMA NewParts ==
    ASSUME TypeInv, NEW r \in Replicas, NEW ms \in SUBSET Msgs,
           \A m \in ms : delivered[m] <= MaxDeliveries
    PROVE  /\ NewEntries(r, ms) \in SUBSET Entries
           /\ MsgsOf(NewEntries(r, ms)) = ms \ held[r]
           /\ \A e \in NewEntries(r, ms) : e[2] = delivered[Msg(e)] + 1
           /\ \A e, f \in NewEntries(r, ms) : Msg(e) = Msg(f) => e = f
<1>1. \A m \in ms : delivered[m] + 1 \in 1..(MaxDeliveries + 1)
    BY Bounds DEF TypeInv
<1>2. NewEntries(r, ms) \in SUBSET Entries
    BY <1>1 DEF NewEntries, Entries
<1>3. \A e \in NewEntries(r, ms) : Msg(e) \in ms \ held[r] /\ e = <<Msg(e), delivered[Msg(e)] + 1>>
    BY DEF NewEntries, Msg
<1>4. \A m \in ms \ held[r] :
        <<m, delivered[m] + 1>> \in NewEntries(r, ms) /\ Msg(<<m, delivered[m] + 1>>) = m
    BY DEF NewEntries, Msg
<1>5. MsgsOf(NewEntries(r, ms)) = ms \ held[r]
    BY <1>3, <1>4 DEF MsgsOf
<1>6. \A e \in NewEntries(r, ms) : e[2] = delivered[Msg(e)] + 1
    BY <1>3
<1>7. \A e, f \in NewEntries(r, ms) : Msg(e) = Msg(f) => e = f
    BY <1>3
<1> QED
    BY <1>2, <1>5, <1>6, <1>7

LEMMA InitType == Init => TypeInv
BY EvalAssumption DEF Init, TypeInv, Statuses, Places

LEMMA StatusType ==
    ASSUME TypeInv, NEW T, NEW value \in Statuses
    PROVE  SetStatus(T, value) \in [Traces -> Statuses]
BY DEF TypeInv, SetStatus

LEMMA RestType ==
    ASSUME TypeInv, NEW r \in Replicas, Clear(r)
    PROVE  /\ slice' \in [Replicas -> SUBSET Entries]
           /\ samples' \in [Replicas -> SUBSET Entries]
           /\ waiting' \in [Replicas -> SUBSET Entries]
           /\ hopeless' \in [Replicas -> SUBSET Traces]
           /\ pc' \in [Replicas -> Places]
BY DEF TypeInv, Clear, Goto, Places

LEMMA EndTenantType ==
    ASSUME TypeInv, NEW r \in Replicas, EndTenant(r)
    PROVE  /\ buffer' \in [Replicas -> SUBSET Entries]
           /\ acked' \in [Replicas -> SUBSET Msgs]
<1>1. FinalIds(r) \in SUBSET Msgs
    BY SetParts DEF TypeInv, FinalIds
<1> QED
    BY <1>1 DEF TypeInv, EndTenant

LEMMA DropType ==
    ASSUME TypeInv, NEW r \in Replicas, NEW S, Drop(r, S)
    PROVE  held' \in [Replicas -> SUBSET Msgs]
BY DEF TypeInv, Drop, Released

\* The size of a set of entries.
LEMMA SizeType ==
    ASSUME NEW E \in SUBSET Entries
    PROVE  IsFiniteSet(E) /\ Cardinality(E) \in Nat
BY FiniteEntries, FS_Subset, FS_CardinalityType

LEMMA BillType ==
    ASSUME TypeInv, NEW r \in Replicas, Bill(r)
    PROVE  billed' \in [Traces -> Nat] /\ late' \in [Replicas -> [Tenants -> Nat]]
<1>1. ASSUME NEW t PROVE Cardinality(About(samples[r], t)) \in Nat
    <2>1. About(samples[r], t) \in SUBSET Entries
        BY DEF TypeInv, About
    <2> QED
        BY <2>1, SizeType
<1>2. billed' \in [Traces -> Nat]
    BY <1>1 DEF TypeInv, Bill
<1>3. late' \in [Replicas -> [Tenants -> Nat]]
    BY DEF TypeInv, Bill
<1> QED
    BY <1>2, <1>3

LEMMA SpendType ==
    ASSUME TypeInv, NEW r \in Replicas, RecordSpend(r)
    PROVE  /\ spend' \in [Tenants -> Nat]
           /\ \A n \in Tenants : spend'[n] = spend[n] + Cardinality(Of(samples[r], n))
<1>1. ASSUME NEW n PROVE Cardinality(Of(samples[r], n)) \in Nat
    <2>1. Of(samples[r], n) \in SUBSET Entries
        BY DEF TypeInv, Of
    <2> QED
        BY <2>1, SizeType
<1> QED
    BY <1>1 DEF TypeInv, RecordSpend

LEMMA TypeStep == TypeInv /\ [Next]_vars => TypeInv'
<1> SUFFICES ASSUME TypeInv, [Next]_vars PROVE TypeInv'
    OBVIOUS
<1> USE DEF groupVars, dbVars, flushVars, history
<1>1. ASSUME NEW t \in Traces, StorageReads(t) PROVE TypeInv'
    BY <1>1 DEF StorageReads, TypeInv
<1>2. ASSUME NEW t \in Traces, NEW read \in Statuses, StorageWrites(t, read) PROVE TypeInv'
    <2>1. PICK brings \in SUBSET {"question", "answer"} :
            /\ row' = [row EXCEPT ![t] = @ \cup {"row"} \cup brings]
            /\ status' = [status EXCEPT ![t] =
                 IF "answer" \in brings /\ read \in {"not_sampled", "pending"}
                 THEN "pending" ELSE read]
        BY <1>2 DEF StorageWrites
    <2>2. row' \in [Traces -> SUBSET Parts]
        BY <2>1 DEF TypeInv, Parts
    <2>3. status' \in [Traces -> Statuses]
        BY <2>1 DEF TypeInv, Statuses
    <2> QED
        BY <1>2, <2>2, <2>3 DEF StorageWrites, TypeInv
<1>3. ASSUME NEW m \in Msgs, GiveUp(m) PROVE TypeInv'
    BY <1>3 DEF GiveUp, TypeInv
<1>4. ASSUME NEW r \in Replicas, Process(r) PROVE TypeInv'
    <2>1. PICK ms \in (SUBSET (Msgs \ settled)) \ {{}} :
            LET full == buffer[r] \cup NewEntries(r, ms)
                due  == Cardinality(full) >= BatchSize
            IN  /\ \A m \in ms : delivered[m] <= MaxDeliveries
                /\ delivered' = [m \in Msgs |->
                     IF m \in ms THEN delivered[m] + 1 ELSE delivered[m]]
                /\ held' = [held EXCEPT ![r] = @ \cup ms]
                /\ buffer' = [buffer EXCEPT ![r] = IF due THEN {} ELSE full]
                /\ batch' = [batch EXCEPT ![r] = IF due THEN full ELSE {}]
                /\ Goto(r, IF due THEN "tenant" ELSE "idle")
        BY <1>4 DEF Process
    <2>2. buffer[r] \cup NewEntries(r, ms) \in SUBSET Entries
        BY <2>1, NewParts DEF TypeInv
    <2>3. delivered' \in [Msgs -> 0..(MaxDeliveries + 1)]
        BY <2>1, Bounds DEF TypeInv
    <2>4. /\ held' \in [Replicas -> SUBSET Msgs]
          /\ buffer' \in [Replicas -> SUBSET Entries]
          /\ batch' \in [Replicas -> SUBSET Entries]
          /\ pc' \in [Replicas -> Places]
        BY <2>1, <2>2 DEF TypeInv, Goto, Places
    <2> QED
        BY <1>4, <2>3, <2>4 DEF Process, TypeInv
<1>5. ASSUME NEW r \in Replicas, StartFlush(r) PROVE TypeInv'
    BY <1>5 DEF StartFlush, TypeInv, Goto, Places
<1>6. ASSUME NEW r \in Replicas, NEW n \in Tenants, SkipTenant(r, n) PROVE TypeInv'
    <2>1. /\ Of(batch[r], n) \in SUBSET Entries
          /\ MsgsOf(Of(batch[r], n)) \in SUBSET Msgs
        BY SetParts DEF TypeInv, Of
    <2>2. status' \in [Traces -> Statuses]
        BY <1>6, StatusType DEF SkipTenant, Statuses
    <2>3. batch' \in [Replicas -> SUBSET Entries] /\ acked' \in [Replicas -> SUBSET Msgs]
        BY <1>6, <2>1 DEF SkipTenant, TypeInv
    <2> QED
        BY <1>6, <2>2, <2>3 DEF SkipTenant, TypeInv
<1>7. ASSUME NEW r \in Replicas, NEW n \in Tenants, AllowTenant(r, n) PROVE TypeInv'
    <2>1. \A E \in SUBSET Of(batch[r], n) : E \in SUBSET Entries /\ TracesOf(E) \in SUBSET Traces
        BY SetParts DEF TypeInv, Of
    <2>2. /\ batch' \in [Replicas -> SUBSET Entries]
          /\ slice' \in [Replicas -> SUBSET Entries]
          /\ samples' \in [Replicas -> SUBSET Entries]
          /\ waiting' \in [Replicas -> SUBSET Entries]
          /\ pc' \in [Replicas -> Places]
        BY <1>7, <2>1 DEF AllowTenant, TypeInv, Goto, Places
    <2>3. hopeless' \in [Replicas -> SUBSET Traces]
        <3>1. PICK T \in SUBSET Traces : hopeless' = [hopeless EXCEPT ![r] = T]
            BY <1>7, <2>1 DEF AllowTenant
        <3> QED
            BY <3>1 DEF TypeInv
    <2> QED
        BY <1>7, <2>2, <2>3 DEF AllowTenant, TypeInv
<1>8. ASSUME NEW r \in Replicas, MarkHopeless(r) PROVE TypeInv'
    <2>1. status' \in [Traces -> Statuses]
        BY <1>8, StatusType DEF MarkHopeless, Statuses
    <2> QED
        BY <1>8, <2>1 DEF MarkHopeless, TypeInv, Goto, Places
<1>9. ASSUME NEW r \in Replicas, NothingToGrade(r) PROVE TypeInv'
    BY <1>9, RestType, EndTenantType DEF NothingToGrade, TypeInv, EndTenant
<1>10. ASSUME NEW r \in Replicas, Judge(r) PROVE TypeInv'
    BY <1>10, BillType DEF Judge, TypeInv, Goto, Places
<1>11. ASSUME NEW r \in Replicas, Persist(r) PROVE TypeInv'
    <2>1. PICK failed \in SUBSET samples[r] :
            LET good == TracesOf(samples[r] \ failed)
            IN  /\ scored' = scored \cup good
                /\ status' = [t \in Traces |->
                     IF row[t] = {} THEN status[t]
                     ELSE IF t \in TracesOf(failed) THEN "error"
                     ELSE IF t \in good THEN "scored" ELSE status[t]]
        BY <1>11 DEF Persist
    <2>2. scored' \in SUBSET Traces
        BY <2>1, SetParts DEF TypeInv
    <2>3. status' \in [Traces -> Statuses]
        BY <2>1 DEF TypeInv, Statuses
    <2> QED
        BY <1>11, <2>2, <2>3, RestType, EndTenantType, SpendType DEF Persist, TypeInv, EndTenant
<1>12. ASSUME NEW r \in Replicas, NEW n \in Tenants, CheckFails(r, n) PROVE TypeInv'
    BY <1>12, RestType, DropType DEF CheckFails, Drop, TypeInv
<1>13. ASSUME NEW r \in Replicas, WriteFails(r) PROVE TypeInv'
    BY <1>13, RestType, DropType DEF WriteFails, Drop, TypeInv
<1>14. ASSUME NEW r \in Replicas, JudgeFails(r) PROVE TypeInv'
    BY <1>14, RestType, DropType, BillType DEF JudgeFails, Drop, TypeInv
<1>15. ASSUME NEW r \in Replicas, EndFlush(r), settled' \in SUBSET Msgs PROVE TypeInv'
    BY <1>15 DEF EndFlush, Goto, Places, TypeInv
<1>18. ASSUME NEW r \in Replicas, Ack(r) \/ AckFails(r) PROVE TypeInv'
    <2>1. EndFlush(r) /\ settled' \in SUBSET Msgs
        BY <1>18 DEF Ack, AckFails, TypeInv
    <2> QED
        BY <1>15, <2>1
<1>16. ASSUME NEW r \in Replicas, Restart(r) PROVE TypeInv'
    BY <1>16 DEF Restart, Places, TypeInv
<1>17. CASE UNCHANGED vars
    BY <1>17 DEF vars, TypeInv
<1> QED
    BY <1>1, <1>2, <1>3, <1>4, <1>5, <1>6, <1>7, <1>8, <1>9, <1>10, <1>11, <1>12, <1>13,
       <1>14, <1>16, <1>17, <1>18 DEF Next, Storage, Flush

-------------------------------------------------------------------------------
(* What is in hand                                                         *)

\* What the other replicas have in hand does not change.
Others(r) ==
    \A q \in Replicas \ {r} :
        /\ pc'[q] = pc[q] /\ buffer'[q] = buffer[q] /\ held'[q] = held[q]
        /\ batch'[q] = batch[q] /\ slice'[q] = slice[q] /\ samples'[q] = samples[q]
        /\ waiting'[q] = waiting[q] /\ hopeless'[q] = hopeless[q]
        /\ acked'[q] = acked[q] /\ late'[q] = late[q]

\* A replica works with what it holds only.
LEMMA Alone ==
    ASSUME TypeInv, NEW r \in Replicas, Process(r) \/ Flush(r) \/ Restart(r)
    PROVE  Others(r)
<1> USE DEF Others, groupVars, dbVars, flushVars, history, Goto
<1>1. CASE Process(r)
    BY <1>1 DEF Process, TypeInv
<1>2. CASE StartFlush(r)
    BY <1>2 DEF StartFlush, TypeInv
<1>3. ASSUME NEW n \in Tenants, SkipTenant(r, n) PROVE Others(r)
    BY <1>3 DEF SkipTenant, TypeInv
<1>4. ASSUME NEW n \in Tenants, AllowTenant(r, n) PROVE Others(r)
    BY <1>4 DEF AllowTenant, TypeInv
<1>5. CASE MarkHopeless(r)
    BY <1>5 DEF MarkHopeless, TypeInv
<1>6. CASE NothingToGrade(r)
    BY <1>6 DEF NothingToGrade, EndTenant, Clear, TypeInv
<1>7. CASE Judge(r)
    BY <1>7 DEF Judge, Bill, TypeInv
<1>8. CASE Persist(r)
    BY <1>8 DEF Persist, EndTenant, Clear, TypeInv
<1>9. ASSUME NEW n \in Tenants, CheckFails(r, n) PROVE Others(r)
    BY <1>9 DEF CheckFails, Drop, Clear, TypeInv
<1>10. CASE WriteFails(r)
    BY <1>10 DEF WriteFails, Drop, Clear, TypeInv
<1>11. CASE JudgeFails(r)
    BY <1>11 DEF JudgeFails, Drop, Clear, Bill, TypeInv
<1>12. CASE Ack(r) \/ AckFails(r)
    BY <1>12 DEF Ack, AckFails, EndFlush, TypeInv
<1>13. CASE Restart(r)
    BY <1>13 DEF Restart, TypeInv
<1> QED
    BY <1>1, <1>2, <1>3, <1>4, <1>5, <1>6, <1>7, <1>8, <1>9, <1>10, <1>11, <1>12, <1>13 DEF Flush

LEMMA OneHand ==
    ASSUME HandInv, NEW r \in Replicas, Others(r), HandOf(r)'
    PROVE  HandInv'
<1>1. ASSUME NEW q \in Replicas, q # r PROVE HandOf(q)'
    <2>1. InHand(q)' = InHand(q) /\ MsgsOf(InHand(q))' = MsgsOf(InHand(q))
        BY <1>1 DEF Others, InHand, MsgsOf
    <2>2. PlaceOf(q)'
        BY <1>1 DEF HandInv, HandOf, PlaceOf, Others
    <2>3. HeldOf(q)'
        BY <1>1, <2>1 DEF HandInv, HandOf, HeldOf, Others
    <2> QED
        BY <2>2, <2>3 DEF HandOf
<1> QED
    BY <1>1 DEF HandInv

\* The messages of a set of entries, piece by piece.
LEMMA MsgsOfParts ==
    ASSUME NEW E, NEW F
    PROVE  /\ MsgsOf(E \cup F) = MsgsOf(E) \cup MsgsOf(F)
           /\ E \subseteq F => MsgsOf(E) \subseteq MsgsOf(F)
           /\ MsgsOf({}) = {}
           /\ \A e \in E : Msg(e) \in MsgsOf(E)
           /\ \A m \in MsgsOf(E) : \E e \in E : Msg(e) = m
BY DEF MsgsOf

\* Entries of different messages have no message in common.
LEMMA MsgsApart ==
    ASSUME NEW H, NEW E \in SUBSET H, NEW F \in SUBSET H, E \cap F = {},
           \A e, f \in H : Msg(e) = Msg(f) => e = f
    PROVE  MsgsOf(E) \cap MsgsOf(F) = {}
BY DEF MsgsOf

LEMMA HandProcess ==
    ASSUME TypeInv, NEW r \in Replicas, HandOf(r), Process(r)
    PROVE  HandOf(r)'
<1>1. PICK ms \in (SUBSET (Msgs \ settled)) \ {{}} :
        LET full == buffer[r] \cup NewEntries(r, ms)
            due  == Cardinality(full) >= BatchSize
        IN  /\ \A m \in ms : delivered[m] <= MaxDeliveries
            /\ held' = [held EXCEPT ![r] = @ \cup ms]
            /\ buffer' = [buffer EXCEPT ![r] = IF due THEN {} ELSE full]
            /\ batch' = [batch EXCEPT ![r] = IF due THEN full ELSE {}]
            /\ Goto(r, IF due THEN "tenant" ELSE "idle")
    BY DEF Process
<1> DEFINE new == NewEntries(r, ms)
<1>2. /\ MsgsOf(new) = ms \ held[r]
      /\ \A e, f \in new : Msg(e) = Msg(f) => e = f
      /\ \A e \in new : Msg(e) \in ms \ held[r]
    BY <1>1, NewParts, MsgsOfParts
<1> HIDE DEF new
<1>3. /\ held'[r] = held[r] \cup ms
      /\ buffer'[r] \cup batch'[r] = buffer[r] \cup new
      /\ buffer'[r] \cap batch'[r] = {}
      /\ pc'[r] = "idle" => batch'[r] = {}
      /\ pc'[r] \in {"idle", "tenant"}
    BY <1>1 DEF TypeInv, Goto, new
<1>4. /\ slice'[r] = slice[r] /\ samples'[r] = samples[r]
      /\ waiting'[r] = waiting[r] /\ acked'[r] = acked[r]
      /\ slice[r] = {} /\ acked[r] = {} /\ batch[r] = {}
    BY DEF Process, HandOf, PlaceOf
<1>5. InHand(r) = buffer[r] /\ InHand(r)' = buffer[r] \cup new
    BY <1>3, <1>4 DEF InHand
<1>6. MsgsOf(InHand(r)') = MsgsOf(buffer[r]) \cup MsgsOf(new)
    BY <1>5, MsgsOfParts
<1>7. \A e \in buffer[r] : Msg(e) \in held[r]
    BY <1>5, MsgsOfParts DEF HandOf, HeldOf
<1>8. PlaceOf(r)'
    BY <1>3, <1>4 DEF HandOf, PlaceOf
<1>9. \A e, f \in InHand(r)' : Msg(e) = Msg(f) => e = f
    BY <1>2, <1>5, <1>7 DEF HandOf, HeldOf
<1>10. held'[r] = MsgsOf(InHand(r)') \cup acked'[r]
    BY <1>2, <1>3, <1>4, <1>5, <1>6 DEF HandOf, HeldOf
<1> QED
    BY <1>3, <1>4, <1>8, <1>9, <1>10 DEF HandOf, HeldOf, MsgsOf, InHand

\* The entries in hand go from one place to another, and none is acked.
LEMMA HandMoves ==
    ASSUME TypeInv, NEW r \in Replicas, HandOf(r), PlaceOf(r)',
           InHand(r)' = InHand(r), held'[r] = held[r], acked'[r] = acked[r],
           /\ buffer'[r] \cap batch'[r] = {}
           /\ buffer'[r] \cap slice'[r] = {}
           /\ batch'[r] \cap slice'[r] = {}
    PROVE  HandOf(r)'
BY DEF HandOf, HeldOf, MsgsOf, InHand

\* A part of what is in hand is put away, for good or to be acked.
LEMMA HandLoses ==
    ASSUME TypeInv, NEW r \in Replicas, HandOf(r), PlaceOf(r)',
           NEW S, S \in SUBSET InHand(r), InHand(r)' = InHand(r) \ S,
           \/ held'[r] = held[r] \ MsgsOf(S) /\ acked'[r] = acked[r]
           \/ held'[r] = held[r] /\ acked'[r] = acked[r] \cup MsgsOf(S),
           /\ buffer'[r] \cap batch'[r] = {}
           /\ buffer'[r] \cap slice'[r] = {}
           /\ batch'[r] \cap slice'[r] = {}
    PROVE  HandOf(r)'
<1> DEFINE rest == InHand(r) \ S
<1>1. MsgsOf(rest) \cap MsgsOf(S) = {}
    <2>1. \A e, f \in InHand(r) : Msg(e) = Msg(f) => e = f
        BY DEF HandOf, HeldOf
    <2>2. rest \in SUBSET InHand(r) /\ rest \cap S = {}
        OBVIOUS
    <2> HIDE DEF rest
    <2> QED
        BY <2>1, <2>2, MsgsApart
<1>2. MsgsOf(InHand(r)) = MsgsOf(rest) \cup MsgsOf(S)
    <2>1. InHand(r) = rest \cup S
        OBVIOUS
    <2> QED
        BY <2>1, MsgsOfParts
<1>3. MsgsOf(InHand(r))' = MsgsOf(rest)
    BY DEF MsgsOf
<1>4. \A e, f \in InHand(r)' : Msg(e) = Msg(f) => e = f
    BY DEF HandOf, HeldOf, Msg
<1> HIDE DEF rest
<1>5. (acked[r] \cup MsgsOf(S)) \cap MsgsOf(rest) = {}
    BY <1>1, <1>2 DEF HandOf, HeldOf
<1>6. /\ acked'[r] \cap MsgsOf(InHand(r))' = {}
      /\ held'[r] = MsgsOf(InHand(r))' \cup acked'[r]
    BY <1>1, <1>2, <1>3, <1>5 DEF HandOf, HeldOf
<1> QED
    BY <1>4, <1>6 DEF HandOf, HeldOf

\* The slice is finished: what waits is buffered again, the rest may be acked.
LEMMA HandEndTenant ==
    ASSUME TypeInv, NEW r \in Replicas, HandOf(r), EndTenant(r), pc[r] # "idle",
           batch' = batch, held' = held
    PROVE  HandOf(r)'
<1>1. /\ buffer'[r] = buffer[r] \cup waiting[r] /\ slice'[r] = {} /\ samples'[r] = {}
      /\ waiting'[r] = {} /\ pc'[r] = "tenant" /\ acked'[r] = acked[r] \cup FinalIds(r)
    BY DEF TypeInv, EndTenant, Clear, Goto
<1>2. InHand(r)' = InHand(r) \ (slice[r] \ waiting[r])
    BY <1>1 DEF InHand, HandOf, PlaceOf, HeldOf
<1>3. slice[r] \ waiting[r] \in SUBSET InHand(r)
    BY DEF InHand
<1>4. PlaceOf(r)'
    BY <1>1 DEF PlaceOf
<1>5. /\ buffer'[r] \cap batch'[r] = {}
      /\ buffer'[r] \cap slice'[r] = {}
      /\ batch'[r] \cap slice'[r] = {}
    BY <1>1 DEF HandOf, HeldOf, PlaceOf
<1> QED
    BY <1>1, <1>2, <1>3, <1>4, <1>5, HandLoses DEF FinalIds

\* An exception: a tenant's entries are dropped.
LEMMA HandDrop ==
    ASSUME TypeInv, NEW r \in Replicas, HandOf(r), NEW S, Drop(r, S), pc[r] # "idle",
           \/ S = slice[r] /\ batch' = batch
           \/ pc[r] = "tenant" /\ S \in SUBSET batch[r] /\ batch' = [batch EXCEPT ![r] = @ \ S]
    PROVE  HandOf(r)'
<1>1. /\ buffer'[r] = buffer[r] /\ slice'[r] = {} /\ samples'[r] = {}
      /\ waiting'[r] = {} /\ pc'[r] = "tenant" /\ acked'[r] = acked[r]
      /\ held'[r] = held[r] \ MsgsOf(S)
    BY DEF TypeInv, Drop, Clear, Goto, Released
<1>2. /\ InHand(r)' = InHand(r) \ S
      /\ S \in SUBSET InHand(r)
      /\ batch'[r] \in SUBSET batch[r]
    <2>1. CASE S = slice[r] /\ batch' = batch
        BY <1>1, <2>1 DEF InHand, HandOf, PlaceOf, HeldOf
    <2>2. CASE pc[r] = "tenant" /\ S \in SUBSET batch[r] /\ batch' = [batch EXCEPT ![r] = @ \ S]
        <3>1. batch'[r] = batch[r] \ S /\ slice[r] = {}
            BY <2>2 DEF TypeInv, HandOf, PlaceOf
        <3> QED
            BY <1>1, <2>2, <3>1 DEF InHand, HandOf, PlaceOf, HeldOf
    <2> QED
        BY <2>1, <2>2
<1>3. PlaceOf(r)'
    BY <1>1 DEF PlaceOf
<1>4. /\ buffer'[r] \cap batch'[r] = {}
      /\ buffer'[r] \cap slice'[r] = {}
      /\ batch'[r] \cap slice'[r] = {}
    BY <1>1, <1>2 DEF HandOf, HeldOf
<1> QED
    BY <1>1, <1>2, <1>3, <1>4, HandLoses

LEMMA HandFlush ==
    ASSUME TypeInv, NEW r \in Replicas, HandOf(r), Flush(r)
    PROVE  HandOf(r)'
<1> USE DEF groupVars, dbVars, flushVars, history
<1>1. CASE StartFlush(r)
    <2>1. /\ batch'[r] = buffer[r] /\ buffer'[r] = {} /\ pc'[r] = "tenant"
          /\ slice' = slice /\ samples' = samples /\ waiting' = waiting
          /\ held' = held /\ acked' = acked /\ pc[r] = "idle"
        BY <1>1 DEF StartFlush, TypeInv, Goto
    <2>2. InHand(r)' = InHand(r) /\ PlaceOf(r)' /\ slice'[r] = {}
        BY <2>1 DEF InHand, HandOf, PlaceOf
    <2> QED
        BY <2>1, <2>2, HandMoves
<1>2. ASSUME NEW n \in Tenants, SkipTenant(r, n) PROVE HandOf(r)'
    <2> DEFINE S == Of(batch[r], n)
    <2>1. S \in SUBSET batch[r]
        BY DEF Of
    <2>2. /\ batch'[r] = batch[r] \ S /\ acked'[r] = acked[r] \cup MsgsOf(S) /\ pc[r] = "tenant"
          /\ buffer' = buffer /\ slice' = slice /\ samples' = samples
          /\ waiting' = waiting /\ held' = held /\ pc' = pc
        BY <1>2 DEF SkipTenant, TypeInv
    <2> HIDE DEF S
    <2>3. /\ InHand(r)' = InHand(r) \ S /\ S \in SUBSET InHand(r) /\ PlaceOf(r)'
          /\ buffer'[r] \cap batch'[r] = {}
          /\ buffer'[r] \cap slice'[r] = {}
          /\ batch'[r] \cap slice'[r] = {}
        BY <2>1, <2>2 DEF InHand, HandOf, PlaceOf, HeldOf
    <2> QED
        BY <2>2, <2>3, HandLoses
<1>3. ASSUME NEW n \in Tenants, AllowTenant(r, n) PROVE HandOf(r)'
    <2> DEFINE S == Of(batch[r], n)
    <2>1. S \in SUBSET batch[r]
        BY DEF Of
    <2>2. /\ batch'[r] = batch[r] \ S /\ slice'[r] = S /\ pc'[r] \in {"mark", "judge"}
          /\ buffer' = buffer /\ held' = held /\ acked' = acked /\ pc[r] = "tenant"
        BY <1>3 DEF AllowTenant, TypeInv, Goto
    <2>3. samples'[r] \subseteq S /\ waiting'[r] \subseteq S \ samples'[r]
        BY <1>3 DEF AllowTenant, TypeInv, Early
    <2> HIDE DEF S
    <2>4. /\ InHand(r)' = InHand(r) /\ PlaceOf(r)'
          /\ buffer'[r] \cap batch'[r] = {}
          /\ buffer'[r] \cap slice'[r] = {}
          /\ batch'[r] \cap slice'[r] = {}
        BY <2>1, <2>2, <2>3 DEF InHand, HandOf, PlaceOf, HeldOf
    <2> QED
        BY <2>2, <2>4, HandMoves
<1>4. CASE MarkHopeless(r) \/ Judge(r)
    <2>1. /\ pc[r] \in {"mark", "judge"} /\ pc'[r] \in {"judge", "persist"}
          /\ batch' = batch /\ slice' = slice /\ samples' = samples /\ waiting' = waiting
          /\ buffer' = buffer /\ held' = held /\ acked' = acked
        BY <1>4 DEF MarkHopeless, Judge, TypeInv, Goto
    <2>2. InHand(r)' = InHand(r) /\ PlaceOf(r)'
        BY <2>1 DEF InHand, HandOf, PlaceOf
    <2> QED
        BY <2>1, <2>2, HandMoves DEF HandOf, HeldOf
<1>5. CASE NothingToGrade(r) \/ Persist(r)
    BY <1>5, HandEndTenant DEF NothingToGrade, Persist
<1>6. ASSUME NEW n \in Tenants, CheckFails(r, n) PROVE HandOf(r)'
    <2>1. Of(batch[r], n) \in SUBSET batch[r]
        BY DEF Of
    <2>2. batch' = [batch EXCEPT ![r] = @ \ Of(batch[r], n)]
        BY <1>6 DEF CheckFails
    <2> QED
        BY <1>6, <2>1, <2>2, HandDrop DEF CheckFails
<1>7. CASE WriteFails(r) \/ JudgeFails(r)
    BY <1>7, HandDrop DEF WriteFails, JudgeFails
<1>8. CASE Ack(r) \/ AckFails(r)
    <2>1. /\ batch[r] = {} /\ pc[r] = "tenant" /\ pc'[r] = "idle"
          /\ held'[r] = held[r] \ acked[r] /\ acked'[r] = {}
          /\ batch' = batch /\ slice' = slice /\ samples' = samples /\ waiting' = waiting
          /\ buffer' = buffer
        BY <1>8 DEF Ack, AckFails, EndFlush, TypeInv, Goto
    <2>2. InHand(r)' = InHand(r) /\ PlaceOf(r)' /\ MsgsOf(InHand(r))' = MsgsOf(InHand(r))
        BY <2>1 DEF InHand, HandOf, PlaceOf, MsgsOf
    <2> QED
        BY <2>1, <2>2 DEF HandOf, HeldOf
<1> QED
    BY <1>1, <1>2, <1>3, <1>4, <1>5, <1>6, <1>7, <1>8 DEF Flush

LEMMA HandRestart ==
    ASSUME TypeInv, NEW r \in Replicas, Restart(r)
    PROVE  HandOf(r)'
<1>1. /\ buffer'[r] = {} /\ held'[r] = {} /\ batch'[r] = {} /\ slice'[r] = {}
      /\ samples'[r] = {} /\ waiting'[r] = {} /\ acked'[r] = {} /\ pc'[r] = "idle"
    BY DEF Restart, TypeInv
<1>2. InHand(r)' = {} /\ MsgsOf(InHand(r))' = {}
    BY <1>1 DEF InHand, MsgsOf
<1> QED
    BY <1>1, <1>2 DEF HandOf, PlaceOf, HeldOf

\* Storage and the group's ceiling touch nothing a replica has.
Outside ==
    \/ Storage
    \/ \E m \in Msgs : GiveUp(m)
    \/ UNCHANGED vars

LEMMA OutsideHands ==
    ASSUME Outside
    PROVE  /\ pc' = pc /\ buffer' = buffer /\ held' = held /\ batch' = batch
           /\ slice' = slice /\ samples' = samples /\ waiting' = waiting
           /\ hopeless' = hopeless /\ acked' = acked /\ late' = late /\ billed' = billed
           /\ delivered' = delivered /\ spend' = spend /\ scored' = scored
           /\ missed' = missed /\ alerted' = alerted
BY DEF Outside, Storage, StorageReads, StorageWrites, GiveUp, vars, groupVars, dbVars,
       flushVars, history

\* Every step is of a replica or outside them.
LEMMA NextParts ==
    [Next]_vars => \/ Outside
                   \/ \E r \in Replicas : Process(r) \/ Flush(r) \/ Restart(r)
BY DEF Next, Outside

LEMMA InitHands == Init => HandInv
<1> SUFFICES ASSUME Init, NEW r \in Replicas PROVE HandOf(r)
    BY DEF HandInv
<1>1. InHand(r) = {} /\ MsgsOf(InHand(r)) = {}
    BY DEF Init, InHand, MsgsOf
<1> QED
    BY <1>1 DEF Init, HandOf, PlaceOf, HeldOf

LEMMA HandStep == TypeInv /\ HandInv /\ [Next]_vars => HandInv'
<1> SUFFICES ASSUME TypeInv, HandInv, [Next]_vars PROVE HandInv'
    OBVIOUS
<1>1. CASE Outside
    BY <1>1, OutsideHands DEF HandInv, HandOf, PlaceOf, HeldOf, InHand, MsgsOf
<1>2. ASSUME NEW r \in Replicas, Process(r) \/ Flush(r) \/ Restart(r) PROVE HandInv'
    <2>1. HandOf(r)'
        BY <1>2, HandProcess, HandFlush, HandRestart DEF HandInv
    <2> QED
        BY <1>2, <2>1, Alone, OneHand
<1> QED
    BY <1>1, <1>2, NextParts

-------------------------------------------------------------------------------
(* The judge and the cap                                                   *)

\* Scores and spend are written by _persist only.
LEMMA PersistOnly ==
    ASSUME [Next]_vars, \A r \in Replicas : ~Persist(r)
    PROVE  scored' = scored /\ spend' = spend
<1> USE DEF groupVars, dbVars, flushVars, history
<1>1. CASE Outside
    BY <1>1, OutsideHands
<1>2. ASSUME NEW r \in Replicas, Process(r) \/ Restart(r) PROVE scored' = scored /\ spend' = spend
    BY <1>2 DEF Process, Restart
<1>3. ASSUME NEW r \in Replicas, Flush(r) PROVE scored' = scored /\ spend' = spend
    BY <1>3 DEF Flush, StartFlush, SkipTenant, AllowTenant, CheckFails, MarkHopeless,
       NothingToGrade, Judge, WriteFails, JudgeFails, Ack, AckFails, EndFlush, Drop
<1> QED
    BY <1>1, <1>2, <1>3, NextParts

\* A tenant's total does not fall.
LEMMA SpendGrows ==
    ASSUME TypeInv, [Next]_vars
    PROVE  \A n \in Tenants : spend'[n] >= spend[n]
<1>1. ASSUME NEW r \in Replicas, Persist(r) PROVE \A n \in Tenants : spend'[n] >= spend[n]
    <2>1. ASSUME NEW n \in Tenants PROVE Cardinality(Of(samples[r], n)) \in Nat
        <3>1. Of(samples[r], n) \in SUBSET Entries
            BY DEF TypeInv, Of
        <3> QED
            BY <3>1, SizeType
    <2>2. \A n \in Tenants : spend'[n] = spend[n] + Cardinality(Of(samples[r], n))
        BY <1>1, SpendType DEF Persist
    <2> QED
        BY <2>1, <2>2 DEF TypeInv
<1>2. CASE \A r \in Replicas : ~Persist(r)
    BY <1>2, PersistOnly DEF TypeInv
<1> QED
    BY <1>1, <1>2

\* A call past the cap is the first.
LEMMA LateBill ==
    ASSUME TypeInv, NEW r \in Replicas, LateOf(r), Bill(r), pc[r] = "judge", spend' = spend
    PROVE  \A n \in Tenants :
             /\ late'[r][n] <= 1
             /\ late'[r][n] = 1 => spend'[n] >= Cap
<1> SUFFICES ASSUME NEW n \in Tenants
             PROVE  late'[r][n] <= 1 /\ (late'[r][n] = 1 => spend[n] >= Cap)
    OBVIOUS
<1>1. late'[r][n] = IF Of(samples[r], n) # {} /\ spend[n] >= Cap
                    THEN late[r][n] + 1 ELSE late[r][n]
    BY DEF Bill, TypeInv
<1>2. late[r][n] \in Nat
    BY DEF TypeInv
<1> QED
    BY <1>1, <1>2 DEF LateOf

\* A step that does not call the judge, and gives the replica nothing new to grade.
LEMMA LateQuiet ==
    ASSUME TypeInv, NEW r \in Replicas, LateOf(r), late'[r] = late[r],
           \A n \in Tenants : spend'[n] >= spend[n] /\ spend'[n] \in Nat,
           samples'[r] = samples[r], pc'[r] = pc[r] \/ pc[r] # "persist"
    PROVE  LateOf(r)'
<1> SUFFICES ASSUME NEW n \in Tenants
             PROVE  /\ late'[r][n] <= 1
                    /\ late'[r][n] = 1 => /\ spend'[n] >= Cap
                                          /\ pc'[r] # "persist" => Of(samples[r], n)' = {}
    BY DEF LateOf
<1>1. /\ spend[n] \in Nat /\ spend'[n] \in Nat /\ spend'[n] >= spend[n] /\ Cap \in Nat
    BY Bounds DEF TypeInv
<1>2. late'[r][n] = 1 => spend'[n] >= Cap
    BY <1>1 DEF LateOf
<1>3. late'[r][n] = 1 /\ pc'[r] # "persist" => Of(samples[r], n)' = {}
    BY DEF LateOf, Of
<1> QED
    BY <1>2, <1>3 DEF LateOf

\* A step that does not call the judge, and leaves nothing to grade.
LEMMA LateNothing ==
    ASSUME TypeInv, NEW r \in Replicas, LateOf(r), late'[r] = late[r],
           \A n \in Tenants : spend'[n] >= spend[n] /\ spend'[n] \in Nat,
           samples'[r] = {}
    PROVE  LateOf(r)'
<1> SUFFICES ASSUME NEW n \in Tenants
             PROVE  /\ late'[r][n] <= 1
                    /\ late'[r][n] = 1 => /\ spend'[n] >= Cap
                                          /\ pc'[r] # "persist" => Of(samples[r], n)' = {}
    BY DEF LateOf
<1>1. /\ spend[n] \in Nat /\ spend'[n] \in Nat /\ spend'[n] >= spend[n] /\ Cap \in Nat
    BY Bounds DEF TypeInv
<1>2. late'[r][n] = 1 => spend'[n] >= Cap
    BY <1>1 DEF LateOf
<1>3. Of(samples[r], n)' = {}
    BY DEF Of
<1> QED
    BY <1>2, <1>3 DEF LateOf

LEMMA LateStep == TypeInv /\ HandInv /\ LateInv /\ [Next]_vars => LateInv'
<1> SUFFICES ASSUME TypeInv, HandInv, LateInv, [Next]_vars PROVE LateInv'
    OBVIOUS
<1> USE DEF groupVars, dbVars, flushVars, history
<1>0. \A n \in Tenants : spend'[n] >= spend[n] /\ spend'[n] \in Nat
    BY SpendGrows, TypeStep DEF TypeInv
<1>1. CASE Outside
    BY <1>0, <1>1, OutsideHands, LateQuiet DEF LateInv
<1>2. ASSUME NEW r \in Replicas, Process(r) \/ Flush(r) \/ Restart(r) PROVE LateInv'
    <2>1. ASSUME NEW q \in Replicas, q # r PROVE LateOf(q)'
        <3>1. late'[q] = late[q] /\ samples'[q] = samples[q] /\ pc'[q] = pc[q]
            BY <1>2, <2>1, Alone DEF Others
        <3> QED
            BY <1>0, <3>1, LateQuiet DEF LateInv
    <2>2. LateOf(r)'
        <3>0. LateOf(r) /\ HandOf(r)
            BY DEF LateInv, HandInv
        <3>1. CASE Process(r) \/ StartFlush(r)
            <4>1. late' = late /\ samples' = samples /\ pc[r] = "idle"
                BY <3>1 DEF Process, StartFlush
            <4> QED
                BY <1>0, <3>0, <4>1, LateQuiet
        <3>2. ASSUME NEW n \in Tenants, SkipTenant(r, n) PROVE LateOf(r)'
            <4>1. late' = late /\ samples' = samples /\ pc' = pc
                BY <3>2 DEF SkipTenant
            <4> QED
                BY <1>0, <3>0, <4>1, LateQuiet
        <3>3. ASSUME NEW n \in Tenants, AllowTenant(r, n) PROVE LateOf(r)'
            <4>1. /\ late' = late /\ spend' = spend /\ ~Exhausted(n)
                  /\ samples'[r] \subseteq Of(batch[r], n)
                BY <3>3 DEF AllowTenant, TypeInv
            <4>2. late[r][n] # 1
                <5>1. spend[n] \in Nat /\ Cap \in Nat
                    BY Bounds DEF TypeInv
                <5> QED
                    BY <3>0, <4>1, <5>1 DEF LateOf, Exhausted
            <4>3. \A k \in Tenants : k # n => Of(samples[r], k)' = {}
                BY <4>1 DEF Of
            <4> QED
                BY <3>0, <4>1, <4>2, <4>3 DEF LateOf
        <3>4. CASE MarkHopeless(r)
            <4>1. late' = late /\ samples' = samples /\ pc[r] = "mark"
                BY <3>4 DEF MarkHopeless
            <4> QED
                BY <1>0, <3>0, <4>1, LateQuiet
        <3>5. CASE Judge(r)
            <4>1. Bill(r) /\ pc[r] = "judge" /\ spend' = spend /\ pc'[r] = "persist"
                BY <3>5 DEF Judge, Goto, TypeInv
            <4>2. \A n \in Tenants : late'[r][n] <= 1 /\ (late'[r][n] = 1 => spend'[n] >= Cap)
                BY <3>0, <4>1, LateBill
            <4> QED
                BY <4>1, <4>2 DEF LateOf
        <3>6. CASE JudgeFails(r)
            <4>1. samples'[r] = {} /\ spend' = spend /\ pc[r] = "judge" /\ (Bill(r) \/ late' = late)
                BY <3>6 DEF JudgeFails, Drop, Clear, TypeInv
            <4>2. CASE late' = late
                BY <1>0, <3>0, <4>1, <4>2, LateNothing
            <4>3. CASE Bill(r)
                <5>1. \A n \in Tenants : Of(samples[r], n)' = {}
                    BY <4>1 DEF Of
                <5>2. \A n \in Tenants : late'[r][n] <= 1 /\ (late'[r][n] = 1 => spend'[n] >= Cap)
                    BY <3>0, <4>1, <4>3, LateBill
                <5> QED
                    BY <5>1, <5>2 DEF LateOf
            <4> QED
                BY <4>1, <4>2, <4>3
        <3>7. CASE \/ NothingToGrade(r) \/ Persist(r) \/ WriteFails(r)
                   \/ \E n \in Tenants : CheckFails(r, n)
            <4>1. late'[r] = late[r] /\ samples'[r] = {}
                BY <3>7 DEF NothingToGrade, Persist, EndTenant, WriteFails, CheckFails, Drop,
                   Clear, TypeInv
            <4> QED
                BY <1>0, <3>0, <4>1, LateNothing
        <3>8. CASE Ack(r) \/ AckFails(r)
            <4>1. late' = late /\ samples' = samples /\ pc[r] = "tenant"
                BY <3>8 DEF Ack, AckFails, EndFlush
            <4> QED
                BY <1>0, <3>0, <4>1, LateQuiet
        <3>9. CASE Restart(r)
            <4>1. late'[r] = late[r] /\ samples'[r] = {}
                BY <3>9 DEF Restart, TypeInv
            <4> QED
                BY <1>0, <3>0, <4>1, LateNothing
        <3> QED
            BY <1>2, <3>1, <3>2, <3>3, <3>4, <3>5, <3>6, <3>7, <3>8, <3>9 DEF Flush
    <2> QED
        BY <2>1, <2>2 DEF LateInv
<1> QED
    BY <1>1, <1>2, NextParts

-------------------------------------------------------------------------------
(* What is settled                                                         *)

\* What a trace has had is not taken from it.
LEMMA FinalStays ==
    ASSUME [Next]_vars, NEW t, Final(t)
    PROVE  Final(t)'
<1> USE DEF groupVars, dbVars, flushVars, history
<1>1. scored \subseteq scored' /\ missed \subseteq missed' /\ alerted \subseteq alerted'
    <2>1. CASE Outside
        BY <2>1, OutsideHands
    <2>2. ASSUME NEW r \in Replicas, Process(r) \/ Restart(r)
          PROVE  scored \subseteq scored' /\ missed \subseteq missed' /\ alerted \subseteq alerted'
        BY <2>2 DEF Process, Restart
    <2>3. ASSUME NEW r \in Replicas, Flush(r)
          PROVE  scored \subseteq scored' /\ missed \subseteq missed' /\ alerted \subseteq alerted'
        <3>1. CASE \/ StartFlush(r) \/ MarkHopeless(r) \/ NothingToGrade(r) \/ Judge(r)
                   \/ WriteFails(r) \/ JudgeFails(r) \/ Ack(r) \/ AckFails(r)
                   \/ \E n \in Tenants : CheckFails(r, n)
            BY <3>1 DEF StartFlush, MarkHopeless, NothingToGrade, Judge, WriteFails, JudgeFails,
               Ack, AckFails, EndFlush, Drop, Bill, CheckFails
        <3>2. ASSUME NEW n \in Tenants, SkipTenant(r, n) \/ AllowTenant(r, n)
              PROVE  scored \subseteq scored' /\ missed \subseteq missed' /\ alerted \subseteq alerted'
            BY <3>2 DEF SkipTenant, AllowTenant
        <3>3. CASE Persist(r)
            BY <3>3 DEF Persist
        <3> QED
            BY <2>3, <3>1, <3>2, <3>3 DEF Flush
    <2> QED
        BY <2>1, <2>2, <2>3, NextParts
<1> QED
    BY <1>1 DEF Final

\* A trace of a tenant with an alert is final.
LEMMA AlertedFinal ==
    ASSUME NEW E \in SUBSET Entries, NEW n, NEW e \in Of(E, n), n \in alerted'
    PROVE  Final(Trace(e))'
<1>1. Msg(e) \in Msgs /\ TraceOf[Msg(e)] = Trace(e) /\ TenantOf[Msg(e)] = n
    BY EntryParts DEF Of
<1> QED
    BY <1>1 DEF Final

\* What the readiness check neither grades nor puts back is final.
LEMMA SortedFinal ==
    ASSUME TypeInv, StatusInv, NEW t \in Traces, ~Scorable(t), ~Early(t), ~Unasked(t)
    PROVE  Final(t)
BY DEF StatusInv, Scorable, Early, Unasked, Final

\* What waits in a trace's row, in storage's hands or to be marked, for one trace.
StatusOf(t) ==
    /\ row[t] = {} => status[t] = "not_sampled"
    /\ status[t] # "not_sampled" => Final(t)
    /\ \A read \in Statuses \ {"not_sampled"} : <<t, read>> \in reading => Final(t)
    /\ \A r \in Replicas : t \in hopeless[r] => Final(t)

\* What is written of a trace, or is about to be, is an answer.
MarksFinal(t) ==
    /\ \A r \in Replicas : t \in hopeless'[r] => t \in hopeless[r] \/ Final(t)'
    /\ status'[t] = status[t] \/ (row[t] # {} /\ Final(t)')

\* A step that leaves storage alone, and marks only what is final.
LEMMA StatusQuiet ==
    ASSUME TypeInv, StatusInv, [Next]_vars, NEW t \in Traces, "answer" \notin row'[t],
           row' = row, reading' = reading, MarksFinal(t)
    PROVE  StatusOf(t)'
<1>1. Final(t) => Final(t)'
    BY FinalStays
<1> QED
    BY <1>1 DEF StatusInv, StatusOf, MarksFinal

LEMMA StatusStep == TypeInv /\ StatusInv /\ [Next]_vars => StatusInv'
<1> USE DEF groupVars, dbVars, flushVars, history
<1>a. ASSUME TypeInv, StatusInv, [Next]_vars, NEW t \in AskedAtEnd
      PROVE  ("answer" \in row[t] => "question" \in row[t])'
    <2>1. "answer" \in row[t] => "question" \in row[t]
        BY <1>a DEF StatusInv
    <2>2. ASSUME NEW u \in Traces, NEW read \in Statuses, StorageWrites(u, read)
          PROVE  ("answer" \in row[t] => "question" \in row[t])'
        <3>1. PICK brings \in SUBSET {"question", "answer"} :
                /\ u \in AskedAtEnd => ("question" \in brings <=> "answer" \in brings)
                /\ row' = [row EXCEPT ![u] = @ \cup {"row"} \cup brings]
            BY <2>2 DEF StorageWrites
        <3>2. CASE t = u
            <4>1. row'[t] = row[t] \cup {"row"} \cup brings
                BY <1>a, <3>1, <3>2 DEF TypeInv
            <4> QED
                BY <1>a, <2>1, <3>1, <3>2, <4>1
        <3>3. CASE t # u
            BY <1>a, <2>1, <3>1, <3>3 DEF TypeInv
        <3> QED
            BY <3>2, <3>3
    <2>3. CASE row' = row
        BY <2>1, <2>3
    <2>4. row' = row \/ \E u \in Traces, read \in Statuses : StorageWrites(u, read)
        <3>1. CASE Storage
            BY <3>1 DEF Storage, StorageReads
        <3>2. CASE UNCHANGED vars \/ \E m \in Msgs : GiveUp(m)
            BY <3>2 DEF vars, GiveUp
        <3>3. ASSUME NEW r \in Replicas, Process(r) \/ Flush(r) \/ Restart(r) PROVE row' = row
            BY <3>3 DEF Process, Restart, Flush, StartFlush, SkipTenant, AllowTenant, CheckFails,
               MarkHopeless, NothingToGrade, Judge, Persist, WriteFails, JudgeFails, Ack, AckFails,
               EndFlush, Drop
        <3> QED
            BY <1>a, <3>1, <3>2, <3>3 DEF Next
    <2> QED
        BY <2>2, <2>3, <2>4
<1> SUFFICES ASSUME TypeInv, StatusInv, [Next]_vars, NEW t \in Traces, "answer" \notin row'[t]
             PROVE  StatusOf(t)'
    BY <1>a DEF StatusInv, StatusOf
<1>0. /\ "answer" \notin row[t] => StatusOf(t)
      /\ Final(t) => Final(t)'
    BY FinalStays DEF StatusInv, StatusOf
<1>1. ASSUME NEW u \in Traces, StorageReads(u) PROVE StatusOf(t)'
    <2>1. row' = row /\ status' = status /\ reading' = {<<u, status[u]>>} /\ hopeless' = hopeless
        BY <1>1 DEF StorageReads
    <2>2. \A read \in Statuses \ {"not_sampled"} : <<t, read>> \in reading' => Final(t)
        BY <1>0, <2>1 DEF StatusOf
    <2> QED
        BY <1>0, <2>1, <2>2 DEF StatusOf
<1>2. ASSUME NEW u \in Traces, NEW read \in Statuses, StorageWrites(u, read) PROVE StatusOf(t)'
    <2>1. PICK brings \in SUBSET {"question", "answer"} :
            /\ row' = [row EXCEPT ![u] = @ \cup {"row"} \cup brings]
            /\ status' = [status EXCEPT ![u] =
                 IF "answer" \in brings /\ read \in {"not_sampled", "pending"} THEN "pending" ELSE read]
        BY <1>2 DEF StorageWrites
    <2>2. reading' = {} /\ hopeless' = hopeless /\ <<u, read>> \in reading
        BY <1>2 DEF StorageWrites
    <2>3. CASE t = u
        <3>1. "answer" \notin brings
            BY <2>1, <2>3 DEF TypeInv
        <3>2. row'[t] # {} /\ status'[t] = read /\ "answer" \notin row[t]
            BY <2>1, <2>3, <3>1 DEF TypeInv
        <3>3. read # "not_sampled" => Final(t)
            BY <1>0, <2>2, <2>3, <3>2 DEF StatusOf
        <3> QED
            BY <1>0, <2>2, <3>2, <3>3 DEF StatusOf
    <2>4. CASE t # u
        <3>1. row'[t] = row[t] /\ status'[t] = status[t]
            BY <2>1, <2>4 DEF TypeInv
        <3> QED
            BY <1>0, <2>2, <3>1 DEF StatusOf
    <2> QED
        BY <2>3, <2>4
<1>3. CASE (\E m \in Msgs : GiveUp(m)) \/ UNCHANGED vars
    <2>1. row' = row /\ status' = status /\ reading' = reading /\ hopeless' = hopeless
        BY <1>3 DEF GiveUp, vars
    <2> QED
        BY <2>1, StatusQuiet DEF MarksFinal
<1>4. ASSUME NEW r \in Replicas, Process(r) \/ Flush(r) \/ Restart(r) PROVE StatusOf(t)'
    <2>0. \A q \in Replicas : q # r => hopeless'[q] = hopeless[q]
        BY <1>4, Alone DEF Others
    <2>1. CASE \/ Process(r) \/ StartFlush(r) \/ Judge(r) \/ Ack(r) \/ AckFails(r)
        <3>1. row' = row /\ status' = status /\ reading' = reading /\ hopeless' = hopeless
            BY <2>1 DEF Process, StartFlush, Judge, Ack, AckFails, EndFlush
        <3>9. MarksFinal(t)
            BY <3>1 DEF MarksFinal
        <3> QED
            BY <3>1, <3>9, StatusQuiet
    <2>2. CASE \/ NothingToGrade(r) \/ WriteFails(r) \/ JudgeFails(r) \/ Restart(r)
               \/ \E n \in Tenants : CheckFails(r, n)
        <3>1. row' = row /\ status' = status /\ reading' = reading /\ hopeless'[r] = {}
            BY <2>2 DEF NothingToGrade, EndTenant, WriteFails, JudgeFails, CheckFails, Drop, Clear,
               Restart, TypeInv
        <3>9. MarksFinal(t)
            BY <2>0, <3>1 DEF MarksFinal
        <3> QED
            BY <3>1, <3>9, StatusQuiet
    <2>3. ASSUME NEW n \in Tenants, SkipTenant(r, n) PROVE StatusOf(t)'
        <3>1. /\ row' = row /\ reading' = reading /\ hopeless' = hopeless /\ n \in alerted'
              /\ status' = SetStatus(TracesOf(Of(batch[r], n)), "skipped_budget")
            BY <2>3 DEF SkipTenant
        <3>2. status'[t] = status[t] \/ (row[t] # {} /\ t \in TracesOf(Of(batch[r], n)))
            BY <3>1 DEF SetStatus
        <3>3. t \in TracesOf(Of(batch[r], n)) => Final(t)'
            BY <3>1, AlertedFinal DEF TracesOf, TypeInv
        <3>9. MarksFinal(t)
            BY <3>1, <3>2, <3>3 DEF MarksFinal
        <3> QED
            BY <3>1, <3>9, StatusQuiet
    <2>4. ASSUME NEW n \in Tenants, AllowTenant(r, n) PROVE StatusOf(t)'
        <3>1. row' = row /\ reading' = reading /\ status' = status
            BY <2>4 DEF AllowTenant
        <3>2. PICK abandoned :
                /\ hopeless' = [hopeless EXCEPT ![r] =
                     {u \in TracesOf(Of(batch[r], n)) : ~Scorable(u) /\ ~Early(u)}
                       \cup TracesOf(abandoned)]
                /\ missed' = missed \cup TracesOf(abandoned)
                     \cup {u \in {v \in TracesOf(Of(batch[r], n)) : ~Scorable(v) /\ ~Early(v)} :
                            Unasked(u)}
            BY <2>4 DEF AllowTenant
        <3>3. hopeless'[r] = {u \in TracesOf(Of(batch[r], n)) : ~Scorable(u) /\ ~Early(u)}
                               \cup TracesOf(abandoned)
            BY <3>2 DEF TypeInv
        <3>4. t \in TracesOf(abandoned) => Final(t)'
            BY <3>2 DEF Final
        <3>5. ASSUME t \in TracesOf(Of(batch[r], n)), ~Scorable(t), ~Early(t) PROVE Final(t)'
            <4>1. CASE Unasked(t)
                BY <3>2, <3>5, <4>1 DEF Final
            <4>2. CASE ~Unasked(t)
                BY <1>0, <3>5, <4>2, SortedFinal
            <4> QED
                BY <4>1, <4>2
        <3>9. MarksFinal(t)
            BY <1>0, <2>0, <3>1, <3>3, <3>4, <3>5 DEF MarksFinal
        <3> QED
            BY <3>1, <3>9, StatusQuiet
    <2>5. CASE MarkHopeless(r)
        <3>1. /\ row' = row /\ reading' = reading /\ hopeless' = hopeless
              /\ status' = SetStatus(hopeless[r], "not_scorable")
            BY <2>5 DEF MarkHopeless
        <3>2. status'[t] = status[t] \/ (row[t] # {} /\ t \in hopeless[r])
            BY <3>1 DEF SetStatus
        <3>3. t \in hopeless[r] => Final(t)'
            BY <1>0, <3>1 DEF StatusOf
        <3>9. MarksFinal(t)
            BY <3>1, <3>2, <3>3 DEF MarksFinal
        <3> QED
            BY <3>1, <3>9, StatusQuiet
    <2>6. CASE Persist(r)
        <3>1. row' = row /\ reading' = reading /\ hopeless'[r] = {}
            BY <2>6 DEF Persist, EndTenant, Clear, TypeInv
        <3>2. PICK failed :
                LET good == TracesOf(samples[r] \ failed)
                IN  /\ scored' = scored \cup good
                    /\ missed' = missed \cup TracesOf(failed)
                    /\ status' = [u \in Traces |->
                         IF row[u] = {} THEN status[u]
                         ELSE IF u \in TracesOf(failed) THEN "error"
                         ELSE IF u \in good THEN "scored" ELSE status[u]]
            BY <2>6 DEF Persist
        <3>3. status'[t] = status[t] \/ (row[t] # {} /\ Final(t)')
            BY <3>2 DEF Final
        <3>9. MarksFinal(t)
            BY <2>0, <3>1, <3>3 DEF MarksFinal
        <3> QED
            BY <3>1, <3>9, StatusQuiet
    <2> QED
        BY <1>4, <2>1, <2>2, <2>3, <2>4, <2>5, <2>6 DEF Flush
<1> QED
    BY <1>1, <1>2, <1>3, <1>4 DEF Next, Storage

\* What may be acked, for a replica whose step acks nothing and puts nothing new
\* into the slice.
LEMMA AckQuiet ==
    ASSUME [Next]_vars, NEW r, AckOf(r), acked'[r] \subseteq acked[r],
           slice'[r] = {} \/ /\ slice'[r] = slice[r]
                             /\ samples'[r] = samples[r] /\ waiting'[r] = waiting[r]
    PROVE  AckOf(r)'
<1>1. \A m \in acked'[r] : Final(TraceOf[m])'
    BY FinalStays DEF AckOf
<1>2. \A e \in slice'[r] \ (samples'[r] \cup waiting'[r]) : Final(Trace(e))'
    BY FinalStays DEF AckOf
<1> QED
    BY <1>1, <1>2 DEF AckOf

\* The slice is finished: what was graded is final, and so was the rest.
LEMMA AckEndTenant ==
    ASSUME TypeInv, [Next]_vars, NEW r \in Replicas, AckOf(r), EndTenant(r),
           \A e \in samples[r] : Final(Trace(e))'
    PROVE  AckOf(r)'
<1>1. acked'[r] = acked[r] \cup FinalIds(r) /\ slice'[r] = {}
    BY DEF EndTenant, Clear, TypeInv
<1>2. ASSUME NEW m \in FinalIds(r) PROVE Final(TraceOf[m])'
    <2>1. PICK e \in slice[r] \ waiting[r] : m = Msg(e)
        BY DEF FinalIds, MsgsOf
    <2>2. Final(Trace(e))'
        BY <2>1, FinalStays DEF AckOf
    <2> QED
        BY <2>1, <2>2 DEF Trace, Msg
<1>3. \A m \in acked[r] : Final(TraceOf[m])'
    BY FinalStays DEF AckOf
<1>4. \A m \in acked'[r] : Final(TraceOf[m])'
    BY <1>1, <1>2, <1>3
<1> QED
    BY <1>1, <1>4 DEF AckOf

LEMMA AckStep == TypeInv /\ HandInv /\ StatusInv /\ AckInv /\ [Next]_vars => AckInv'
<1> SUFFICES ASSUME TypeInv, HandInv, StatusInv, AckInv, [Next]_vars, NEW q \in Replicas
             PROVE  AckOf(q)'
    BY DEF AckInv
<1> USE DEF groupVars, dbVars, flushVars, history
<1>0. AckOf(q) /\ HandOf(q)
    BY DEF AckInv, HandInv
<1>1. CASE Outside
    BY <1>0, <1>1, OutsideHands, AckQuiet
<1>2. ASSUME NEW r \in Replicas, r # q, Process(r) \/ Flush(r) \/ Restart(r) PROVE AckOf(q)'
    <2>1. Others(r)
        BY <1>2, Alone
    <2> QED
        BY <1>0, <1>2, <2>1, AckQuiet DEF Others
<1>3. CASE \/ Process(q) \/ StartFlush(q) \/ Judge(q) \/ MarkHopeless(q)
    <2>1. acked' = acked /\ slice' = slice /\ samples' = samples /\ waiting' = waiting
        BY <1>3 DEF Process, StartFlush, Judge, MarkHopeless
    <2> QED
        BY <1>0, <2>1, AckQuiet
<1>4. CASE \/ WriteFails(q) \/ JudgeFails(q) \/ Restart(q) \/ \E n \in Tenants : CheckFails(q, n)
    <2>1. acked'[q] \subseteq acked[q] /\ slice'[q] = {}
        BY <1>4 DEF WriteFails, JudgeFails, CheckFails, Drop, Clear, Restart, TypeInv
    <2> QED
        BY <1>0, <2>1, AckQuiet
<1>5. CASE Ack(q) \/ AckFails(q)
    <2>1. acked'[q] = {} /\ slice' = slice /\ samples' = samples /\ waiting' = waiting
        BY <1>5 DEF Ack, AckFails, EndFlush, TypeInv
    <2> QED
        BY <1>0, <2>1, AckQuiet
<1>6. CASE NothingToGrade(q)
    <2>1. EndTenant(q) /\ samples[q] = {}
        BY <1>6 DEF NothingToGrade
    <2> QED
        BY <1>0, <2>1, AckEndTenant
<1>7. CASE Persist(q)
    <2>1. EndTenant(q)
        BY <1>7 DEF Persist
    <2>2. PICK failed \in SUBSET samples[q] :
            /\ scored' = scored \cup TracesOf(samples[q] \ failed)
            /\ missed' = missed \cup TracesOf(failed)
        BY <1>7 DEF Persist
    <2>3. \A e \in samples[q] : Final(Trace(e))'
        BY <2>2 DEF Final, TracesOf
    <2> QED
        BY <1>0, <2>1, <2>3, AckEndTenant
<1>8. ASSUME NEW n \in Tenants, SkipTenant(q, n) PROVE AckOf(q)'
    <2>1. /\ acked'[q] = acked[q] \cup MsgsOf(Of(batch[q], n))
          /\ slice' = slice /\ slice[q] = {} /\ n \in alerted'
        BY <1>0, <1>8 DEF SkipTenant, TypeInv, HandOf, PlaceOf
    <2>2. \A e \in Of(batch[q], n) : Final(Trace(e))'
        BY <2>1, AlertedFinal DEF TypeInv
    <2>3. \A m \in MsgsOf(Of(batch[q], n)) : Final(TraceOf[m])'
        BY <2>2 DEF MsgsOf, Msg, Trace
    <2>4. \A m \in acked[q] : Final(TraceOf[m])'
        BY <1>0, FinalStays DEF AckOf
    <2> QED
        BY <2>1, <2>3, <2>4 DEF AckOf
<1>9. ASSUME NEW n \in Tenants, AllowTenant(q, n) PROVE AckOf(q)'
    <2> DEFINE S == Of(batch[q], n)
    <2>1. acked' = acked /\ slice'[q] = S /\ samples'[q] = {e \in S : Scorable(Trace(e))}
        BY <1>9 DEF AllowTenant, TypeInv
    <2>2. PICK abandoned \in SUBSET {e \in S : Early(Trace(e))} :
            /\ waiting' = [waiting EXCEPT ![q] = {e \in S : Early(Trace(e))} \ abandoned]
            /\ missed' = missed \cup TracesOf(abandoned)
                 \cup {t \in {u \in TracesOf(S) : ~Scorable(u) /\ ~Early(u)} : Unasked(t)}
        BY <1>9 DEF AllowTenant
    <2>3. waiting'[q] = {e \in S : Early(Trace(e))} \ abandoned
        BY <2>2 DEF TypeInv
    <2>4. ASSUME NEW e \in slice'[q] \ (samples'[q] \cup waiting'[q]) PROVE Final(Trace(e))'
        <3>1. e \in S /\ ~Scorable(Trace(e)) /\ (e \in abandoned \/ ~Early(Trace(e)))
            BY <2>1, <2>3, <2>4
        <3>2. Trace(e) \in Traces
            BY <3>1, EntryParts DEF TypeInv, Of
        <3>3. CASE e \in abandoned
            BY <2>2, <3>3 DEF Final, TracesOf
        <3>4. CASE ~Early(Trace(e))
            <4>1. CASE Unasked(Trace(e))
                BY <2>2, <3>1, <3>4, <4>1 DEF Final, TracesOf
            <4>2. CASE ~Unasked(Trace(e))
                BY <3>1, <3>2, <3>4, <4>2, SortedFinal, FinalStays
            <4> QED
                BY <4>1, <4>2
        <3> QED
            BY <3>1, <3>3, <3>4
    <2>5. \A m \in acked[q] : Final(TraceOf[m])'
        BY <1>0, FinalStays DEF AckOf
    <2> QED
        BY <2>1, <2>4, <2>5 DEF AckOf
<1> QED
    BY <1>1, <1>2, <1>3, <1>4, <1>5, <1>6, <1>7, <1>8, <1>9, NextParts DEF Flush

LEMMA SettledStep == TypeInv /\ AckInv /\ SettledInv /\ [Next]_vars => SettledInv'
<1> SUFFICES ASSUME TypeInv, AckInv, SettledInv, [Next]_vars, NEW m \in settled' \ givenUp'
             PROVE  Final(TraceOf[m])'
    BY DEF SettledInv
<1> USE DEF groupVars, dbVars, flushVars, history
<1>1. \/ m \in settled /\ m \notin givenUp
      \/ \E r \in Replicas : m \in acked[r]
    <2>1. CASE \E k \in Msgs : GiveUp(k)
        BY <2>1 DEF GiveUp
    <2>2. CASE Storage \/ UNCHANGED vars
        BY <2>2 DEF Storage, StorageReads, StorageWrites, vars
    <2>3. ASSUME NEW r \in Replicas, Ack(r) PROVE (m \in settled /\ m \notin givenUp) \/ m \in acked[r]
        BY <2>3 DEF Ack, EndFlush
    <2>4. ASSUME NEW r \in Replicas, Process(r) \/ Flush(r) \/ Restart(r), ~Ack(r)
          PROVE  settled' = settled /\ givenUp' = givenUp
        <3>1. CASE Process(r) \/ Restart(r)
            BY <3>1 DEF Process, Restart
        <3>2. CASE Flush(r)
            BY <2>4, <3>2 DEF Flush, StartFlush, SkipTenant, AllowTenant, CheckFails,
               MarkHopeless, NothingToGrade, Judge, Persist, WriteFails, JudgeFails, AckFails,
               EndFlush, Drop
        <3> QED
            BY <2>4, <3>1, <3>2
    <2> QED
        BY <2>1, <2>2, <2>3, <2>4 DEF Next
<1>2. Final(TraceOf[m])
    BY <1>1 DEF SettledInv, AckInv, AckOf
<1> QED
    BY <1>2, FinalStays

-------------------------------------------------------------------------------
(* What is paid for                                                        *)

\* A flush takes entries out of hand; what it has the judge grade it does not
\* have graded again.
LEMMA FlushEffects ==
    ASSUME TypeInv, NEW r \in Replicas, HandOf(r), Flush(r) \/ Restart(r)
    PROVE  /\ delivered' = delivered
           /\ InHand(r)' \subseteq InHand(r)
           /\ Unbilled(r)' \subseteq Unbilled(r)
           /\ \/ billed' = billed
              \/ /\ Bill(r)
                 /\ samples[r] \subseteq Unbilled(r)
                 /\ Unbilled(r)' \cap samples[r] = {}
<1> USE DEF groupVars, dbVars, flushVars, history
<1> DEFINE Quiet == /\ delivered' = delivered /\ billed' = billed
                    /\ InHand(r)' \subseteq InHand(r) /\ Unbilled(r)' \subseteq Unbilled(r)
<1>1. CASE StartFlush(r)
    <2>1. /\ batch'[r] = buffer[r] /\ buffer'[r] = {} /\ pc'[r] = "tenant"
          /\ slice' = slice /\ delivered' = delivered /\ billed' = billed /\ pc[r] = "idle"
        BY <1>1 DEF StartFlush, TypeInv, Goto
    <2> QED
        BY <2>1 DEF InHand, Unbilled
<1>2. ASSUME NEW n \in Tenants, SkipTenant(r, n) PROVE Quiet
    <2>1. /\ batch'[r] \subseteq batch[r] /\ pc' = pc /\ buffer' = buffer /\ slice' = slice
          /\ samples' = samples /\ delivered' = delivered /\ billed' = billed
        BY <1>2 DEF SkipTenant, TypeInv
    <2> QED
        BY <2>1 DEF InHand, Unbilled
<1>3. ASSUME NEW n \in Tenants, AllowTenant(r, n) PROVE Quiet
    <2>1. /\ batch'[r] \subseteq batch[r] /\ slice'[r] \subseteq batch[r] /\ buffer' = buffer
          /\ pc'[r] # "persist" /\ delivered' = delivered /\ billed' = billed
        BY <1>3 DEF AllowTenant, TypeInv, Goto, Of
    <2> QED
        BY <2>1 DEF InHand, Unbilled
<1>4. CASE MarkHopeless(r)
    <2>1. /\ batch' = batch /\ slice' = slice /\ buffer' = buffer /\ pc[r] = "mark"
          /\ pc'[r] = "judge" /\ delivered' = delivered /\ billed' = billed
        BY <1>4 DEF MarkHopeless, TypeInv, Goto
    <2> QED
        BY <2>1 DEF InHand, Unbilled
<1>5. CASE NothingToGrade(r) \/ Persist(r)
    <2>1. /\ buffer'[r] = buffer[r] \cup waiting[r] /\ slice'[r] = {} /\ batch' = batch
          /\ delivered' = delivered /\ billed' = billed
        BY <1>5 DEF NothingToGrade, Persist, EndTenant, Clear, TypeInv
    <2> QED
        BY <2>1 DEF InHand, Unbilled, HandOf, PlaceOf
<1>6. CASE Judge(r)
    <2>1. /\ batch' = batch /\ slice' = slice /\ buffer' = buffer /\ samples' = samples
          /\ pc[r] = "judge" /\ pc'[r] = "persist" /\ delivered' = delivered /\ Bill(r)
        BY <1>6 DEF Judge, TypeInv, Goto
    <2> QED
        BY <2>1 DEF InHand, Unbilled, HandOf, PlaceOf, HeldOf
<1>7. ASSUME NEW n \in Tenants, CheckFails(r, n) PROVE Quiet
    <2>1. /\ batch'[r] \subseteq batch[r] /\ slice'[r] = {} /\ buffer' = buffer
          /\ delivered' = delivered /\ billed' = billed
        BY <1>7 DEF CheckFails, Drop, Clear, TypeInv
    <2> QED
        BY <2>1 DEF InHand, Unbilled
<1>8. CASE WriteFails(r)
    <2>1. batch' = batch /\ slice'[r] = {} /\ buffer' = buffer /\ delivered' = delivered /\ billed' = billed
        BY <1>8 DEF WriteFails, Drop, Clear, TypeInv
    <2> QED
        BY <2>1 DEF InHand, Unbilled
<1>9. CASE JudgeFails(r)
    <2>1. /\ batch' = batch /\ slice'[r] = {} /\ buffer' = buffer /\ delivered' = delivered
          /\ pc[r] = "judge" /\ (Bill(r) \/ billed' = billed)
        BY <1>9 DEF JudgeFails, Drop, Clear, TypeInv
    <2> QED
        BY <2>1 DEF InHand, Unbilled, HandOf, PlaceOf, HeldOf
<1>10. CASE Ack(r) \/ AckFails(r)
    <2>1. /\ batch' = batch /\ slice' = slice /\ buffer' = buffer /\ pc[r] = "tenant"
          /\ pc'[r] = "idle" /\ delivered' = delivered /\ billed' = billed
        BY <1>10 DEF Ack, AckFails, EndFlush, TypeInv, Goto
    <2> QED
        BY <2>1 DEF InHand, Unbilled
<1>11. CASE Restart(r)
    <2>1. /\ buffer'[r] = {} /\ batch'[r] = {} /\ slice'[r] = {}
          /\ delivered' = delivered /\ billed' = billed
        BY <1>11 DEF Restart, TypeInv
    <2> QED
        BY <2>1 DEF InHand, Unbilled
<1> QED
    BY <1>1, <1>2, <1>3, <1>4, <1>5, <1>6, <1>7, <1>8, <1>9, <1>10, <1>11 DEF Flush

\* A delivery puts new entries into one replica's hands, each with a number
\* that no entry of its message had.
LEMMA ProcessEffects ==
    ASSUME TypeInv, NEW r \in Replicas, HandOf(r), Process(r)
    PROVE  /\ billed' = billed
           /\ \A m \in Msgs : delivered[m] <= delivered'[m]
           /\ \A e \in InHand(r)' \ InHand(r) :
                 e \in Entries /\ delivered[Msg(e)] < e[2] /\ e[2] <= delivered'[Msg(e)]
           /\ \A e \in Unbilled(r)' \ Unbilled(r) : e \in InHand(r)' \ InHand(r)
<1>1. PICK ms \in (SUBSET (Msgs \ settled)) \ {{}} :
        LET full == buffer[r] \cup NewEntries(r, ms)
            due  == Cardinality(full) >= BatchSize
        IN  /\ \A m \in ms : delivered[m] <= MaxDeliveries
            /\ delivered' = [m \in Msgs |->
                 IF m \in ms THEN delivered[m] + 1 ELSE delivered[m]]
            /\ buffer' = [buffer EXCEPT ![r] = IF due THEN {} ELSE full]
            /\ batch' = [batch EXCEPT ![r] = IF due THEN full ELSE {}]
            /\ Goto(r, IF due THEN "tenant" ELSE "idle")
    BY DEF Process
<1> DEFINE new == NewEntries(r, ms)
<1>2. /\ new \in SUBSET Entries
      /\ \A e \in new : e[2] = delivered[Msg(e)] + 1 /\ Msg(e) \in ms
    <2>1. MsgsOf(new) \subseteq ms
        BY <1>1, NewParts
    <2> QED
        BY <1>1, <2>1, NewParts, MsgsOfParts
<1> HIDE DEF new
<1>3. /\ buffer'[r] \cup batch'[r] = buffer[r] \cup new
      /\ pc'[r] \in {"idle", "tenant"}
    BY <1>1 DEF TypeInv, Goto, new
<1>4. /\ slice' = slice /\ slice[r] = {} /\ batch[r] = {} /\ pc[r] = "idle"
      /\ billed' = billed
    BY DEF Process, HandOf, PlaceOf, history
<1>5. /\ InHand(r) = buffer[r] /\ InHand(r)' = buffer[r] \cup new
      /\ Unbilled(r) = buffer[r] /\ Unbilled(r)' = buffer[r] \cup new
    BY <1>3, <1>4 DEF InHand, Unbilled
<1>6. \A m \in Msgs : delivered[m] \in Nat
    BY Bounds DEF TypeInv
<1>7. \A m \in Msgs : delivered[m] <= delivered'[m]
    BY <1>1, <1>6
<1>8. \A m \in ms : delivered'[m] = delivered[m] + 1 /\ delivered[m] \in Nat
    BY <1>1, <1>6
<1>9. \A e \in new : e \in Entries /\ delivered[Msg(e)] < e[2] /\ e[2] <= delivered'[Msg(e)]
    BY <1>2, <1>8
<1> QED
    BY <1>4, <1>5, <1>7, <1>9

LEMMA ApartStep == TypeInv /\ HandInv /\ ApartInv /\ [Next]_vars => ApartInv'
<1> SUFFICES ASSUME TypeInv, HandInv, ApartInv, [Next]_vars PROVE ApartInv'
    OBVIOUS
<1>1. CASE Outside
    BY <1>1, OutsideHands DEF ApartInv, InHand
<1>2. ASSUME NEW r \in Replicas, Process(r) \/ Flush(r) \/ Restart(r) PROVE ApartInv'
    <2>1. \A q \in Replicas \ {r} : InHand(q)' = InHand(q)
        BY <1>2, Alone DEF Others, InHand
    <2>2. /\ \A m \in Msgs : delivered[m] <= delivered'[m]
          /\ \A e \in InHand(r)' \ InHand(r) :
                delivered[Msg(e)] < e[2] /\ e[2] <= delivered'[Msg(e)] /\ e \in Entries
        <3>1. CASE Process(r)
            BY <3>1, ProcessEffects DEF HandInv
        <3>2. CASE Flush(r) \/ Restart(r)
            BY <3>2, FlushEffects, Bounds DEF HandInv, TypeInv
        <3> QED
            BY <1>2, <3>1, <3>2
    <2>3. ASSUME NEW q \in Replicas, NEW e \in InHand(q)
          PROVE  /\ Msg(e) \in Msgs /\ delivered[Msg(e)] \in Nat /\ delivered'[Msg(e)] \in Nat
                 /\ e[2] \in Nat /\ e[2] <= delivered[Msg(e)]
        <3>1. e \in Entries
            BY DEF InHand, TypeInv
        <3>2. Msg(e) \in Msgs /\ e[2] \in Nat
            BY <3>1, Bounds DEF Entries, Msg
        <3> QED
            BY <3>2, Bounds, TypeStep DEF TypeInv, ApartInv
    <2>4. ASSUME NEW q \in Replicas, NEW e \in InHand(q)' PROVE e[2] <= delivered'[Msg(e)]
        <3>1. CASE e \in InHand(q)
            BY <2>2, <2>3, <3>1
        <3>2. CASE e \notin InHand(q)
            BY <2>1, <2>2, <3>2
        <3> QED
            BY <3>1, <3>2
    <2>5. ASSUME NEW q \in Replicas, q # r PROVE InHand(r)' \cap InHand(q)' = {}
        <3>1. ASSUME NEW e \in InHand(r)', e \in InHand(q) PROVE FALSE
            <4>1. e \notin InHand(r)
                BY <2>5, <3>1 DEF ApartInv
            <4>2. delivered[Msg(e)] < e[2]
                BY <2>2, <3>1, <4>1
            <4> QED
                BY <2>3, <3>1, <4>2
        <3> QED
            BY <2>1, <2>5, <3>1
    <2>6. ASSUME NEW p \in Replicas, NEW q \in Replicas, p # q PROVE InHand(p)' \cap InHand(q)' = {}
        <3>1. CASE p = r \/ q = r
            BY <2>5, <2>6, <3>1
        <3>2. CASE p # r /\ q # r
            BY <2>1, <2>6, <3>2 DEF ApartInv
        <3> QED
            BY <3>1, <3>2
    <2> QED
        BY <2>4, <2>6 DEF ApartInv
<1> QED
    BY <1>1, <1>2, NextParts

\* What is unbilled is in hand.
LEMMA UnbilledInHand ==
    ASSUME TypeInv, NEW r \in Replicas
    PROVE  Unbilled(r) \subseteq InHand(r) /\ InHand(r) \in SUBSET Entries
BY DEF TypeInv, Unbilled, InHand

\* Deliveries and what is pending of a trace are finite sets.
LEMMA BillSets ==
    ASSUME NEW t
    PROVE  /\ Pending(t) \in SUBSET Entries /\ Deliveries(t) \in SUBSET Entries
           /\ Pending(t)' \in SUBSET Entries /\ Deliveries(t)' \in SUBSET Entries
           /\ \A r : About(samples[r], t) \in SUBSET samples[r]
BY DEF Pending, Deliveries, About

\* Counting: a smaller set has no more elements.
LEMMA Smaller ==
    ASSUME NEW S \in SUBSET Entries, NEW T \in SUBSET S
    PROVE  Cardinality(T) <= Cardinality(S) /\ Cardinality(T) \in Nat /\ Cardinality(S) \in Nat
BY FiniteEntries, FS_Subset, FS_CardinalityType

\* Counting: what is taken out of a set it loses.
LEMMA TakenOut ==
    ASSUME NEW S \in SUBSET Entries, NEW A \in SUBSET S, NEW T \in SUBSET (S \ A)
    PROVE  Cardinality(A) + Cardinality(T) <= Cardinality(S)
<1>1. Cardinality(S \ A) = Cardinality(S) - Cardinality(S \cap A)
    BY SizeType, FS_Difference
<1>2. Cardinality(S \cap A) = Cardinality(A)
    <2>1. S \cap A = A
        OBVIOUS
    <2> QED
        BY <2>1
<1>3. /\ Cardinality(T) <= Cardinality(S \ A)
      /\ Cardinality(T) \in Nat /\ Cardinality(A) \in Nat /\ Cardinality(S) \in Nat
    BY Smaller
<1> QED
    BY <1>1, <1>2, <1>3

\* Counting: a set that gains no more than another.
LEMMA GainsNoMore ==
    ASSUME NEW S \in SUBSET Entries, NEW T \in SUBSET Entries, NEW D \in SUBSET Entries,
           NEW E \in SUBSET Entries, D \subseteq E, T \subseteq S \cup (E \ D),
           NEW k \in Nat, k + Cardinality(S) <= Cardinality(D)
    PROVE  k + Cardinality(T) <= Cardinality(E)
<1> DEFINE N == E \ D
<1>1. Cardinality(D) + Cardinality(N) <= Cardinality(E)
    BY TakenOut
<1>2. N \in SUBSET Entries
    OBVIOUS
<1> HIDE DEF N
<1>3. /\ IsFiniteSet(S) /\ IsFiniteSet(N)
      /\ Cardinality(S) \in Nat /\ Cardinality(N) \in Nat
      /\ Cardinality(D) \in Nat /\ Cardinality(E) \in Nat
    BY <1>2, SizeType
<1>4. Cardinality(S \cup N) = Cardinality(S) + Cardinality(N) - Cardinality(S \cap N)
    BY <1>3, FS_Union
<1>5. Cardinality(S \cap N) \in Nat
    BY Smaller
<1>6. S \cup N \in SUBSET Entries /\ T \in SUBSET (S \cup N)
    BY <1>2 DEF N
<1>7. Cardinality(T) <= Cardinality(S \cup N) /\ Cardinality(T) \in Nat
    BY <1>6, Smaller
<1> QED
    BY <1>1, <1>3, <1>4, <1>5, <1>7

LEMMA BillStep == TypeInv /\ HandInv /\ ApartInv /\ BillInv /\ [Next]_vars => BillInv'
<1> SUFFICES ASSUME TypeInv, HandInv, ApartInv, BillInv, [Next]_vars, NEW t \in Traces
             PROVE  billed'[t] + Cardinality(Pending(t)') <= Cardinality(Deliveries(t)')
    BY DEF BillInv
<1>0. /\ billed[t] + Cardinality(Pending(t)) <= Cardinality(Deliveries(t))
      /\ billed[t] \in Nat
    BY DEF BillInv, TypeInv
<1>1. ASSUME billed' = billed, Deliveries(t) \subseteq Deliveries(t)',
             Pending(t)' \subseteq Pending(t) \cup (Deliveries(t)' \ Deliveries(t))
      PROVE  billed'[t] + Cardinality(Pending(t)') <= Cardinality(Deliveries(t)')
    BY <1>0, <1>1, BillSets, GainsNoMore
<1>2. CASE Outside
    <2>1. billed' = billed /\ Deliveries(t)' = Deliveries(t) /\ Pending(t)' = Pending(t)
        BY <1>2, OutsideHands DEF Deliveries, Pending, Unbilled
    <2> QED
        BY <1>1, <2>1
<1>3. ASSUME NEW r \in Replicas, Process(r) \/ Flush(r) \/ Restart(r)
      PROVE  \A q \in Replicas \ {r} : Unbilled(q)' = Unbilled(q)
    BY <1>3, Alone DEF Others, Unbilled
<1>4. ASSUME NEW r \in Replicas, Process(r)
      PROVE  billed'[t] + Cardinality(Pending(t)') <= Cardinality(Deliveries(t)')
    <2>1. /\ billed' = billed
          /\ \A m \in Msgs : delivered[m] <= delivered'[m]
          /\ \A e \in Unbilled(r)' \ Unbilled(r) :
                e \in Entries /\ delivered[Msg(e)] < e[2] /\ e[2] <= delivered'[Msg(e)]
        BY <1>4, ProcessEffects DEF HandInv
    <2>2. \A e \in Entries : /\ Msg(e) \in Msgs /\ e[2] \in Nat
                             /\ delivered[Msg(e)] \in Nat /\ delivered'[Msg(e)] \in Nat
        BY Bounds, TypeStep DEF Entries, Msg, TypeInv
    <2>3. Deliveries(t) \subseteq Deliveries(t)'
        BY <2>1, <2>2 DEF Deliveries, About
    <2>4. ASSUME NEW e \in Pending(t)', e \notin Pending(t) PROVE e \in Deliveries(t)' \ Deliveries(t)
        <3>1. PICK q \in Replicas : e \in Unbilled(q)'
            BY <2>4 DEF Pending
        <3>2. e \in About(Entries, t) /\ e \in Entries
            BY <2>4 DEF Pending, About
        <3>3. e \notin Unbilled(q)
            BY <2>4, <3>2 DEF Pending
        <3>4. q = r
            BY <1>3, <1>4, <3>1, <3>3
        <3>5. delivered[Msg(e)] < e[2] /\ e[2] <= delivered'[Msg(e)]
            BY <2>1, <3>1, <3>3, <3>4
        <3> QED
            BY <2>2, <3>2, <3>5 DEF Deliveries
    <2> QED
        BY <1>1, <2>1, <2>3, <2>4
<1>5. ASSUME NEW r \in Replicas, Flush(r) \/ Restart(r)
      PROVE  billed'[t] + Cardinality(Pending(t)') <= Cardinality(Deliveries(t)')
    <2>1. /\ delivered' = delivered
          /\ Unbilled(r)' \subseteq Unbilled(r)
          /\ \/ billed' = billed
             \/ /\ Bill(r)
                /\ samples[r] \subseteq Unbilled(r)
                /\ Unbilled(r)' \cap samples[r] = {}
        BY <1>5, FlushEffects DEF HandInv
    <2>2. Deliveries(t)' = Deliveries(t)
        BY <2>1 DEF Deliveries
    <2>3. Pending(t)' \subseteq Pending(t)
        BY <1>3, <1>5, <2>1 DEF Pending
    <2>4. CASE billed' = billed
        BY <1>1, <2>2, <2>3, <2>4
    <2>5. CASE Bill(r) /\ samples[r] \subseteq Unbilled(r) /\ Unbilled(r)' \cap samples[r] = {}
        <3> DEFINE A == About(samples[r], t)
        <3>1. billed'[t] = billed[t] + Cardinality(A)
            BY <2>5 DEF Bill, TypeInv
        <3>2. A \in SUBSET Pending(t)
            BY <2>5 DEF Pending, About, TypeInv
        <3>3. \A q \in Replicas \ {r} : Unbilled(q) \cap samples[r] = {}
            BY <2>5, UnbilledInHand DEF ApartInv
        <3>4. Pending(t)' \in SUBSET (Pending(t) \ A)
            BY <1>3, <1>5, <2>3, <2>5, <3>3 DEF Pending, About
        <3> HIDE DEF A
        <3>5. Cardinality(A) + Cardinality(Pending(t)') <= Cardinality(Pending(t))
            BY <3>2, <3>4, BillSets, TakenOut
        <3>6. /\ Cardinality(A) \in Nat /\ Cardinality(Pending(t)') \in Nat
              /\ Cardinality(Pending(t)) \in Nat /\ Cardinality(Deliveries(t)) \in Nat
            BY <3>2, BillSets, SizeType, Smaller
        <3> QED
            BY <1>0, <2>2, <3>1, <3>5, <3>6
    <2> QED
        BY <2>1, <2>4, <2>5
<1> QED
    BY <1>2, <1>4, <1>5, NextParts

\* The tenant of a trace.
LEMMA OneTenant ==
    ASSUME NEW m \in Msgs, NEW k \in Msgs, TraceOf[m] = TraceOf[k]
    PROVE  TenantOf[m] = TenantOf[k]
BY EvalAssumption

\* There are no more traces than entries about them.
LEMMA TracesAreFewer ==
    ASSUME NEW E \in SUBSET Entries
    PROVE  /\ IsFiniteSet(TracesOf(E)) /\ Cardinality(TracesOf(E)) \in Nat
           /\ Cardinality(TracesOf(E)) <= Cardinality(E)
<1> DEFINE f == [e \in E |-> Trace(e)]
<1>1. f \in Surjection(E, TracesOf(E))
    BY DEF Surjection, TracesOf
<1> HIDE DEF f
<1>2. IsFiniteSet(E)
    BY SizeType
<1> QED
    BY <1>1, <1>2, FS_Surjection, FS_CardinalityType

LEMMA InitSpend == Init => SpendInv
<1> SUFFICES ASSUME Init, NEW n \in Tenants PROVE spend[n] >= Cardinality(ScoredOf(n))
    BY DEF SpendInv
<1>1. ScoredOf(n) = {}
    BY DEF Init, ScoredOf
<1> QED
    BY <1>1, FS_EmptySet DEF Init

LEMMA SpendStep == TypeInv /\ SpendInv /\ [Next]_vars => SpendInv'
<1> SUFFICES ASSUME TypeInv, SpendInv, [Next]_vars, NEW n \in Tenants
             PROVE  spend'[n] >= Cardinality(ScoredOf(n)')
    BY DEF SpendInv
<1>1. CASE \A r \in Replicas : ~Persist(r)
    <2>1. spend' = spend /\ ScoredOf(n)' = ScoredOf(n)
        BY <1>1, PersistOnly DEF ScoredOf
    <2> QED
        BY <2>1 DEF SpendInv
<1>2. ASSUME NEW r \in Replicas, Persist(r) PROVE spend'[n] >= Cardinality(ScoredOf(n)')
    <2> DEFINE new == TracesOf(Of(samples[r], n))
    <2>1. PICK failed \in SUBSET samples[r] : scored' = scored \cup TracesOf(samples[r] \ failed)
        BY <1>2 DEF Persist
    <2>2. Of(samples[r], n) \in SUBSET Entries
        BY DEF Of, TypeInv
    <2>3. ASSUME NEW t \in ScoredOf(n)', t \notin ScoredOf(n) PROVE t \in new
        <3>1. PICK m \in Msgs : TraceOf[m] = t /\ TenantOf[m] = n
            BY <2>3 DEF ScoredOf
        <3>2. t \in scored' /\ t \notin scored
            BY <2>3, <3>1 DEF ScoredOf
        <3>3. PICK e \in samples[r] : Trace(e) = t
            BY <2>1, <3>2 DEF TracesOf
        <3>4. Msg(e) \in Msgs /\ TraceOf[Msg(e)] = t /\ Tenant(e) = TenantOf[Msg(e)]
            BY <3>3, EntryParts DEF TypeInv
        <3>5. Tenant(e) = n
            BY <3>1, <3>4, OneTenant
        <3> QED
            BY <3>3, <3>5 DEF Of, TracesOf
    <2>4. ScoredOf(n)' \in SUBSET (ScoredOf(n) \cup new)
        BY <2>3
    <2>5. /\ IsFiniteSet(new) /\ Cardinality(new) \in Nat
          /\ Cardinality(new) <= Cardinality(Of(samples[r], n))
        BY <2>2, TracesAreFewer
    <2> HIDE DEF new
    <2>6. IsFiniteSet(ScoredOf(n)) /\ Cardinality(ScoredOf(n)) \in Nat
        BY FiniteEntries, FS_Subset, FS_CardinalityType DEF ScoredOf, TypeInv
    <2>7. /\ IsFiniteSet(ScoredOf(n) \cup new)
          /\ Cardinality(ScoredOf(n) \cup new)
               = Cardinality(ScoredOf(n)) + Cardinality(new) - Cardinality(ScoredOf(n) \cap new)
        BY <2>5, <2>6, FS_Union
    <2>8. Cardinality(ScoredOf(n) \cap new) \in Nat
        BY <2>6, FS_Intersection, FS_CardinalityType
    <2>9. /\ Cardinality(ScoredOf(n)') <= Cardinality(ScoredOf(n) \cup new)
          /\ Cardinality(ScoredOf(n)') \in Nat
        BY <2>4, <2>7, FS_Subset, FS_CardinalityType
    <2>10. /\ spend'[n] = spend[n] + Cardinality(Of(samples[r], n))
           /\ spend[n] \in Nat /\ Cardinality(Of(samples[r], n)) \in Nat
        BY <1>2, <2>2, SpendType, SizeType DEF Persist, TypeInv
    <2>11. spend[n] >= Cardinality(ScoredOf(n))
        BY DEF SpendInv
    <2> QED
        BY <2>5, <2>6, <2>7, <2>8, <2>9, <2>10, <2>11
<1> QED
    BY <1>1, <1>2

-------------------------------------------------------------------------------
(* Theorems                                                                *)

\* The invariant has its parts proved one on another.
EvalInv ==
    /\ TypeInv /\ HandInv /\ LateInv
    /\ StatusInv /\ AckInv /\ SettledInv
    /\ ApartInv /\ BillInv /\ SpendInv

LEMMA InitEval == Init => EvalInv
<1> SUFFICES ASSUME Init PROVE EvalInv
    OBVIOUS
<1>1. TypeInv /\ HandInv /\ SpendInv
    BY InitType, InitHands, InitSpend
<1>2. LateInv
    BY DEF Init, LateInv, LateOf, Of
<1>3. StatusInv /\ AckInv /\ SettledInv
    <2>1. AskedAtEnd \subseteq Traces
        BY EvalAssumption DEF Traces
    <2> QED
        BY <2>1 DEF Init, StatusInv, AckInv, AckOf, SettledInv
<1>4. ApartInv
    BY DEF Init, ApartInv, InHand
<1>5. BillInv
    <2> SUFFICES ASSUME NEW t \in Traces
                 PROVE  billed[t] + Cardinality(Pending(t)) <= Cardinality(Deliveries(t))
        BY DEF BillInv
    <2>1. Pending(t) = {} /\ billed[t] = 0
        BY DEF Init, Pending, Unbilled
    <2>2. Cardinality(Deliveries(t)) \in Nat
        BY BillSets, SizeType
    <2> QED
        BY <2>1, <2>2, FS_EmptySet
<1> QED
    BY <1>1, <1>2, <1>3, <1>4, <1>5 DEF EvalInv

LEMMA EvalStep == EvalInv /\ [Next]_vars => EvalInv'
BY TypeStep, HandStep, LateStep, StatusStep, AckStep, SettledStep, ApartStep, BillStep, SpendStep
   DEF EvalInv

LEMMA EvalAlways == Spec => []EvalInv
BY InitEval, EvalStep, PTL DEF Spec

\* HeldIsInHand: the held set of a replica is what it has in hand, each message
\* once, so no redelivery is passed over for a message nobody works on.
THEOREM HeldExactly == Spec => []HeldIsInHand
<1>1. EvalInv => HeldIsInHand
    BY DEF EvalInv, HandInv, HandOf, HeldOf, HeldIsInHand
<1> QED
    BY <1>1, EvalAlways, PTL

\* OneLateCall: whatever the cap and however many replicas share it, each calls
\* the judge for a tenant at most once after its total has reached the cap.
THEOREM CapBinds == Spec => []OneLateCall
<1>1. EvalInv => OneLateCall
    BY DEF EvalInv, LateInv, LateOf, OneLateCall
<1> QED
    BY <1>1, EvalAlways, PTL

\* SettledIsGraded: a message is acked only when its trace has its answer, or was
\* written off: not stored in time, or its end stored and its question not yet.
THEOREM AcksAreEarned == Spec => []SettledIsGraded
<1>1. ASSUME EvalInv, NEW m \in settled \ givenUp
      PROVE  \/ TraceOf[m] \in scored \cup missed
             \/ TenantOf[m] \in alerted
             \/ TraceOf[m] \notin Gradable
    <2>1. Final(TraceOf[m]) /\ m \in Msgs
        BY <1>1 DEF EvalInv, SettledInv, TypeInv
    <2> QED
        BY <2>1, OneTenant DEF Final
<1>2. EvalInv => SettledIsGraded
    BY <1>1 DEF SettledIsGraded
<1> QED
    BY <1>2, EvalAlways, PTL

\* ScoresArePaidFor: what is stored is in the tenant's total, and a trace is sent
\* to the judge no more often than its messages were delivered.
THEOREM EveryScoreIsPaid == Spec => []ScoresArePaidFor
<1>1. ASSUME EvalInv, NEW t \in Traces PROVE billed[t] <= Cardinality(Deliveries(t))
    <2>1. /\ Cardinality(Pending(t)) \in Nat /\ Cardinality(Deliveries(t)) \in Nat
          /\ billed[t] \in Nat
        BY <1>1, BillSets, SizeType DEF EvalInv, TypeInv
    <2>2. billed[t] + Cardinality(Pending(t)) <= Cardinality(Deliveries(t))
        BY <1>1 DEF EvalInv, BillInv
    <2> QED
        BY <2>1, <2>2
<1>2. EvalInv => ScoresArePaidFor
    BY <1>1 DEF EvalInv, SpendInv, ScoredOf, Deliveries, ScoresArePaidFor
<1> QED
    BY <1>2, EvalAlways, PTL

===============================================================================
