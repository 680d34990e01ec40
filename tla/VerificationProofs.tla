------------------------- MODULE VerificationProofs -------------------------
(***************************************************************************)
(* What a verdict of compare.py says about the kernels, for every program, *)
(* every table that a compiler can write for it, every set of faulty       *)
(* kernels, and any number of runs into the same directories.              *)
(***************************************************************************)
EXTENDS Verification, Inductions, FiniteSetTheorems

-----------------------------------------------------------------------------
(* Least and greatest numbers. *)

LEMMA GreatestOf ==
  ASSUME NEW n \in Nat, NEW T \in SUBSET (1..n), T # {}
  PROVE  \E i \in T : \A j \in T : j <= i
<1> DEFINE U == {k \in 0..n : n - k \in T}
<1>1. U \subseteq Nat
  OBVIOUS
<1>2. \A i \in T : n - i \in U
  <2> TAKE i \in T
  <2>1. i \in 1..n /\ n - i \in 0..n /\ n - (n - i) = i
    OBVIOUS
  <2> QED
    BY <2>1
<1>3. PICK k \in U : \A m \in U : k <= m
  BY <1>1, <1>2, LeastOf
<1>4. k \in 0..n /\ n - k \in T
  OBVIOUS
<1>5. ASSUME NEW j \in T
      PROVE  j <= n - k
  <2>1. j \in 1..n /\ k <= n - j
    BY <1>2, <1>3
  <2> QED
    BY <1>4, <2>1
<1> QED
  BY <1>4, <1>5
-----------------------------------------------------------------------------
(* The order in which compare.py goes through the tensors. *)

LEMMA TableFinite ==
  ASSUME WellFormed
  PROVE  /\ Len(table) \in Nat /\ Len(program) \in Nat
         /\ DOMAIN table = 1..Len(table) /\ DOMAIN program = 1..Len(program)
         /\ Produced \subseteq 1..Len(table)
         /\ IsFiniteSet(Produced) /\ Cardinality(Produced) \in Nat
         /\ \A i \in DOMAIN table : table[i].producer \in 0..Len(program)
         /\ \A i \in Produced : table[i].producer \in 1..Len(program)
<1>1. /\ Len(table) \in Nat /\ Len(program) \in Nat
      /\ DOMAIN table = 1..Len(table) /\ DOMAIN program = 1..Len(program)
      /\ \A i \in DOMAIN table : table[i].producer \in 0..Len(program)
  BY DEF WellFormed
<1>2. Produced \subseteq 1..Len(table)
  BY <1>1 DEF Produced
<1>3. IsFiniteSet(1..Len(table))
  BY <1>1, FS_Interval
<1>4. IsFiniteSet(Produced) /\ Cardinality(Produced) \in Nat
  BY <1>2, <1>3, FS_Subset, FS_CardinalityType
<1>5. \A i \in Produced : table[i].producer \in 1..Len(program)
  BY <1>1 DEF Produced
<1> QED
  BY <1>1, <1>2, <1>4, <1>5

(* Counting the tensors before it numbers the tensors without gaps, in the
   order of their producers. *)
LEMMA RanksNumber ==
  ASSUME WellFormed
  PROVE  /\ \A i, j \in Produced : Before(i, j) => Rank(i) < Rank(j)
         /\ \A i, j \in Produced : Rank(i) = Rank(j) => i = j
         /\ \A j \in Produced : Rank(j) \in 0..Cardinality(Produced) - 1
         /\ \A k \in 0..Cardinality(Produced) - 1 : \E j \in Produced : Rank(j) = k
<1> DEFINE n == Cardinality(Produced)
           Upto(j) == {i \in Produced : Before(i, j)}
<1>1. /\ IsFiniteSet(Produced) /\ n \in Nat
      /\ \A i \in Produced : i \in Int /\ table[i].producer \in Int
  BY TableFinite
<1>2. \A j : IsFiniteSet(Upto(j)) /\ Cardinality(Upto(j)) \in Nat
  BY <1>1, FS_Subset, FS_CardinalityType
<1>3. /\ \A i \in Produced : ~Before(i, i)
      /\ \A i, j, k \in Produced : Before(i, j) /\ Before(j, k) => Before(i, k)
      /\ \A i, j \in Produced : i = j \/ Before(i, j) \/ Before(j, i)
  BY <1>1 DEF Before
<1>4. ASSUME NEW i \in Produced, NEW j \in Produced, Before(i, j)
      PROVE  Rank(i) < Rank(j)
  <2>1. Upto(i) \subseteq Upto(j) /\ i \in Upto(j) /\ i \notin Upto(i)
    BY <1>3, <1>4
  <2>2. /\ Cardinality(Upto(i)) <= Cardinality(Upto(j))
        /\ Cardinality(Upto(j)) = Cardinality(Upto(i)) => Upto(j) = Upto(i)
    BY <1>2, <2>1, FS_Subset
  <2>3. Cardinality(Upto(i)) # Cardinality(Upto(j))
    BY <2>1, <2>2
  <2> HIDE DEF Upto
  <2>4. Cardinality(Upto(i)) < Cardinality(Upto(j))
    BY <1>2, <2>2, <2>3
  <2> QED
    BY <2>4 DEF Upto, Rank
<1>5. ASSUME NEW j \in Produced
      PROVE  Rank(j) \in 0..n - 1
  <2>1. Upto(j) \subseteq Produced /\ j \notin Upto(j)
    BY <1>3
  <2>2. /\ Cardinality(Upto(j)) <= n
        /\ n = Cardinality(Upto(j)) => Produced = Upto(j)
    BY <1>1, <2>1, FS_Subset
  <2>3. n # Cardinality(Upto(j))
    BY <2>1, <2>2
  <2> HIDE DEF Upto, n
  <2>4. Cardinality(Upto(j)) \in 0..n - 1
    BY <1>1, <1>2, <2>2, <2>3
  <2> QED
    BY <2>4 DEF Upto, Rank
<1>6. ASSUME NEW i \in Produced, NEW j \in Produced, Rank(i) = Rank(j)
      PROVE  i = j
  <2>1. Rank(i) \in Int
    BY <1>5
  <2> QED
    BY <1>3, <1>4, <1>6, <2>1
<1> DEFINE f == [j \in Produced |-> Rank(j)]
<1>7. f \in Injection(Produced, 0..n - 1)
  BY <1>5, <1>6 DEF Injection, IsInjective
<1>8. IsFiniteSet(0..n - 1) /\ Cardinality(0..n - 1) = n
  <2> HIDE DEF n
  <2> QED
    BY <1>1, FS_Interval
<1>9. f \in Surjection(Produced, 0..n - 1)
  <2> HIDE DEF f
  <2> QED
    BY <1>7, <1>8, FS_Injection
<1>10. ASSUME NEW k \in 0..n - 1
       PROVE  \E j \in Produced : Rank(j) = k
  BY <1>9 DEF Surjection
<1> QED
  BY <1>4, <1>5, <1>6, <1>10

(* The tensors compared are those that some instruction produces, and a tensor
   compared earlier was not produced later. *)
LEMMA ActivationsSorted ==
  ASSUME WellFormed
  PROVE  /\ Len(Activations) = Cardinality(Produced) /\ Len(Activations) \in Nat
         /\ \A k \in 1..Len(Activations) : Activations[k] \in Exposed
         /\ \A t \in Exposed : \E k \in 1..Len(Activations) : Activations[k] = t
         /\ \A j, k \in 1..Len(Activations) :
              j < k => Activations[j].producer <= Activations[k].producer
<1> DEFINE n == Cardinality(Produced)
           Of(k) == CHOOSE j \in Produced : Rank(j) = k - 1
<1>1. n \in Nat /\ \A i \in Produced : i \in Int /\ table[i].producer \in Int
  BY TableFinite
<1>2. \A k \in 1..n : Activations[k] = table[Of(k)]
  BY DEF Activations
<1>3. Len(Activations) = n
  BY <1>1 DEF Activations
<1>4. \A k \in 1..n : Of(k) \in Produced /\ Rank(Of(k)) = k - 1
  <2> TAKE k \in 1..n
  <2>1. k - 1 \in 0..n - 1
    BY <1>1
  <2>2. \E j \in Produced : Rank(j) = k - 1
    BY <2>1, RanksNumber
  <2> QED
    BY <2>2
<1> HIDE DEF Of
<1>5. ASSUME NEW i \in Produced
      PROVE  \E k \in 1..n : Activations[k] = table[i]
  <2>1. Rank(i) \in 0..n - 1
    BY RanksNumber
  <2>2. Rank(i) + 1 \in 1..n /\ (Rank(i) + 1) - 1 = Rank(i)
    BY <1>1, <2>1
  <2>3. Of(Rank(i) + 1) = i
    BY <1>4, <2>2, RanksNumber
  <2> QED
    BY <1>2, <2>2, <2>3
<1>6. ASSUME NEW j \in 1..n, NEW k \in 1..n, j < k
      PROVE  Activations[j].producer <= Activations[k].producer
  <2>1. /\ Of(j) \in Produced /\ Of(k) \in Produced
        /\ Rank(Of(j)) = j - 1 /\ Rank(Of(k)) = k - 1
    BY <1>4
  <2>2. ~Before(Of(k), Of(j))
    <3>1. ~(Rank(Of(k)) < Rank(Of(j)))
      BY <2>1, <1>6, <1>1
    <3> QED
      BY <2>1, <3>1, RanksNumber
  <2>3. table[Of(j)].producer <= table[Of(k)].producer
    BY <1>1, <2>1, <2>2 DEF Before
  <2> QED
    BY <1>2, <2>3
<1> QED
  BY <1>1, <1>2, <1>3, <1>4, <1>5, <1>6 DEF Exposed

-----------------------------------------------------------------------------
(* What an instruction makes, and of what. *)

Makes(k) == ToSet(program[k].out)

LEMMA MadeOnce ==
  ASSUME WellFormed
  PROVE  /\ \A t \in Exposed : /\ t.producer \in 1..Len(program) /\ t.id # NONE
                              /\ t.id \in Makes(t.producer) /\ t \in ToSet(table)
         /\ \A k \in 1..Len(program) : \A n \in Makes(k) :
              \E t \in Exposed : t.id = n /\ t.producer = k
         /\ \A t, u \in ToSet(table) : t.id = u.id => t = u
         /\ \A j, k \in 1..Len(program) : \A n : n \in Makes(j) /\ n \in Makes(k) => j = k
<1>1. /\ DOMAIN program = 1..Len(program) /\ Produced \subseteq DOMAIN table
      /\ \A i \in Produced : table[i].producer \in 1..Len(program)
  BY TableFinite DEF Produced
<1>2. \A k \in 1..Len(program) : Makes(k) = {t.id : t \in {u \in Exposed : u.producer = k}}
  BY <1>1 DEF WellFormed, Makes
<1>3. \A i \in DOMAIN table : table[i].id # NONE
  <2>1. \A e \in Entry : e.id # NONE
    BY DEF Entry
  <2>2. \A i \in DOMAIN table : table[i] \in Entry
    BY DEF WellFormed
  <2> QED
    BY <2>1, <2>2
<1>4. \A t \in Exposed : /\ t.producer \in 1..Len(program) /\ t.id # NONE
                        /\ t \in ToSet(table)
  BY <1>1, <1>3 DEF Exposed, ToSet
<1>5. \A t, u \in ToSet(table) : t.id = u.id => t = u
  BY DEF WellFormed, ToSet
<1>6. \A t \in Exposed : t.id \in Makes(t.producer)
  BY <1>2, <1>4
<1>7. \A k \in 1..Len(program) : \A n \in Makes(k) :
        \E t \in Exposed : t.id = n /\ t.producer = k
  BY <1>2
<1>8. ASSUME NEW j \in 1..Len(program), NEW k \in 1..Len(program), NEW n,
             n \in Makes(j), n \in Makes(k)
      PROVE  j = k
  <2>1. PICK t \in Exposed : t.id = n /\ t.producer = j
    BY <1>7, <1>8
  <2>2. PICK u \in Exposed : u.id = n /\ u.producer = k
    BY <1>7, <1>8
  <2> QED
    BY <1>4, <1>5, <2>1, <2>2
<1> QED
  BY <1>4, <1>5, <1>6, <1>7, <1>8

(* A wrong value has a faulty kernel at or before the one that computed it, and
   every faulty kernel that has run has left a wrong value. *)
MemoryInv ==
  /\ pc \in 1..Len(program) + 1
  /\ \A n \in DOMAIN memory : /\ memory[n] \in {"right", "wrong"}
                             /\ \E k \in 1..pc - 1 : n \in Makes(k)
  /\ \A k \in 1..pc - 1 : \A n \in Makes(k) :
       n \in DOMAIN memory /\ (memory[n] = "wrong" => \E i \in faulty : i <= k)
  /\ \A k \in faulty : k < pc => \E n \in Makes(k) : memory[n] = "wrong"

(* What this run dumped is what it computed. *)
FreshInv ==
  /\ fresh \subseteq DOMAIN memory /\ fresh \subseteq DOMAIN dumpDir
  /\ \A n \in fresh : dumpDir[n] = memory[n]

(* Under every file name is the reference of one of the tensors with that name. *)
ReferenceInv ==
  phase # "reference" =>
    /\ DOMAIN reference = {Safe(t.name) : t \in Exposed}
    /\ \A t \in Exposed : \E u \in Exposed : /\ Safe(u.name) = Safe(t.name)
                                            /\ reference[Safe(t.name)] = u.name

(* A tensor at one of the first k places that compare.py looked at. *)
Compared(k) == \E j \in 1..k : OnBothSides(Activations[j])
Disagrees(j) == OnBothSides(Activations[j]) /\ ~Agree(Activations[j])

TallyInv ==
  /\ phase \in {"reference", "run", "compare", "pass", "fail", "raised"}
  /\ next \in 1..Len(Activations) + 1 /\ checked \in Nat /\ passed \in 0..checked
  /\ phase \in {"reference", "run"} =>
       next = 1 /\ checked = 0 /\ passed = 0 /\ firstFailure = NONE
  /\ checked = 0 <=> ~Compared(next - 1)
  /\ passed = checked <=> \A j \in 1..next - 1 : ~Disagrees(j)
  /\ firstFailure = NONE <=> \A j \in 1..next - 1 : ~Disagrees(j)
  /\ firstFailure # NONE =>
       \E k \in 1..next - 1 : /\ Disagrees(k) /\ firstFailure = Activations[k].id
                              /\ \A j \in 1..k - 1 : ~Disagrees(j)
  /\ phase = "pass" => next = Len(Activations) + 1 /\ passed = checked /\ checked > 0
  /\ phase = "fail" => next = Len(Activations) + 1 /\ ~(passed = checked /\ checked > 0)

VerdictInv == WellFormed /\ MemoryInv /\ FreshInv /\ ReferenceInv /\ TallyInv

-----------------------------------------------------------------------------
(* The invariant is preserved. *)

LEMMA StartEstablishes ==
  ASSUME Start
  PROVE  VerdictInv
<1>1. WellFormed /\ Len(program) \in Nat /\ Len(Activations) \in Nat
  BY TableFinite, ActivationsSorted DEF Start
<1>2. MemoryInv
  BY <1>1, TableFinite DEF Start, MemoryInv, WellFormed
<1>3. FreshInv /\ ReferenceInv
  BY DEF Start, FreshInv, ReferenceInv
<1>4. TallyInv
  <2>1. phase = "reference" /\ next = 1 /\ checked = 0 /\ passed = 0 /\ firstFailure = NONE
    BY DEF Start
  <2>2. 1..next - 1 = {}
    BY <2>1
  <2>3. ~Compared(next - 1)
    BY <2>2 DEF Compared
  <2> QED
    BY <1>1, <2>1, <2>2, <2>3 DEF TallyInv
<1> QED
  BY <1>1, <1>2, <1>3, <1>4 DEF VerdictInv

(* The model does not change, nor do the sets that it defines. *)
LEMMA ModelStands ==
  ASSUME UNCHANGED model
  PROVE  /\ Exposed' = Exposed /\ Activations' = Activations
         /\ \A k : Makes(k)' = Makes(k)
         /\ WellFormed /\ faulty' \subseteq faulty => WellFormed'
<1>1. program' = program /\ table' = table
  BY DEF model
<1>2. Produced' = Produced
  BY <1>1 DEF Produced
<1>3. Exposed' = Exposed
  BY <1>1, <1>2 DEF Exposed
<1>4. Activations' = Activations
  BY <1>1, <1>2 DEF Activations, Rank, Before
<1>5. \A k : Makes(k)' = Makes(k)
  BY <1>1 DEF Makes
<1>6. WellFormed /\ faulty' \subseteq faulty => WellFormed'
  BY <1>1, <1>2, <1>3 DEF WellFormed
<1> QED
  BY <1>3, <1>4, <1>5, <1>6

LEMMA FaultyOnlyShrinks ==
  ASSUME Next
  PROVE  UNCHANGED model /\ faulty' \subseteq faulty
BY DEF Next, DumpReference, ExecuteInstruction, RunEnds, Compare, CompareTensor, Exit,
       RepairAndRun, model

(* Executing an instruction. *)
LEMMA ExecutionKeepsBlame ==
  ASSUME WellFormed, MemoryInv, FreshInv, ExecuteInstruction
  PROVE  MemoryInv' /\ FreshInv'
<1>1. /\ pc \in 1..Len(program) /\ Len(program) \in Nat /\ pc' = pc + 1
      /\ faulty' = faulty /\ program' = program /\ faulty \subseteq 1..Len(program)
  BY TableFinite DEF ExecuteInstruction, MemoryInv, model, WellFormed
<1>2. PICK wrong \in SUBSET Makes(pc), written \in SUBSET Makes(pc) :
        LET Value(id) == IF id \in wrong THEN "wrong" ELSE "right"
        IN  /\ pc \in faulty => wrong # {}
            /\ pc \notin faulty /\ (\A id \in ToSet(program[pc].in) : Right(id)) => wrong = {}
            /\ memory' = [id \in DOMAIN memory \cup Makes(pc) |->
                            IF id \in Makes(pc) THEN Value(id) ELSE memory[id]]
            /\ dumpDir' = [id \in DOMAIN dumpDir \cup written |->
                             IF id \in written THEN Value(id) ELSE dumpDir[id]]
            /\ fresh' = fresh \cup written
  BY DEF ExecuteInstruction, Makes
<1> DEFINE old == DOMAIN memory
<1>3. \A k : Makes(k)' = Makes(k)
  BY <1>1 DEF Makes
<1>4. \A k \in 1..pc - 1 : \A n \in Makes(k) : n \notin Makes(pc)
  BY <1>1, MadeOnce
<1>5. \A n \in old : n \notin Makes(pc)
  BY <1>4 DEF MemoryInv
<1>6. /\ DOMAIN memory' = old \cup Makes(pc)
      /\ \A n \in Makes(pc) : memory'[n] = IF n \in wrong THEN "wrong" ELSE "right"
      /\ \A n \in old : memory'[n] = memory[n]
  BY <1>2, <1>5
<1>7. wrong # {} => \E i \in faulty : i <= pc
  <2>1. CASE pc \in faulty
    BY <2>1, <1>1
  <2>2. CASE pc \notin faulty /\ wrong # {}
    <3>1. PICK id \in ToSet(program[pc].in) : ~Right(id)
      BY <1>2, <2>2
    <3>2. id \in DOMAIN memory /\ memory[id] = "wrong"
      BY <3>1 DEF Right, MemoryInv
    <3>3. PICK k \in 1..pc - 1 : id \in Makes(k)
      BY <3>2 DEF MemoryInv
    <3>4. PICK i \in faulty : i <= k
      BY <3>2, <3>3 DEF MemoryInv
    <3> QED
      BY <1>1, <3>3, <3>4
  <2> QED
    BY <2>1, <2>2
<1>8. 1..pc' - 1 = (1..pc - 1) \cup {pc} /\ pc' \in 1..Len(program) + 1
  BY <1>1
<1>9. MemoryInv'
  <2>1. \A n \in DOMAIN memory' : /\ memory'[n] \in {"right", "wrong"}
                                /\ \E k \in 1..pc' - 1 : n \in Makes(k)
    BY <1>6, <1>8 DEF MemoryInv
  <2>2. ASSUME NEW k \in 1..pc' - 1, NEW n \in Makes(k)
        PROVE  /\ n \in DOMAIN memory'
               /\ memory'[n] = "wrong" => \E i \in faulty : i <= k
    <3>1. CASE k = pc
      BY <3>1, <2>2, <1>6, <1>7
    <3>2. CASE k \in 1..pc - 1
      BY <3>2, <2>2, <1>6 DEF MemoryInv
    <3> QED
      BY <1>8, <3>1, <3>2
  <2>3. ASSUME NEW k \in faulty, k < pc'
        PROVE  \E n \in Makes(k) : memory'[n] = "wrong"
    <3>1. CASE k = pc
      BY <3>1, <2>3, <1>2, <1>6
    <3>2. CASE k # pc
      <4>1. k \in 1..pc - 1
        BY <1>1, <2>3, <3>2
      <4>2. PICK n \in Makes(k) : memory[n] = "wrong"
        BY <4>1 DEF MemoryInv
      <4>3. n \in old
        BY <4>1 DEF MemoryInv
      <4> QED
        BY <1>6, <4>2, <4>3
    <3> QED
      BY <3>1, <3>2
  <2> QED
    BY <1>1, <1>3, <1>8, <2>1, <2>2, <2>3 DEF MemoryInv
<1>10. FreshInv'
  <2>1. /\ DOMAIN dumpDir' = DOMAIN dumpDir \cup written
        /\ \A n \in written : dumpDir'[n] = memory'[n]
        /\ \A n \in DOMAIN dumpDir : n \notin written => dumpDir'[n] = dumpDir[n]
    BY <1>2
  <2> QED
    BY <1>2, <1>5, <1>6, <2>1 DEF FreshInv
<1> QED
  BY <1>9, <1>10

(* Nothing else that happens while a program runs or is compared touches what
   the program has computed, and a repair starts from nothing. *)
LEMMA BlameStays ==
  ASSUME VerdictInv, Next
  PROVE  MemoryInv' /\ FreshInv'
<1>1. /\ UNCHANGED model /\ Len(program) \in Nat
      /\ \A k : Makes(k)' = Makes(k)
  BY FaultyOnlyShrinks, ModelStands, TableFinite DEF VerdictInv
<1>2. program' = program
  BY <1>1 DEF model
<1>3. CASE ExecuteInstruction
  BY <1>3, ExecutionKeepsBlame DEF VerdictInv
<1>4. CASE RepairAndRun
  <2>1. memory' = <<>> /\ pc' = 1 /\ fresh' = {} /\ faulty' \subseteq faulty
    BY <1>4 DEF RepairAndRun
  <2>2. faulty' \subseteq 1..Len(program)
    BY <2>1, TableFinite DEF VerdictInv, WellFormed
  <2> QED
    BY <1>1, <1>2, <2>1, <2>2 DEF MemoryInv, FreshInv
<1>5. CASE DumpReference \/ RunEnds \/ Compare
  <2>1. UNCHANGED <<memory, pc, faulty, fresh, dumpDir>>
    BY <1>5 DEF DumpReference, RunEnds, Compare, CompareTensor, Exit, verdict
  <2> QED
    BY <1>1, <1>2, <2>1 DEF VerdictInv, MemoryInv, FreshInv
<1> QED
  BY <1>3, <1>4, <1>5 DEF Next

LEMMA ReferencesStay ==
  ASSUME VerdictInv, Next
  PROVE  ReferenceInv'
<1>1. /\ Exposed' = Exposed /\ Len(table) \in Nat
      /\ Produced \subseteq 1..Len(table) /\ IsFiniteSet(Produced)
  BY FaultyOnlyShrinks, ModelStands, TableFinite DEF VerdictInv
<1>2. CASE DumpReference
  <2> DEFINE Writers(f) == {i \in Produced : Safe(table[i].name) = f}
             Newest(f) == CHOOSE i \in Writers(f) : \A j \in Writers(f) : j <= i
  <2>1. reference' = [f \in {Safe(t.name) : t \in Exposed} |-> table[Newest(f)].name]
    BY <1>2 DEF DumpReference
  <2>2. ASSUME NEW t \in Exposed
        PROVE  \E u \in Exposed : /\ Safe(u.name) = Safe(t.name)
                                /\ reference'[Safe(t.name)] = u.name
    <3> DEFINE f == Safe(t.name)
    <3>1. Writers(f) # {} /\ Writers(f) \subseteq 1..Len(table)
      BY <1>1 DEF Exposed
    <3>2. \E i \in Writers(f) : \A j \in Writers(f) : j <= i
      <4> DEFINE W == Writers(f)
      <4> HIDE DEF W
      <4>1. W # {} /\ W \subseteq 1..Len(table)
        BY <3>1 DEF W
      <4>2. \E i \in W : \A j \in W : j <= i
        BY <4>1, <1>1, GreatestOf
      <4> QED
        BY <4>2 DEF W
    <3>3. Newest(f) \in Writers(f)
      BY <3>2
    <3> HIDE DEF Newest
    <3>4. table[Newest(f)] \in Exposed /\ Safe(table[Newest(f)].name) = f
      BY <3>3 DEF Exposed
    <3>5. reference'[f] = table[Newest(f)].name
      BY <2>1
    <3> QED
      BY <3>4, <3>5
  <2>3. DOMAIN reference' = {Safe(t.name) : t \in Exposed}
    BY <2>1
  <2> QED
    BY <1>1, <2>2, <2>3 DEF ReferenceInv
<1>3. CASE ~DumpReference
  <2>1. reference' = reference /\ phase # "reference" /\ phase' # "reference"
    BY <1>3 DEF Next, ExecuteInstruction, RunEnds, Compare, CompareTensor, Exit, Verdict,
                RepairAndRun
  <2> QED
    BY <1>1, <2>1 DEF VerdictInv, ReferenceInv
<1> QED
  BY <1>2, <1>3

(* The tallies while compare.py runs: the directories stand still. *)
LEMMA ComparisonTallies ==
  ASSUME VerdictInv, CompareTensor
  PROVE  TallyInv'
<1> DEFINE n == Len(Activations)
           t == Activations[next]
<1>1. /\ phase = "compare" /\ next \in 1..n /\ n \in Nat /\ Activations' = Activations
      /\ \A j : OnBothSides(Activations[j])' = OnBothSides(Activations[j])
      /\ \A j : Disagrees(j)' = Disagrees(j)
  <2>1. UNCHANGED <<model, dumpDir, reference>>
    BY DEF CompareTensor
  <2>2. Activations' = Activations
    BY <2>1, ModelStands
  <2>3. \A j : OnBothSides(Activations[j])' = OnBothSides(Activations[j])
    BY <2>1, <2>2 DEF OnBothSides
  <2>4. \A j : Agree(Activations[j])' = Agree(Activations[j])
    BY <2>1, <2>2 DEF Agree
  <2> QED
    BY <2>2, <2>3, <2>4, ActivationsSorted
       DEF CompareTensor, VerdictInv, TallyInv, Disagrees
<1>2. \A k : Compared(k)' = Compared(k)
  BY <1>1 DEF Compared
<1>3. TallyInv
  BY DEF VerdictInv
<1>4. CASE phase' = "raised" /\ UNCHANGED verdict
  BY <1>1, <1>2, <1>3, <1>4 DEF TallyInv, verdict
<1>5. CASE /\ phase' = phase /\ next' = next + 1
           /\ ~OnBothSides(t) /\ UNCHANGED <<checked, passed, firstFailure>>
  <2>1. 1..next' - 1 = (1..next - 1) \cup {next}
    BY <1>1, <1>5
  <2>2. ~Disagrees(next)
    BY <1>5 DEF Disagrees
  <2>3. Compared(next' - 1) <=> Compared(next - 1)
    BY <1>5, <2>1 DEF Compared
  <2>4. Compared(next - 1)' <=> Compared(next - 1)
    BY <1>2, <2>3
  <2>5. (\A j \in 1..next' - 1 : ~Disagrees(j)) <=> \A j \in 1..next - 1 : ~Disagrees(j)
    BY <2>1, <2>2
  <2>6. next' \in 1..n + 1
    BY <1>1, <1>5
  <2>7. /\ checked' = 0 <=> ~Compared(next - 1)'
        /\ passed' = checked' <=> \A j \in 1..next' - 1 : ~Disagrees(j)
        /\ firstFailure' = NONE <=> \A j \in 1..next' - 1 : ~Disagrees(j)
    BY <1>3, <1>5, <2>4, <2>5 DEF TallyInv
  <2>8. firstFailure' # NONE =>
          \E k \in 1..next' - 1 : /\ Disagrees(k) /\ firstFailure' = Activations[k].id
                                  /\ \A j \in 1..k - 1 : ~Disagrees(j)
    BY <1>3, <1>5, <2>1 DEF TallyInv
  <2> QED
    BY <1>1, <1>3, <1>5, <2>6, <2>7, <2>8 DEF TallyInv
<1>6. CASE /\ phase' = phase /\ next' = next + 1 /\ OnBothSides(t)
           /\ checked' = checked + 1
           /\ passed' = PassedAfter(t) /\ firstFailure' = FailureAfter(t)
  <2>1. 1..next' - 1 = (1..next - 1) \cup {next} /\ next \in 1..next' - 1
    BY <1>1, <1>6
  <2>2. checked \in Nat /\ passed \in 0..checked
    BY <1>3 DEF TallyInv
  <2>3. Compared(next - 1)'
    BY <1>1, <1>6, <2>1 DEF Compared
  <2>4. next' \in 1..n + 1
    BY <1>1, <1>6
  <2>5. t.id # NONE
    BY <1>1, ActivationsSorted, MadeOnce DEF VerdictInv
  <2>6. CASE Agree(t)
    <3>1. passed' = passed + 1 /\ firstFailure' = firstFailure /\ ~Disagrees(next)
      BY <1>6, <2>6 DEF PassedAfter, FailureAfter, Disagrees
    <3>2. passed' = checked' <=> passed = checked
      BY <1>6, <2>2, <3>1
    <3>3. (\A j \in 1..next' - 1 : ~Disagrees(j)) <=> \A j \in 1..next - 1 : ~Disagrees(j)
      BY <2>1, <3>1
    <3>4. /\ checked' \in Nat \ {0} /\ passed' \in 0..checked'
      BY <1>6, <2>2, <3>1
    <3>5. firstFailure' # NONE =>
            \E k \in 1..next' - 1 : /\ Disagrees(k) /\ firstFailure' = Activations[k].id
                                    /\ \A j \in 1..k - 1 : ~Disagrees(j)
      BY <1>3, <2>1, <3>1 DEF TallyInv
    <3>6. /\ passed' = checked' <=> \A j \in 1..next' - 1 : ~Disagrees(j)
          /\ firstFailure' = NONE <=> \A j \in 1..next' - 1 : ~Disagrees(j)
      BY <1>3, <3>1, <3>2, <3>3 DEF TallyInv
    <3> QED
      BY <1>1, <1>6, <2>3, <2>4, <3>4, <3>5, <3>6 DEF TallyInv
  <2>7. CASE ~Agree(t)
    <3>1. passed' = passed /\ Disagrees(next)
      BY <1>6, <2>7 DEF PassedAfter, Disagrees
    <3>2. ~\A j \in 1..next' - 1 : ~Disagrees(j)
      BY <2>1, <3>1
    <3>3. checked' \in Nat \ {0} /\ passed' \in 0..checked' /\ passed' # checked'
      BY <1>6, <2>2, <3>1
    <3>4. firstFailure' # NONE
      BY <1>6, <2>5, <2>7 DEF FailureAfter
    <3>5. \E k \in 1..next' - 1 : /\ Disagrees(k) /\ firstFailure' = Activations[k].id
                                  /\ \A j \in 1..k - 1 : ~Disagrees(j)
      <4>1. CASE firstFailure = NONE
        <5>1. firstFailure' = t.id
          BY <1>6, <2>7, <4>1 DEF FailureAfter
        <5>2. \A j \in 1..next - 1 : ~Disagrees(j)
          BY <1>3, <4>1 DEF TallyInv
        <5> QED
          BY <2>1, <3>1, <5>1, <5>2
      <4>2. CASE firstFailure # NONE
        <5>1. firstFailure' = firstFailure
          BY <1>6, <4>2 DEF FailureAfter
        <5> QED
          BY <1>3, <2>1, <4>2, <5>1 DEF TallyInv
      <4> QED
        BY <4>1, <4>2
    <3> QED
      BY <1>1, <1>6, <2>3, <2>4, <3>2, <3>3, <3>4, <3>5 DEF TallyInv
  <2> QED
    BY <2>6, <2>7
<1> QED
  BY <1>4, <1>5, <1>6 DEF CompareTensor, NextAfter, CheckedAfter

LEMMA TalliesStay ==
  ASSUME VerdictInv, Next
  PROVE  TallyInv'
<1>1. Activations' = Activations /\ Len(Activations) \in Nat /\ TallyInv
  BY FaultyOnlyShrinks, ModelStands, ActivationsSorted DEF VerdictInv
<1>2. CASE CompareTensor
  BY <1>2, ComparisonTallies
<1>3. CASE DumpReference \/ ExecuteInstruction \/ RepairAndRun
  <2>1. /\ next' = 1 /\ checked' = 0 /\ passed' = 0 /\ firstFailure' = NONE
        /\ phase' = "run"
    BY <1>1, <1>3
       DEF DumpReference, ExecuteInstruction, RepairAndRun, TallyInv, verdict
  <2>2. 1..next' - 1 = {}
    BY <2>1
  <2>3. ~Compared(next - 1)'
    BY <2>2 DEF Compared
  <2> QED
    BY <1>1, <2>1, <2>2, <2>3 DEF TallyInv
<1>4. CASE RunEnds \/ Exit
  <2>1. UNCHANGED <<model, dumpDir, reference, verdict>>
    BY <1>4 DEF RunEnds, Exit
  <2>2. \A j : Disagrees(j)' = Disagrees(j)
    BY <1>1, <2>1 DEF Disagrees, OnBothSides, Agree
  <2>3. Compared(next - 1)' = Compared(next - 1)
    BY <1>1, <2>1 DEF Compared, OnBothSides, verdict
  <2>4. \/ phase' = "compare"
        \/ /\ next = Len(Activations) + 1
           /\ phase' = IF passed = checked /\ checked > 0 THEN "pass" ELSE "fail"
    BY <1>4 DEF RunEnds, Exit, Verdict
  <2> QED
    BY <1>1, <2>1, <2>2, <2>3, <2>4 DEF TallyInv, verdict
<1> QED
  BY <1>2, <1>3, <1>4 DEF Next, Compare

LEMMA VerdictStep ==
  ASSUME VerdictInv, [Next]_vars
  PROVE  VerdictInv'
<1>1. CASE Next
  <2>1. WellFormed'
    BY <1>1, FaultyOnlyShrinks, ModelStands DEF VerdictInv
  <2> QED
    BY <1>1, <2>1, BlameStays, ReferencesStay, TalliesStay DEF VerdictInv
<1>2. CASE UNCHANGED vars
  <2>1. /\ UNCHANGED <<model, faulty, phase, reference, memory, dumpDir, pc, next, checked,
                       passed, firstFailure, fresh>>
        /\ program' = program
    BY <1>2 DEF vars, model
  <2>2. /\ WellFormed' /\ Exposed' = Exposed /\ Activations' = Activations
        /\ \A k : Makes(k)' = Makes(k)
    BY <2>1, ModelStands DEF VerdictInv
  <2>3. /\ \A j : Disagrees(j)' = Disagrees(j)
        /\ Compared(next - 1)' = Compared(next - 1)
    BY <2>1, <2>2 DEF Disagrees, Compared, OnBothSides, Agree
  <2>4. MemoryInv' /\ FreshInv'
    BY <2>1, <2>2 DEF VerdictInv, MemoryInv, FreshInv
  <2>5. ReferenceInv'
    BY <2>1, <2>2 DEF VerdictInv, ReferenceInv
  <2>6. TallyInv'
    BY <2>1, <2>2, <2>3 DEF VerdictInv, TallyInv
  <2> QED
    BY <2>2, <2>4, <2>5, <2>6 DEF VerdictInv
<1> QED
  BY <1>1, <1>2

LEMMA VerdictInvariant == Spec => []VerdictInv
<1>1. Start => VerdictInv
  BY StartEstablishes
<1> QED
  BY <1>1, VerdictStep, PTL DEF Spec
-----------------------------------------------------------------------------
(* What the verdict is worth. *)

(* On a conclusive run the comparison sees every tensor, and what it sees is
   whether the running program computed it right. *)
LEMMA ConclusiveRun ==
  ASSUME VerdictInv, Conclusive, phase \in {"pass", "fail"}
  PROVE  /\ \A k \in 1..Len(program) : \A n \in Makes(k) :
              \E j \in 1..Len(Activations) :
                /\ Activations[j].id = n /\ Activations[j].producer = k
                /\ Disagrees(j) <=> memory[n] # "right"
         /\ Compared(Len(Activations))
<1>1. /\ pc = Len(program) + 1 /\ Len(program) \in Nat /\ Len(Activations) \in Nat
      /\ \A t \in Exposed : t.id \in fresh /\ t.shapeKnown
  BY TableFinite, ActivationsSorted DEF Conclusive, Complete, VerdictInv
<1>2. \A t \in Exposed : /\ t.id \in DOMAIN dumpDir /\ Safe(t.name) \in DOMAIN reference
                        /\ dumpDir[t.id] = memory[t.id]
  BY <1>1 DEF VerdictInv, FreshInv, ReferenceInv
<1>3. \A t \in Exposed : reference[Safe(t.name)] = t.name
  BY DEF Conclusive, Distinct, VerdictInv, ReferenceInv
<1>4. \A j \in 1..Len(Activations) : Activations[j] \in Exposed
  BY ActivationsSorted DEF VerdictInv
<1>5. \A j \in 1..Len(Activations) :
        /\ OnBothSides(Activations[j])
        /\ Disagrees(j) <=> memory[Activations[j].id] # "right"
  BY <1>1, <1>2, <1>3, <1>4 DEF OnBothSides, Disagrees, Agree
<1>6. ASSUME NEW k \in 1..Len(program), NEW n \in Makes(k)
      PROVE  \E j \in 1..Len(Activations) :
                /\ Activations[j].id = n /\ Activations[j].producer = k
                /\ Disagrees(j) <=> memory[n] # "right"
  <2>1. PICK t \in Exposed : t.id = n /\ t.producer = k
    BY MadeOnce DEF VerdictInv
  <2>2. PICK j \in 1..Len(Activations) : Activations[j] = t
    BY ActivationsSorted DEF VerdictInv
  <2> QED
    BY <1>5, <2>1, <2>2
<1>7. Compared(Len(Activations))
  <2>1. PICK t \in Exposed : TRUE
    BY DEF VerdictInv, WellFormed, Exposed
  <2>2. PICK j \in 1..Len(Activations) : Activations[j] = t
    BY ActivationsSorted DEF VerdictInv
  <2> QED
    BY <1>5, <2>2 DEF Compared
<1> QED
  BY <1>6, <1>7

(* A run that went to its end and dumped everything, and passes, has no faulty
   kernel: every faulty kernel leaves a wrong output, every output is compared
   with its own reference, and one that disagrees is never forgotten by the
   tallies. *)
THEOREM PassIsSound == Spec => []PassMeansSound
<1>1. ASSUME VerdictInv
      PROVE  PassMeansSound
  <2> SUFFICES ASSUME phase = "pass", Conclusive, NEW k \in faulty
               PROVE  FALSE
    BY DEF PassMeansSound
  <2>1. /\ pc = Len(program) + 1 /\ Len(program) \in Nat /\ Len(Activations) \in Nat
        /\ k \in 1..Len(program)
    BY <1>1, TableFinite, ActivationsSorted DEF Conclusive, Complete, VerdictInv, WellFormed
  <2>2. PICK n \in Makes(k) : memory[n] = "wrong"
    BY <1>1, <2>1 DEF VerdictInv, MemoryInv
  <2>3. PICK j \in 1..Len(Activations) : Disagrees(j)
    BY <1>1, <2>1, <2>2, ConclusiveRun
  <2>4. \A i \in 1..Len(Activations) : ~Disagrees(i)
    BY <1>1, <2>1 DEF VerdictInv, TallyInv
  <2> QED
    BY <2>3, <2>4
<1> QED
  BY <1>1, VerdictInvariant, PTL

(* A conclusive failure names an output of the first faulty kernel: the tensors
   compared before it agree, so no earlier kernel left a wrong output, and a
   wrong value has a faulty kernel at or before its producer. *)
THEOREM FaultIsLocalised == Spec => []FaultLocalised
<1>1. ASSUME VerdictInv
      PROVE  FaultLocalised
  <2> SUFFICES ASSUME phase = "fail", Conclusive
               PROVE  /\ faulty # {}
                      /\ firstFailure \in
                           Makes(CHOOSE i \in faulty : \A j \in faulty : i <= j)
    BY DEF FaultLocalised, Makes
  <2> DEFINE n == Len(Activations)
  <2>1. /\ pc = Len(program) + 1 /\ Len(program) \in Nat /\ n \in Nat
        /\ faulty \subseteq 1..Len(program) /\ next - 1 = n
    BY <1>1, TableFinite, ActivationsSorted
       DEF Conclusive, Complete, VerdictInv, WellFormed, TallyInv
  <2>2. checked \in Nat /\ checked # 0 /\ passed # checked
    BY <1>1, <2>1, ConclusiveRun DEF VerdictInv, TallyInv
  <2>3. PICK k \in 1..n : /\ Disagrees(k) /\ firstFailure = Activations[k].id
                          /\ \A j \in 1..k - 1 : ~Disagrees(j)
    BY <1>1, <2>1, <2>2 DEF VerdictInv, TallyInv
  <2> DEFINE p == Activations[k].producer
  <2>4. p \in 1..Len(program) /\ firstFailure \in Makes(p)
    BY <1>1, <2>3, ActivationsSorted, MadeOnce DEF VerdictInv
  <2>5. memory[firstFailure] = "wrong"
    <3>1. PICK j \in 1..n : /\ Activations[j].id = firstFailure
                            /\ Disagrees(j) <=> memory[firstFailure] # "right"
      BY <1>1, <2>4, ConclusiveRun
    <3>2. Activations[j] = Activations[k]
      BY <1>1, <2>3, <3>1, ActivationsSorted, MadeOnce DEF VerdictInv
    <3>3. memory[firstFailure] # "right"
      BY <2>3, <3>1, <3>2 DEF Disagrees
    <3> QED
      BY <1>1, <2>1, <2>4, <3>3 DEF VerdictInv, MemoryInv
  <2>6. PICK i \in faulty : i <= p
    BY <1>1, <2>1, <2>4, <2>5 DEF VerdictInv, MemoryInv
  <2>7. \E l \in faulty : \A j \in faulty : l <= j
    <3>1. faulty \in SUBSET Nat /\ faulty # {}
      BY <2>1, <2>6
    <3> QED
      BY <3>1, LeastOf
  <2> DEFINE m == CHOOSE l \in faulty : \A j \in faulty : l <= j
  <2>8. m \in faulty /\ \A j \in faulty : m <= j
    BY <2>7
  <2> HIDE DEF m
  <2>9. PICK b \in Makes(m) : memory[b] = "wrong"
    BY <1>1, <2>1, <2>8 DEF VerdictInv, MemoryInv
  <2>10. PICK j \in 1..n : Activations[j].producer = m /\ Disagrees(j)
    BY <1>1, <2>1, <2>8, <2>9, ConclusiveRun
  <2>11. k <= j
    BY <2>1, <2>3, <2>10
  <2>12. p <= m
    <3>1. CASE k < j
      BY <1>1, <2>10, <3>1, ActivationsSorted DEF VerdictInv
    <3>2. CASE k = j
      BY <2>4, <2>10, <3>2
    <3> QED
      BY <2>1, <2>11, <3>1, <3>2
  <2>13. p = m
    <3>1. p \in Int /\ m \in Int /\ i \in Int /\ m <= i
      BY <2>1, <2>4, <2>6, <2>8
    <3> HIDE DEF p
    <3> QED
      BY <3>1, <2>6, <2>12
  <2> QED
    BY <2>4, <2>6, <2>13 DEF m
<1> QED
  BY <1>1, VerdictInvariant, PTL

(* However early a run stops and whichever dumps are lost or left over from an
   earlier run, a failure reported on a fresh dump has a faulty kernel at or
   before its producer. *)
THEOREM NoKernelIsAccused == Spec => []NoFalseAlarm
<1>1. ASSUME VerdictInv
      PROVE  NoFalseAlarm
  <2> DEFINE s == CHOOSE u \in ToSet(table) : u.id = firstFailure
  <2> SUFFICES ASSUME phase = "fail", firstFailure \in fresh, Distinct, s.shapeKnown
               PROVE  \E i \in faulty : i <= s.producer
    BY DEF NoFalseAlarm
  <2>1. firstFailure \in DOMAIN memory /\ dumpDir[firstFailure] = memory[firstFailure]
    BY <1>1 DEF VerdictInv, FreshInv
  <2>2. /\ Len(program) \in Nat /\ pc \in 1..Len(program) + 1
        /\ Len(Activations) \in Nat /\ next - 1 = Len(Activations)
    BY <1>1, TableFinite, ActivationsSorted DEF VerdictInv, MemoryInv, TallyInv
  <2>3. PICK l \in 1..pc - 1 : firstFailure \in Makes(l)
    BY <1>1, <2>1 DEF VerdictInv, MemoryInv
  <2>4. PICK t \in Exposed : t.id = firstFailure /\ t.producer = l
    BY <1>1, <2>2, <2>3, MadeOnce DEF VerdictInv
  <2>5. firstFailure # NONE
    BY <1>1, <2>4, MadeOnce DEF VerdictInv
  <2>6. PICK k \in 1..Len(Activations) :
          Disagrees(k) /\ firstFailure = Activations[k].id
    BY <1>1, <2>2, <2>5 DEF VerdictInv, TallyInv
  <2>7. Activations[k] \in Exposed /\ Activations[k] \in ToSet(table) /\ t \in ToSet(table)
    BY <1>1, <2>6, ActivationsSorted, MadeOnce DEF VerdictInv
  <2>8. Activations[k] = t
    BY <1>1, <2>4, <2>6, <2>7, MadeOnce DEF VerdictInv
  <2>9. s \in ToSet(table) /\ s.id = firstFailure
    BY <2>4, <2>7
  <2> HIDE DEF s
  <2>10. s = t
    BY <1>1, <2>4, <2>7, <2>9, MadeOnce DEF VerdictInv
  <2>11. reference[Safe(t.name)] = t.name
    BY <1>1 DEF Distinct, VerdictInv, ReferenceInv
  <2>12. memory[firstFailure] = "wrong"
    BY <1>1, <2>1, <2>4, <2>6, <2>8, <2>10, <2>11
       DEF Disagrees, Agree, VerdictInv, MemoryInv
  <2>13. PICK i \in faulty : i <= l
    BY <1>1, <2>3, <2>12 DEF VerdictInv, MemoryInv
  <2> QED
    BY <2>4, <2>10, <2>13
<1> QED
  BY <1>1, VerdictInvariant, PTL
=============================================================================
