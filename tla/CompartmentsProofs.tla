-------------------------- MODULE CompartmentsProofs --------------------------
(***************************************************************************)
(* Proofs of InvocationsNest, for any number of compartments and any depth *)
(* of invocations, and of BlocksHaveOneOwner, for any number of objects    *)
(* and blocks.  The invariant of the first says where on the stack of the  *)
(* core each invocation has its state and its frame, and that the stacks   *)
(* of a compartment are those of its invocations in the order in which     *)
(* they were begun; the invariant of the second, that a live object has a  *)
(* block of its size that no other has.                                    *)
(***************************************************************************)
EXTENDS Compartments, FiniteSetTheorems, SequenceTheorems, TLAPS

-----------------------------------------------------------------------------
(* Invocations. *)

\* The invocations of a among the first n, and how many there are.
Mine(s, n, a) == {j \in 1..n : s[j].c = a}
Count(s, n, a) == Cardinality(Mine(s, n, a))
Total(a) == Count(calls, Len(calls), a)

\* The values in calls and on the stack of the core.
Call == [c : Addresses, stack : Nat \ {0}]
Entry == [kind : {"state", "frame"}, c : Addresses \cup {Kernel}, last_sp : Nat, sp : Nat, index : Nat]

\* The types that the steps keep.
CompTypes ==
  /\ DOMAIN instance = Addresses /\ DOMAIN is_initial_stack_used = Addresses
  /\ DOMAIN stack_of_stacks = Addresses /\ \A a \in Addresses : stack_of_stacks[a] \in Seq(Nat \ {0})
  /\ kstack \in Seq(Entry) /\ calls \in Seq(Call) /\ sp \in Nat /\ created \in Nat /\ Len(calls) <= MaxDepth

\* No stack is there twice.
Distinct(s) == \A i, j \in 1..Len(s) : i # j => s[i] # s[j]

\* The stacks of a are those of its invocations, in their order, or it has one
\* that is not in use.
StackOK(a) ==
  LET s == stack_of_stacks[a]
  IN  /\ instance[a] = 0 => Total(a) = 0 /\ s = <<>>
      /\ instance[a] # 0 => Len(s) = IF Total(a) = 0 THEN 1 ELSE Total(a)
      /\ instance[a] # 0 => (is_initial_stack_used[a] <=> Total(a) # 0)
      /\ is_initial_stack_used[a] \in BOOLEAN
      /\ \A i \in 1..Len(calls) : calls[i].c = a => s[Count(calls, i, a)] = calls[i].stack
      /\ Distinct(s)

\* User code runs for the last invocation.
UserInv ==
  ~InCore => LET d == Len(calls)
             IN  d > 0 /\ cr3 = calls[d].c /\ tls = calls[d].c /\ sp = calls[d].stack

\* The invariant.
CompInv ==
  CompTypes /\ LinksFollowInvocations /\ UserInv /\ \A a \in Addresses : StackOK(a)

-----------------------------------------------------------------------------

\* A sequence with an element added, and one cut.
LEMMA Pushed ==
  ASSUME NEW S, NEW s \in Seq(S), NEW e \in S, NEW t, t = Append(s, e)
  PROVE  /\ t \in Seq(S) /\ Len(s) \in Nat /\ Len(t) = Len(s) + 1
         /\ (\A i \in 1..Len(s) : t[i] = s[i]) /\ t[Len(s) + 1] = e
<1>1. Len(s) \in Nat
  BY Zenon, LenProperties
<1>2. /\ Append(s, e) \in Seq(S) /\ Len(Append(s, e)) = Len(s) + 1
      /\ (\A i \in 1..Len(s) : Append(s, e)[i] = s[i]) /\ Append(s, e)[Len(s) + 1] = e
  BY AppendProperties
<1> QED BY Zenon, <1>1, <1>2

LEMMA Cut ==
  ASSUME NEW S, NEW s \in Seq(S), NEW n \in 0..Len(s), NEW t, t = SubSeq(s, 1, n)
  PROVE  /\ t \in Seq(S) /\ Len(s) \in Nat /\ Len(t) = n /\ (\A i \in 1..n : t[i] = s[i])
<1>1. Len(s) \in Nat /\ \A i \in 1..Len(s) : s[i] \in S
  BY Zenon, LenProperties, ElementOfSeq
<1>2. /\ n \in Nat /\ 1 \in Int /\ n \in Int /\ (IF 1 <= n THEN n - 1 + 1 ELSE 0) = n /\ n - 1 + 1 = n
      /\ (\A i \in 1..n : i \in 1..Len(s) /\ 1 + i - 1 = i)
  BY <1>1
<1>3. \A i \in 1..n : s[i] \in S
  BY Zenon, <1>1, <1>2
<1>4. /\ SubSeq(s, 1, n) \in Seq(S)
      /\ Len(SubSeq(s, 1, n)) = IF 1 <= n THEN n - 1 + 1 ELSE 0
      /\ \A i \in 1..n - 1 + 1 : SubSeq(s, 1, n)[i] = s[1 + i - 1]
  BY <1>2, <1>3, SubSeqProperties
<1> QED BY Zenon, <1>1, <1>2, <1>4

\* A range of numbers.
LEMMA Upto == ASSUME NEW n \in Nat PROVE IsFiniteSet(1..n) /\ Cardinality(1..n) = n
<1>1. 1 \in Int /\ n \in Int /\ (IF 1 > n THEN 0 ELSE n - 1 + 1) = n
  OBVIOUS
<1> QED BY Zenon, <1>1, FS_Interval

\* A function to a set that is smaller has a value twice.
LEMMA Pigeon ==
  ASSUME NEW n \in Nat, NEW T, IsFiniteSet(T), Cardinality(T) < n, NEW f \in [1..n -> T]
  PROVE  \E x, y \in 1..n : x # y /\ f[x] = f[y]
<1>1. IsFiniteSet(1..n) /\ Cardinality(T) < Cardinality(1..n)
  BY Zenon, Upto
<1> QED BY <1>1, FS_PigeonHole

\* How many invocations of a there are.
LEMMA CountIs ==
  ASSUME NEW s, NEW n \in Nat, NEW a
  PROVE  /\ IsFiniteSet(Mine(s, n, a)) /\ Count(s, n, a) \in Nat /\ Count(s, n, a) <= n
         /\ Count(s, n, a) = 0 <=> Mine(s, n, a) = {}
<1>1. IsFiniteSet(1..n) /\ Cardinality(1..n) = n
  BY Zenon, Upto
<1>2. Mine(s, n, a) \in SUBSET (1..n)
  BY Zenon DEF Mine
<1>3. IsFiniteSet(Mine(s, n, a)) /\ Cardinality(Mine(s, n, a)) <= Cardinality(1..n)
  BY Zenon, <1>1, <1>2, FS_Subset
<1>4. Cardinality(Mine(s, n, a)) \in Nat
  BY Zenon, <1>3, FS_CardinalityType
<1>5. Cardinality(Mine(s, n, a)) = 0 <=> Mine(s, n, a) = {}
  BY Zenon, <1>3, FS_EmptySet
<1> QED BY Zenon, <1>1, <1>3, <1>4, <1>5 DEF Count

\* One invocation more.
LEMMA CountNext ==
  ASSUME NEW s, NEW n \in Nat, NEW a
  PROVE  Count(s, n + 1, a) = IF s[n + 1].c = a THEN Count(s, n, a) + 1 ELSE Count(s, n, a)
<1>1. 1..n + 1 = (1..n) \cup {n + 1} /\ n + 1 \notin 1..n
  OBVIOUS
<1>2. CASE s[n + 1].c = a
  <2>1. Mine(s, n + 1, a) = Mine(s, n, a) \cup {n + 1} /\ n + 1 \notin Mine(s, n, a)
    BY Zenon, <1>1, <1>2 DEF Mine
  <2>2. IsFiniteSet(Mine(s, n, a))
    BY Zenon, CountIs
  <2>3. Cardinality(Mine(s, n, a) \cup {n + 1}) = Cardinality(Mine(s, n, a)) + 1
    BY Zenon, <2>1, <2>2, FS_AddElement
  <2> QED BY Zenon, <1>2, <2>1, <2>3 DEF Count
<1>3. CASE s[n + 1].c # a
  <2>1. Mine(s, n + 1, a) = Mine(s, n, a)
    BY Zenon, <1>1, <1>3 DEF Mine
  <2> QED BY Zenon, <1>3, <2>1 DEF Count
<1> QED BY Zenon, <1>2, <1>3

\* The count grows with every invocation of a: each has a number of its own.
LEMMA CountGrows ==
  ASSUME NEW s, NEW i \in Nat, NEW j \in Nat, i <= j, NEW a
  PROVE  /\ Count(s, i, a) <= Count(s, j, a)
         /\ i < j /\ s[j].c = a => Count(s, i, a) < Count(s, j, a)
         /\ j > 0 /\ s[j].c = a => Count(s, j, a) > 0
<1>1. ASSUME NEW m \in Nat, NEW n \in Nat, m <= n PROVE Count(s, m, a) <= Count(s, n, a)
  <2>1. Mine(s, m, a) \subseteq Mine(s, n, a)
    BY <1>1 DEF Mine
  <2> QED BY Zenon, <2>1, CountIs, FS_Subset DEF Count
<1>2. ASSUME j > 0, s[j].c = a PROVE /\ j - 1 \in Nat /\ Count(s, j, a) = Count(s, j - 1, a) + 1
  <2>1. j - 1 \in Nat /\ j - 1 + 1 = j
    BY <1>2
  <2> QED BY Zenon, <1>2, <2>1, CountNext
<1>3. ASSUME j > 0, s[j].c = a PROVE Count(s, j, a) > 0
  <2>1. Count(s, j - 1, a) \in Nat /\ Count(s, j, a) = Count(s, j - 1, a) + 1
    BY Zenon, <1>2, <1>3, CountIs
  <2> QED BY <2>1
<1>4. ASSUME i < j, s[j].c = a PROVE Count(s, i, a) < Count(s, j, a)
  <2>1. j > 0 /\ i <= j - 1
    BY <1>4
  <2>2. /\ Count(s, i, a) \in Nat /\ Count(s, j - 1, a) \in Nat /\ Count(s, i, a) <= Count(s, j - 1, a)
        /\ Count(s, j, a) = Count(s, j - 1, a) + 1
    BY Zenon, <1>1, <1>2, <1>4, <2>1, CountIs
  <2> QED BY <2>2
<1> QED BY Zenon, <1>1, <1>3, <1>4

\* Only the invocations counted matter.
LEMMA CountSame ==
  ASSUME NEW s, NEW t, NEW n \in Nat, NEW a, \A j \in 1..n : s[j] = t[j]
  PROVE  Count(s, n, a) = Count(t, n, a)
  BY Zenon DEF Count, Mine

-----------------------------------------------------------------------------

\* An address that is in no stack: there are more addresses than stacks.
LEMMA StackIsNew ==
  ASSUME CompartmentAssumption, CompInv
  PROVE  /\ NewStack \in Nat \ {0}
         /\ \A a \in Addresses : \A i \in 1..Len(stack_of_stacks[a]) : stack_of_stacks[a][i] # NewStack
<1> DEFINE M == 1..MaxDepth + 1
           Size == Cardinality(Addresses)
           N == (MaxDepth + 1) * Size + 1
           P(n) == \A a \in Addresses, i \in M : i <= Len(stack_of_stacks[a]) => stack_of_stacks[a][i] # n
<1>1. MaxDepth \in Nat /\ IsFiniteSet(Addresses) /\ Size \in Nat
  BY Zenon, FS_CardinalityType DEF CompartmentAssumption
<1>2. IsFiniteSet(M) /\ Cardinality(M) = MaxDepth + 1
  <2>1. MaxDepth + 1 \in Nat
    BY <1>1
  <2> QED BY Zenon, <2>1, Upto
<1>3. IsFiniteSet(Addresses \X M) /\ Cardinality(Addresses \X M) = Size * (MaxDepth + 1)
  BY Zenon, <1>1, <1>2, FS_Product
<1>4. N \in Nat /\ Size * (MaxDepth + 1) < N
  BY <1>1
<1>6. \E n \in 1..N : P(n)
  <2> SUFFICES ASSUME \A n \in 1..N : ~P(n) PROVE FALSE
    BY Zenon
  <2> DEFINE At(n) == CHOOSE x \in Addresses \X M : stack_of_stacks[x[1]][x[2]] = n
  <2>1. ASSUME NEW n \in 1..N PROVE At(n) \in Addresses \X M /\ stack_of_stacks[At(n)[1]][At(n)[2]] = n
    <3>1. PICK a \in Addresses, i \in M : stack_of_stacks[a][i] = n
      BY Zenon
    <3>2. <<a, i>> \in Addresses \X M /\ <<a, i>>[1] = a /\ <<a, i>>[2] = i
      BY Zenon
    <3> QED BY Zenon, <3>1, <3>2
  <2> HIDE DEF At, N, M, Size
  <2>2. PICK f \in [1..N -> Addresses \X M] : \A n \in 1..N : stack_of_stacks[f[n][1]][f[n][2]] = n
    <3>1. [n \in 1..N |-> At(n)] \in [1..N -> Addresses \X M]
      BY Zenon, <2>1
    <3>2. \A n \in 1..N : [m \in 1..N |-> At(m)][n] = At(n)
      BY Zenon
    <3> QED BY Zenon, <2>1, <3>1, <3>2
  <2>3. Cardinality(Addresses \X M) < N
    BY Zenon, <1>3, <1>4
  <2>4. \E x, y \in 1..N : x # y /\ f[x] = f[y]
    BY Zenon, <1>3, <1>4, <2>2, <2>3, Pigeon
  <2> QED BY Zenon, <2>2, <2>4
<1>7. NewStack \in 1..N /\ P(NewStack)
  BY Zenon, <1>6 DEF NewStack
<1>8. ASSUME NEW a \in Addresses, NEW i \in 1..Len(stack_of_stacks[a]) PROVE i \in M /\ i <= Len(stack_of_stacks[a])
  <2>1. stack_of_stacks[a] \in Seq(Nat \ {0}) /\ StackOK(a) /\ Len(calls) \in Nat /\ Len(calls) <= MaxDepth
    BY Zenon, LenProperties DEF CompInv, CompTypes
  <2>2. Total(a) \in Nat /\ Total(a) <= Len(calls)
    BY Zenon, <2>1, CountIs DEF Total
  <2>3. Len(stack_of_stacks[a]) \in Nat
    BY Zenon, <2>1, LenProperties
  <2>4. Len(stack_of_stacks[a]) <= MaxDepth + 1
    <3>1. Len(stack_of_stacks[a]) \in {0, 1, Total(a)}
      <4>1. Len(<<>>) = 0
        OBVIOUS
      <4> QED BY Zenon, <2>1, <4>1 DEF StackOK
    <3>2. \A l, t, d, m \in Nat : l \in {0, 1, t} /\ t <= d /\ d <= m => l <= m + 1
      OBVIOUS
    <3> QED BY Zenon, <1>1, <2>1, <2>2, <2>3, <3>1, <3>2
  <2> HIDE DEF N, Size
  <2> QED BY <1>1, <2>3, <2>4
<1>9. NewStack \in Nat \ {0}
  <2> HIDE DEF N
  <2> QED BY <1>4, <1>7
<1> QED BY Zenon, <1>7, <1>8, <1>9

-----------------------------------------------------------------------------

\* A step keeps the stacks of a when calls gains or loses invocations of others.
LEMMA OthersStacks ==
  ASSUME CompInv, NEW a \in Addresses, stack_of_stacks'[a] = stack_of_stacks[a], instance'[a] = instance[a],
         is_initial_stack_used'[a] = is_initial_stack_used[a],
         Total(a)' = Total(a), NEW n \in Nat, (\A j \in 1..n : calls'[j] = calls[j]),
         \A j \in 1..Len(calls') : calls'[j].c = a => j \in 1..n /\ j \in 1..Len(calls)
  PROVE  StackOK(a)'
<1>1. StackOK(a)
  BY Zenon DEF CompInv
<1>2. ASSUME NEW j \in 1..Len(calls'), calls'[j].c = a
      PROVE  stack_of_stacks[a][Count(calls', j, a)] = calls'[j].stack
  <2>1. j \in 1..n /\ j \in 1..Len(calls) /\ calls'[j] = calls[j]
    BY Zenon, <1>2
  <2>2. j \in Nat /\ \A i \in 1..j : i \in 1..n
    BY <2>1
  <2>3. Count(calls', j, a) = Count(calls, j, a)
    <3>1. \A i \in 1..j : calls'[i] = calls[i]
      BY Zenon, <2>2
    <3> QED BY Zenon, <3>1 DEF Count, Mine
  <2> QED BY Zenon, <1>1, <1>2, <2>1, <2>3 DEF StackOK
<1> QED BY Zenon, <1>1, <1>2 DEF StackOK

\* An invocation of a on the stack x is begun.
Push(a, x) ==
  /\ calls' = Append(calls, [c |-> a, stack |-> x])
  /\ \A b \in Addresses \ {a} : /\ stack_of_stacks'[b] = stack_of_stacks[b] /\ instance'[b] = instance[b]
                                /\ is_initial_stack_used'[b] = is_initial_stack_used[b]
  /\ instance'[a] # 0 /\ is_initial_stack_used'[a] = TRUE

\* The invocations are those before, and this one.
LEMMA PushIs ==
  ASSUME CompInv, NEW a \in Addresses, NEW x \in Nat \ {0}, Push(a, x)
  PROVE  /\ calls' \in Seq(Call) /\ Len(calls) \in Nat /\ Len(calls') = Len(calls) + 1
         /\ (\A i \in 1..Len(calls) : calls'[i] = calls[i])
         /\ calls'[Len(calls) + 1].c = a /\ calls'[Len(calls) + 1].stack = x
         /\ Total(a)' = Total(a) + 1 /\ Total(a) \in Nat
<1>1. [c |-> a, stack |-> x] \in Call /\ [c |-> a, stack |-> x].c = a /\ [c |-> a, stack |-> x].stack = x
  BY Zenon DEF Call
<1>2. calls \in Seq(Call) /\ calls' = Append(calls, [c |-> a, stack |-> x])
  BY Zenon DEF CompInv, CompTypes, Push
<1>3. /\ calls' \in Seq(Call) /\ Len(calls) \in Nat /\ Len(calls') = Len(calls) + 1
      /\ (\A i \in 1..Len(calls) : calls'[i] = calls[i])
      /\ calls'[Len(calls) + 1] = [c |-> a, stack |-> x]
  BY <1>1, <1>2, Pushed
<1>4. Count(calls', Len(calls) + 1, a) = Count(calls', Len(calls), a) + 1
  BY <1>1, <1>3, CountNext
<1>5. Count(calls', Len(calls), a) = Count(calls, Len(calls), a)
  BY <1>3, CountSame
<1>6. Total(a)' = Total(a) + 1 /\ Total(a) \in Nat
  BY Zenon, <1>3, <1>4, <1>5, CountIs DEF Total
<1> QED BY Zenon, <1>1, <1>3, <1>6

\* The stacks of the others.
LEMMA PushOthers ==
  ASSUME CompInv, NEW a \in Addresses, NEW x \in Nat \ {0}, Push(a, x), NEW b \in Addresses, b # a
  PROVE  StackOK(b)'
<1> DEFINE d == Len(calls)
<1>1. /\ d \in Nat /\ Len(calls') = d + 1 /\ (\A i \in 1..d : calls'[i] = calls[i]) /\ calls'[d + 1].c = a
  BY Zenon, PushIs
<1>2. Total(b)' = Total(b)
  <2>1. Count(calls', d + 1, b) = Count(calls', d, b)
    BY Zenon, <1>1, CountNext
  <2>2. Count(calls', d, b) = Count(calls, d, b)
    BY Zenon, <1>1 DEF Count, Mine
  <2> QED BY Zenon, <1>1, <2>1, <2>2 DEF Total
<1>3. ASSUME NEW j \in 1..Len(calls'), calls'[j].c = b PROVE j \in 1..d
  <2>1. j \in 1..d \/ j = d + 1
    BY <1>1
  <2> QED BY Zenon, <1>1, <1>3, <2>1
<1> QED BY Zenon, <1>1, <1>2, <1>3, OthersStacks DEF Push

\* The stacks of a: the one that was not in use, or a new one behind the others.
LEMMA PushOwn ==
  ASSUME CompInv, NEW a \in Addresses, NEW x \in Nat \ {0}, Push(a, x), stack_of_stacks'[a] \in Seq(Nat \ {0}),
         \/ Total(a) = 0 /\ Len(stack_of_stacks'[a]) = 1 /\ stack_of_stacks'[a][1] = x
         \/ /\ Total(a) # 0 /\ stack_of_stacks'[a] = Append(stack_of_stacks[a], x)
            /\ \A i \in 1..Len(stack_of_stacks[a]) : stack_of_stacks[a][i] # x
  PROVE  StackOK(a)'
<1> DEFINE d == Len(calls)
           s == stack_of_stacks[a]
           t == stack_of_stacks'[a]
<1>1. /\ d \in Nat /\ Len(calls') = d + 1 /\ (\A i \in 1..d : calls'[i] = calls[i])
      /\ calls'[d + 1].c = a /\ calls'[d + 1].stack = x /\ Total(a)' = Total(a) + 1 /\ Total(a) \in Nat
  BY Zenon, PushIs
<1>2. Total(a)' # 0 /\ (Total(a) = 0 => Total(a)' = 1)
  BY <1>1
<1>3. ASSUME NEW j \in 1..d PROVE Count(calls', j, a) = Count(calls, j, a) /\ calls'[j] = calls[j] /\ j \in Nat
  <2>1. j \in Nat /\ \A i \in 1..j : i \in 1..d
    BY <1>1
  <2> QED BY <1>1, <2>1, CountSame
<1>4. Count(calls', d + 1, a) = Total(a) + 1
  BY Zenon, <1>1 DEF Total
<1>5. \A j \in 1..d + 1 : j \in 1..d \/ j = d + 1
  BY <1>1
<1>6. StackOK(a) /\ s \in Seq(Nat \ {0})
  BY Zenon DEF CompInv, CompTypes
<1>7. /\ Len(t) = Total(a) + 1 /\ t[Total(a) + 1] = x
      /\ \A j \in 1..d : calls[j].c = a => t[Count(calls, j, a)] = calls[j].stack
      /\ Distinct(t)
  <2>1. CASE Total(a) = 0
    <3>1. Len(t) = 1 /\ t[1] = x /\ 0 + 1 = 1
      BY <2>1
    <3>2. ASSUME NEW j \in 1..d, calls[j].c = a PROVE FALSE
      <4>1. Mine(calls, d, a) = {}
        BY Zenon, <1>1, <2>1, CountIs DEF Total
      <4> QED BY Zenon, <3>2, <4>1 DEF Mine
    <3>3. \A i, j \in 1..1 : i = j
      OBVIOUS
    <3>4. Distinct(t)
      BY Zenon, <3>1, <3>3 DEF Distinct
    <3> QED BY Zenon, <2>1, <3>1, <3>2, <3>4
  <2>2. CASE Total(a) # 0
    <3>1. t = Append(s, x) /\ Len(s) = Total(a) /\ \A i \in 1..Len(s) : s[i] # x
      BY Zenon, <1>6, <2>2 DEF StackOK
    <3>2. Len(t) = Len(s) + 1 /\ (\A i \in 1..Len(s) : t[i] = s[i]) /\ t[Len(s) + 1] = x
      BY <1>6, <3>1, Pushed
    <3>3. ASSUME NEW j \in 1..d, calls[j].c = a PROVE t[Count(calls, j, a)] = calls[j].stack
      <4>1. j \in Nat /\ j > 0 /\ j <= d
        BY <1>1
      <4>2. Count(calls, j, a) \in Nat /\ Count(calls, j, a) > 0 /\ Count(calls, j, a) <= Total(a)
        BY Zenon, <1>1, <3>3, <4>1, CountIs, CountGrows DEF Total
      <4>3. Count(calls, j, a) \in 1..Len(s)
        BY <1>1, <3>1, <4>2
      <4>4. s[Count(calls, j, a)] = calls[j].stack
        BY Zenon, <1>6, <3>3 DEF StackOK
      <4> QED BY Zenon, <3>2, <4>3, <4>4
    <3>4. \A i \in 1..Len(t) : i \in 1..Len(s) \/ i = Len(s) + 1
      BY <1>1, <3>1, <3>2
    <3>5. \A i, j \in 1..Len(s) : i # j => s[i] # s[j]
      BY Zenon, <1>6 DEF StackOK, Distinct
    <3>6. Distinct(t)
      BY Zenon, <3>1, <3>2, <3>4, <3>5 DEF Distinct
    <3> QED BY Zenon, <3>1, <3>2, <3>3, <3>6
  <2> QED BY Zenon, <2>1, <2>2
<1>8. \A j \in 1..Len(calls') : calls'[j].c = a => t[Count(calls', j, a)] = calls'[j].stack
  BY <1>1, <1>3, <1>4, <1>5, <1>7
<1> QED BY Zenon, <1>1, <1>2, <1>7, <1>8 DEF StackOK, Push

\* The last invocation ends.
LEMMA PopIs ==
  ASSUME CompInv, Len(calls) > 0, calls' = Pop(calls)
  PROVE  /\ calls' \in Seq(Call) /\ Len(calls) \in Nat /\ Len(calls') \in Nat /\ Len(calls) = Len(calls') + 1
         /\ \A i \in 1..Len(calls') : calls'[i] = calls[i]
<1>1. calls \in Seq(Call) /\ Len(calls) \in Nat
  BY Zenon, LenProperties DEF CompInv, CompTypes
<1>2. Len(calls) - 1 \in 0..Len(calls) /\ Len(calls) - 1 \in Nat /\ Len(calls) = Len(calls) - 1 + 1
  BY <1>1
<1>3. calls' \in Seq(Call) /\ Len(calls') = Len(calls) - 1 /\ \A i \in 1..Len(calls) - 1 : calls'[i] = calls[i]
  BY <1>1, <1>2, Cut DEF Pop
<1> QED BY Zenon, <1>1, <1>2, <1>3

\* How many invocations are left.
LEMMA PopTotal ==
  ASSUME CompInv, Len(calls) > 0, calls' = Pop(calls), NEW a
  PROVE  /\ calls[Len(calls)].c = a => Total(a) = Total(a)' + 1
         /\ calls[Len(calls)].c # a => Total(a) = Total(a)'
         /\ Total(a)' \in Nat
<1> DEFINE d == Len(calls')
<1>1. d \in Nat /\ Len(calls) = d + 1 /\ \A i \in 1..d : calls'[i] = calls[i]
  BY Zenon, PopIs
<1>2. Count(calls', d, a) = Count(calls, d, a) /\ Count(calls', d, a) \in Nat
  <2>1. Count(calls', d, a) = Count(calls, d, a)
    BY Zenon, <1>1 DEF Count, Mine
  <2>2. Count(calls, d, a) \in Nat
    BY Zenon, <1>1, CountIs
  <2> QED BY Zenon, <2>1, <2>2
<1>3. Count(calls, d + 1, a) = IF calls[d + 1].c = a THEN Count(calls, d, a) + 1 ELSE Count(calls, d, a)
  BY Zenon, <1>1, CountNext
<1> QED BY Zenon, <1>1, <1>2, <1>3 DEF Total

\* The stacks of the others.
LEMMA PopOthers ==
  ASSUME CompInv, Len(calls) > 0, calls' = Pop(calls), NEW a \in Addresses, a # calls[Len(calls)].c,
         stack_of_stacks'[a] = stack_of_stacks[a], instance' = instance,
         is_initial_stack_used'[a] = is_initial_stack_used[a]
  PROVE  StackOK(a)'
<1>1. /\ Len(calls') \in Nat /\ Len(calls) = Len(calls') + 1
      /\ \A i \in 1..Len(calls') : calls'[i] = calls[i]
  BY Zenon, PopIs
<1>2. \A i \in 1..Len(calls') : i \in 1..Len(calls)
  BY <1>1
<1>3. Total(a)' = Total(a)
  BY Zenon, PopTotal
<1> QED BY Zenon, <1>1, <1>2, <1>3, OthersStacks

\* The stack of the invocation is released: unless it is the only one, it is the
\* last, and goes.
LEMMA PopOwn ==
  ASSUME CompInv, Len(calls) > 0, calls' = Pop(calls), NEW a \in Addresses, a = calls[Len(calls)].c,
         release_stack(a), instance' = instance
  PROVE  StackOK(a)' /\ stack_of_stacks'[a] \in Seq(Nat \ {0})
<1> DEFINE d == Len(calls')
           s == stack_of_stacks[a]
           t == stack_of_stacks'[a]
           n == Total(a)'
<1>1. d \in Nat /\ Len(calls) = d + 1 /\ \A i \in 1..d : calls'[i] = calls[i]
  BY Zenon, PopIs
<1>2. Total(a) = n + 1 /\ n \in Nat
  BY Zenon, PopTotal
<1>3. /\ StackOK(a) /\ s \in Seq(Nat \ {0}) /\ DOMAIN stack_of_stacks = Addresses
      /\ DOMAIN is_initial_stack_used = Addresses
  BY Zenon DEF CompInv, CompTypes
<1>4. Total(a) # 0 /\ (n = 0 <=> Total(a) = 1) /\ n <= Total(a)
  BY <1>2
<1>5. instance[a] # 0 /\ Len(s) = Total(a)
  BY Zenon, <1>3, <1>4 DEF StackOK
<1>6. ASSUME NEW j \in 1..d, calls'[j].c = a
      PROVE  Count(calls', j, a) \in 1..n /\ s[Count(calls', j, a)] = calls'[j].stack
  <2>1. j \in Nat /\ j > 0 /\ j <= d /\ j \in 1..Len(calls) /\ \A i \in 1..j : i \in 1..d
    BY <1>1
  <2>2. \A i \in 1..j : calls'[i] = calls[i]
    BY Zenon, <1>1, <2>1
  <2>3. Count(calls', j, a) = Count(calls, j, a)
    BY Zenon, <2>2 DEF Count, Mine
  <2>4. Count(calls', j, a) \in Nat /\ Count(calls', j, a) > 0 /\ Count(calls', j, a) <= Count(calls', d, a)
    BY Zenon, <1>1, <1>6, <2>1, CountIs, CountGrows
  <2>5. Count(calls', j, a) \in 1..n
    <3>1. n = Count(calls', d, a)
      BY Zenon DEF Total
    <3> HIDE DEF n
    <3> QED BY <1>2, <2>4, <3>1
  <2>6. calls'[j] = calls[j]
    BY Zenon, <1>1
  <2> QED BY Zenon, <1>3, <1>6, <2>1, <2>3, <2>5, <2>6 DEF StackOK
<1>7. Distinct(s)
  BY Zenon, <1>3 DEF StackOK
<1>8. CASE n = 0
  <2>1. Len(s) = 1
    BY Zenon, <1>4, <1>5, <1>8
  <2>2. t = s /\ is_initial_stack_used'[a] = FALSE
    BY Zenon, <1>3, <2>1 DEF release_stack
  <2>3. \A j \in 1..d : calls'[j].c = a => t[Count(calls', j, a)] = calls'[j].stack
    BY Zenon, <1>6, <2>2
  <2>4. Len(t) = 1 /\ t \in Seq(Nat \ {0}) /\ Distinct(t)
    BY Zenon, <1>3, <1>7, <2>1, <2>2
  <2> QED BY Zenon, <1>5, <1>8, <2>2, <2>3, <2>4 DEF StackOK
<1>9. CASE n # 0
  <2>1. Len(s) # 1 /\ Len(s) - 1 = n /\ n \in 0..Len(s) /\ (\A i \in 1..n : i \in 1..Len(s))
    <3>1. Len(s) = n + 1
      BY Zenon, <1>2, <1>5
    <3> HIDE DEF n, s
    <3> QED BY <1>2, <1>9, <3>1
  <2>2. t = SubSeq(s, 1, n) /\ is_initial_stack_used'[a] = is_initial_stack_used[a]
    BY Zenon, <1>3, <2>1 DEF release_stack, Pop
  <2>3. t \in Seq(Nat \ {0}) /\ Len(t) = n /\ \A i \in 1..n : t[i] = s[i]
    BY <1>3, <2>1, <2>2, Cut
  <2>4. Distinct(t)
    <3>1. ASSUME NEW i \in 1..n, NEW j \in 1..n, i # j PROVE t[i] # t[j]
      <4>1. i \in 1..Len(s) /\ j \in 1..Len(s)
        BY Zenon, <2>1
      <4>2. s[i] # s[j]
        BY Zenon, <1>7, <3>1, <4>1 DEF Distinct
      <4> QED BY Zenon, <2>3, <4>2
    <3> QED BY Zenon, <2>3, <3>1 DEF Distinct
  <2>5. \A j \in 1..d : calls'[j].c = a => t[Count(calls', j, a)] = calls'[j].stack
    BY Zenon, <1>6, <2>3
  <2>6. is_initial_stack_used'[a] = TRUE
    BY Zenon, <1>3, <1>4, <1>5, <2>2 DEF StackOK
  <2> QED BY Zenon, <1>5, <1>9, <2>3, <2>4, <2>5, <2>6 DEF StackOK
<1> QED BY Zenon, <1>8, <1>9

-----------------------------------------------------------------------------

\* An invocation whose state and frame stay where they are.
LEMMA KeepLink ==
  ASSUME NEW i, Linked(i), calls'[i] = calls[i], kstack'[2 * i - 1] = kstack[2 * i - 1],
         2 * i <= Len(kstack') => 2 * i <= Len(kstack) /\ kstack'[2 * i] = kstack[2 * i]
  PROVE  Linked(i)'
  BY Zenon DEF Linked

\* The stack of the core, in numbers.
LEMMA Depths ==
  ASSUME CompInv
  PROVE  /\ Len(calls) \in Nat /\ Len(kstack) \in Nat /\ kstack \in Seq(Entry) /\ calls \in Seq(Call)
         /\ InCore => Len(kstack) = 2 * Len(calls)
         /\ ~InCore => /\ Len(calls) > 0 /\ Len(kstack) = 2 * Len(calls) - 1 /\ last_sp = Len(kstack)
                       /\ kstack[last_sp].c = calls[Len(calls)].c
         /\ \A i \in 1..Len(calls) : Linked(i)
         /\ last_sp = IF Len(calls) = 0 THEN 0 ELSE 2 * Len(calls) - 1
<1>1. Len(calls) \in Nat /\ Len(kstack) \in Nat /\ kstack \in Seq(Entry) /\ calls \in Seq(Call)
  BY Zenon, LenProperties DEF CompInv, CompTypes
<1>2. /\ Len(kstack) = IF InCore THEN 2 * Len(calls) ELSE 2 * Len(calls) - 1
      /\ last_sp = IF Len(calls) = 0 THEN 0 ELSE 2 * Len(calls) - 1
      /\ (\A i \in 1..Len(calls) : Linked(i))
      /\ ~InCore => Len(calls) > 0
  BY Zenon DEF CompInv, LinksFollowInvocations, UserInv
<1>3. ASSUME ~InCore PROVE kstack[last_sp].c = calls[Len(calls)].c /\ last_sp = Len(kstack)
  <2>1. Len(calls) # 0 /\ Len(calls) \in 1..Len(calls)
    BY <1>1, <1>2, <1>3
  <2>2. last_sp = 2 * Len(calls) - 1 /\ Linked(Len(calls)) /\ Len(kstack) = 2 * Len(calls) - 1
    BY Zenon, <1>2, <1>3, <2>1
  <2> QED BY Zenon, <2>2 DEF Linked
<1> QED BY Zenon, <1>1, <1>2, <1>3

\* A step that leaves the stacks of the compartments alone.
LEMMA KeepStacks ==
  ASSUME CompInv, UNCHANGED <<stack_of_stacks, is_initial_stack_used, instance, calls>>
  PROVE  /\ \A a \in Addresses : StackOK(a)'
         /\ DOMAIN instance' = Addresses /\ DOMAIN is_initial_stack_used' = Addresses
         /\ DOMAIN stack_of_stacks' = Addresses /\ \A a \in Addresses : stack_of_stacks'[a] \in Seq(Nat \ {0})
         /\ calls' \in Seq(Call) /\ Len(calls') <= MaxDepth
<1>1. ASSUME NEW a \in Addresses PROVE StackOK(a)'
  <2>1. StackOK(a)
    BY Zenon DEF CompInv
  <2> QED BY Zenon, <2>1 DEF StackOK, Total, Count, Mine
<1> QED BY Zenon, <1>1 DEF CompInv, CompTypes

\* compartment_enter saves the state of the core on its stack.
LEMMA EnterLinks ==
  ASSUME CompInv, InCore, NEW a \in Addresses, NEW x \in Nat \ {0}, Push(a, x), compartment_enter(a, x)
  PROVE  kstack' \in Seq(Entry) /\ sp' \in Nat /\ LinksFollowInvocations' /\ UserInv'
<1>0. PICK d : d = Len(calls)
  BY Zenon
<1> DEFINE e == [kind |-> "state", c |-> a, last_sp |-> last_sp, sp |-> 0, index |-> 0]
<1>1. /\ d \in Nat /\ kstack \in Seq(Entry) /\ Len(kstack) = 2 * d
      /\ (\A i \in 1..d : Linked(i)) /\ last_sp = IF d = 0 THEN 0 ELSE 2 * d - 1
  BY Zenon, <1>0, Depths
<1>2. /\ Len(calls') = d + 1 /\ (\A i \in 1..d : calls'[i] = calls[i])
      /\ calls'[d + 1].c = a /\ calls'[d + 1].stack = x
  BY Zenon, <1>0, PushIs
<1>3. last_sp \in Nat /\ (d + 1 = 1 <=> d = 0) /\ 2 * (d + 1) - 3 = 2 * d - 1 /\ 2 * (d + 1) - 1 = 2 * d + 1
  BY <1>1
<1>4. e \in Entry /\ e.kind = "state" /\ e.c = a /\ e.last_sp = last_sp
  <2>1. 0 \in Nat
    OBVIOUS
  <2> QED BY Zenon, <1>3, <2>1 DEF Entry
<1>5. kstack' = Append(kstack, e) /\ last_sp' = 2 * d + 1 /\ cr3' = a /\ tls' = a /\ sp' = x
  BY Zenon, <1>1 DEF compartment_enter
<1> HIDE DEF e
<1>6. /\ kstack' \in Seq(Entry) /\ Len(kstack') = 2 * d + 1 /\ (\A i \in 1..2 * d : kstack'[i] = kstack[i])
      /\ kstack'[2 * d + 1] = e
  <2>1. /\ kstack' \in Seq(Entry) /\ Len(kstack') = Len(kstack) + 1
        /\ (\A i \in 1..Len(kstack) : kstack'[i] = kstack[i]) /\ kstack'[Len(kstack) + 1] = e
    <3>1. kstack \in Seq(Entry) /\ e \in Entry /\ kstack' = Append(kstack, e)
      BY Zenon, <1>1, <1>4, <1>5
    <3> QED BY <3>1, Pushed
  <2> QED BY Zenon, <1>1, <2>1
<1>7. ASSUME NEW i \in 1..d PROVE Linked(i)'
  <2>1. 2 * i - 1 \in 1..2 * d /\ 2 * i \in 1..2 * d /\ 2 * i <= 2 * d
    BY <1>1
  <2> QED BY Zenon, <1>1, <1>2, <1>6, <2>1, KeepLink
<1>8. Linked(d + 1)'
  <2>1. ~(2 * (d + 1) <= 2 * d + 1)
    BY <1>1
  <2>2. kstack'[2 * (d + 1) - 1] = e
    BY Zenon, <1>3, <1>6
  <2>3. /\ kstack'[2 * (d + 1) - 1].kind = "state" /\ kstack'[2 * (d + 1) - 1].c = calls'[d + 1].c
        /\ kstack'[2 * (d + 1) - 1].last_sp = IF d + 1 = 1 THEN 0 ELSE 2 * (d + 1) - 3
    BY Zenon, <1>1, <1>2, <1>3, <1>4, <2>2
  <2> QED BY Zenon, <1>6, <2>1, <2>3 DEF Linked
<1>9. x # 0 /\ d + 1 # 0 /\ d + 1 > 0 /\ \A i \in 1..d + 1 : i \in 1..d \/ i = d + 1
  BY <1>1
<1>10. LinksFollowInvocations'
  BY Zenon, <1>2, <1>3, <1>5, <1>6, <1>7, <1>8, <1>9 DEF LinksFollowInvocations, InCore
<1>11. UserInv'
  BY Zenon, <1>2, <1>5, <1>9 DEF UserInv
<1> QED BY Zenon, <1>5, <1>6, <1>10, <1>11

\* last_sp is the state of the last invocation, also under the frame of a callback.
LEMMA LastState ==
  ASSUME CompInv, Len(calls) > 0
  PROVE  /\ last_sp = 2 * Len(calls) - 1 /\ Len(kstack) >= last_sp
         /\ kstack[last_sp].c = calls[Len(calls)].c
<1>1. /\ Len(calls) \in Nat /\ Len(kstack) \in Nat
      /\ (Len(kstack) = 2 * Len(calls) \/ Len(kstack) = 2 * Len(calls) - 1)
      /\ (\A i \in 1..Len(calls) : Linked(i))
      /\ last_sp = IF Len(calls) = 0 THEN 0 ELSE 2 * Len(calls) - 1
  BY Zenon, Depths
<1>2. Len(calls) # 0 /\ Len(calls) \in 1..Len(calls)
  BY <1>1
<1>3. last_sp = 2 * Len(calls) - 1
  BY Zenon, <1>1, <1>2
<1>4. Len(kstack) >= last_sp
  BY <1>1, <1>3
<1>5. kstack[last_sp].c = calls[Len(calls)].c
  BY Zenon, <1>1, <1>2, <1>3 DEF Linked
<1> QED BY Zenon, <1>3, <1>4, <1>5

\* The state at last_sp is that of the last invocation, and the core goes on
\* with what was below it.
LEMMA LeaveLinks ==
  ASSUME CompInv, Len(calls) > 0, NEW success, LeaveCompartment(success)
  PROVE  /\ kstack' \in Seq(Entry) /\ sp' \in Nat /\ LinksFollowInvocations' /\ UserInv'
         /\ calls' = Pop(calls) /\ Len(calls) > 0 /\ release_stack(calls[Len(calls)].c)
         /\ UNCHANGED <<instance, created>>
<1> DEFINE d == Len(calls')
<1>1. /\ Len(calls) \in Nat /\ Len(calls) > 0 /\ kstack \in Seq(Entry) /\ Len(kstack) \in Nat /\ Len(kstack) >= last_sp
      /\ last_sp = 2 * Len(calls) - 1 /\ kstack[last_sp].c = calls[Len(calls)].c /\ (\A i \in 1..Len(calls) : Linked(i))
  BY Zenon, Depths, LastState
<1>2. /\ kstack' = SubSeq(kstack, 1, last_sp - 1) /\ last_sp' = kstack[last_sp].last_sp /\ sp' = 0
      /\ calls' = Pop(calls) /\ release_stack(kstack[last_sp].c) /\ UNCHANGED <<instance, created>>
  BY Zenon DEF LeaveCompartment
<1>3. d \in Nat /\ Len(calls) = d + 1 /\ \A i \in 1..d : calls'[i] = calls[i]
  BY Zenon, <1>1, <1>2, PopIs
<1>4. /\ last_sp = 2 * (d + 1) - 1 /\ last_sp - 1 = 2 * d /\ 2 * d \in 0..Len(kstack) /\ d + 1 \in 1..Len(calls)
      /\ (d + 1 = 1 <=> d = 0) /\ 2 * (d + 1) - 3 = 2 * d - 1
  BY <1>1, <1>3
<1>5. kstack' \in Seq(Entry) /\ Len(kstack') = 2 * d /\ \A i \in 1..2 * d : kstack'[i] = kstack[i]
  <2>1. kstack' = SubSeq(kstack, 1, 2 * d)
    BY Zenon, <1>2, <1>4
  <2> QED BY <1>1, <1>4, <2>1, Cut
<1>6. ASSUME NEW i \in 1..d PROVE Linked(i)'
  <2>1. 2 * i - 1 \in 1..2 * d /\ 2 * i \in 1..2 * d /\ 2 * i <= Len(kstack) /\ i \in 1..Len(calls)
    BY <1>1, <1>3
  <2> QED BY Zenon, <1>1, <1>3, <1>5, <2>1, KeepLink
<1>7. last_sp' = IF d = 0 THEN 0 ELSE 2 * d - 1
  <2>1. Linked(d + 1)
    BY Zenon, <1>1, <1>4
  <2> QED BY Zenon, <1>2, <1>4, <2>1 DEF Linked
<1>8. LinksFollowInvocations' /\ UserInv' /\ sp' \in Nat
  <2>1. 0 \in Nat
    OBVIOUS
  <2> QED BY Zenon, <1>2, <1>5, <1>6, <1>7, <2>1 DEF LinksFollowInvocations, InCore, UserInv
<1> QED BY Zenon, <1>1, <1>2, <1>5, <1>8

-----------------------------------------------------------------------------

\* An invocation ends, by a return, an exit or an abort.
LEMMA LeaveStep ==
  ASSUME CompartmentAssumption, CompInv, Len(calls) > 0, NEW success, LeaveCompartment(success)
  PROVE  CompInv'
<1>0. PICK c : c = calls[Len(calls)].c
  BY Zenon
<1>1. /\ kstack' \in Seq(Entry) /\ sp' \in Nat /\ LinksFollowInvocations' /\ UserInv'
      /\ calls' = Pop(calls) /\ Len(calls) > 0 /\ release_stack(c) /\ instance' = instance /\ created' = created
  BY Zenon, <1>0, LeaveLinks
<1>2. /\ DOMAIN instance = Addresses /\ DOMAIN is_initial_stack_used = Addresses
      /\ DOMAIN stack_of_stacks = Addresses /\ (\A a \in Addresses : stack_of_stacks[a] \in Seq(Nat \ {0}))
      /\ calls \in Seq(Call) /\ created \in Nat /\ Len(calls) <= MaxDepth /\ MaxDepth \in Nat
  BY Zenon DEF CompInv, CompTypes, CompartmentAssumption
<1>3. /\ calls' \in Seq(Call) /\ Len(calls) \in Nat /\ Len(calls') \in Nat /\ Len(calls) = Len(calls') + 1
  BY Zenon, <1>1, PopIs
<1>4. Len(calls') <= MaxDepth /\ Len(calls) \in 1..Len(calls)
  BY <1>1, <1>2, <1>3
<1>5. c \in Addresses
  <2>1. calls[Len(calls)] \in Call
    BY Zenon, <1>2, <1>4, ElementOfSeq
  <2> QED BY <1>0, <2>1 DEF Call
<1>6. /\ DOMAIN is_initial_stack_used' = Addresses /\ DOMAIN stack_of_stacks' = Addresses
      /\ \A a \in Addresses \ {c} : /\ stack_of_stacks'[a] = stack_of_stacks[a]
                                    /\ is_initial_stack_used'[a] = is_initial_stack_used[a]
  BY Zenon, <1>1, <1>2 DEF release_stack
<1>7. StackOK(c)' /\ stack_of_stacks'[c] \in Seq(Nat \ {0})
  BY Zenon, <1>0, <1>1, <1>5, PopOwn
<1>8. ASSUME NEW a \in Addresses, a # c PROVE StackOK(a)' /\ stack_of_stacks'[a] \in Seq(Nat \ {0})
  BY Zenon, <1>0, <1>1, <1>2, <1>6, <1>8, PopOthers
<1>9. \A a \in Addresses : StackOK(a)' /\ stack_of_stacks'[a] \in Seq(Nat \ {0})
  BY Zenon, <1>7, <1>8
<1> QED BY Zenon, <1>1, <1>2, <1>3, <1>4, <1>6, <1>9 DEF CompInv, CompTypes

\* The invocation of a on the stack x, which is the one it had in reserve, or is new.
LEMMA EnterStep ==
  ASSUME CompartmentAssumption, CompInv, InCore, Len(calls) < MaxDepth, NEW a \in Addresses, NEW x \in Nat \ {0},
         Push(a, x), compartment_enter(a, x), created' \in Nat, DOMAIN instance' = Addresses,
         DOMAIN is_initial_stack_used' = Addresses, DOMAIN stack_of_stacks' = Addresses,
         stack_of_stacks'[a] \in Seq(Nat \ {0}),
         \/ Total(a) = 0 /\ Len(stack_of_stacks'[a]) = 1 /\ stack_of_stacks'[a][1] = x
         \/ /\ Total(a) # 0 /\ stack_of_stacks'[a] = Append(stack_of_stacks[a], x)
            /\ \A i \in 1..Len(stack_of_stacks[a]) : stack_of_stacks[a][i] # x
  PROVE  CompInv'
<1>1. kstack' \in Seq(Entry) /\ sp' \in Nat /\ LinksFollowInvocations' /\ UserInv'
  BY Zenon, EnterLinks
<1>2. calls' \in Seq(Call) /\ Len(calls) \in Nat /\ Len(calls') = Len(calls) + 1
  BY Zenon, PushIs
<1>3. Len(calls') <= MaxDepth
  <2>1. MaxDepth \in Nat
    BY Zenon DEF CompartmentAssumption
  <2> QED BY <1>2, <2>1
<1>4. StackOK(a)'
  BY Zenon, PushOwn
<1>5. ASSUME NEW b \in Addresses PROVE StackOK(b)' /\ stack_of_stacks'[b] \in Seq(Nat \ {0})
  <2>1. CASE b = a
    BY Zenon, <1>4, <2>1
  <2>2. CASE b # a
    <3>1. stack_of_stacks'[b] = stack_of_stacks[b] /\ stack_of_stacks[b] \in Seq(Nat \ {0})
      BY Zenon, <2>2 DEF Push, CompInv, CompTypes
    <3> QED BY Zenon, <2>2, <3>1, PushOthers
  <2> QED BY Zenon, <2>1, <2>2
<1> QED BY Zenon, <1>1, <1>2, <1>3, <1>5 DEF CompInv, CompTypes

\* A compartment without invocations.
LEMMA NoneActive ==
  ASSUME CompInv, NEW a \in Addresses
  PROVE  ~Active(a) <=> Total(a) = 0
<1>1. Len(calls) \in Nat
  BY Zenon, Depths
<1>2. Total(a) = 0 <=> Mine(calls, Len(calls), a) = {}
  BY Zenon, <1>1, CountIs DEF Total
<1> QED BY Zenon, <1>2 DEF Active, Mine

\* A compartment that lives is invoked.
LEMMA InvokeStep ==
  ASSUME CompartmentAssumption, CompInv, InCore, NEW a \in Addresses, instance[a] # 0, Len(calls) < MaxDepth,
         GetStack(a), compartment_enter(a, get_stack(a)), calls' = Append(calls, [c |-> a, stack |-> get_stack(a)]),
         UNCHANGED <<instance, created>>
  PROVE  CompInv'
<1> DEFINE s == stack_of_stacks[a]
<1>1. /\ DOMAIN instance = Addresses /\ DOMAIN is_initial_stack_used = Addresses
      /\ DOMAIN stack_of_stacks = Addresses /\ s \in Seq(Nat \ {0}) /\ created \in Nat
      /\ StackOK(a) /\ Len(calls) \in Nat
  BY Zenon, Depths DEF CompInv, CompTypes
<1>2. /\ NewStack \in Nat \ {0} /\ \A i \in 1..Len(s) : s[i] # NewStack
  BY Zenon, StackIsNew
<1>3. Total(a) \in Nat /\ Len(s) = (IF Total(a) = 0 THEN 1 ELSE Total(a)) /\ (is_initial_stack_used[a] <=> Total(a) # 0)
      /\ is_initial_stack_used[a] \in BOOLEAN
  BY Zenon, <1>1, CountIs DEF StackOK, Total
<1>4. Len(s) \in Nat /\ 1 \in 1..Len(s)
  BY <1>3
<1>5. s[1] \in Nat \ {0} /\ s[1] # NewStack
  BY Zenon, <1>1, <1>2, <1>4, ElementOfSeq
<1>6. CASE Total(a) = 0
  <2>1. get_stack(a) = s[1] /\ Len(s) = 1
    BY Zenon, <1>3, <1>6 DEF get_stack
  <2>2. is_initial_stack_used' = [is_initial_stack_used EXCEPT ![a] = TRUE] /\ stack_of_stacks' = stack_of_stacks
    BY Zenon, <2>1 DEF GetStack
  <2>3. /\ DOMAIN is_initial_stack_used' = Addresses /\ is_initial_stack_used'[a] = TRUE
        /\ \A b \in Addresses \ {a} : is_initial_stack_used'[b] = is_initial_stack_used[b]
    BY Zenon, <1>1, <2>2
  <2>4. Push(a, s[1])
    BY Zenon, <2>1, <2>2, <2>3 DEF Push
  <2>5. compartment_enter(a, s[1])
    BY Zenon, <2>1
  <2> QED BY Zenon, <1>1, <1>5, <1>6, <2>1, <2>2, <2>3, <2>4, <2>5, EnterStep
<1>7. CASE Total(a) # 0
  <2>1. get_stack(a) = NewStack
    BY Zenon, <1>3, <1>7 DEF get_stack
  <2>2. /\ is_initial_stack_used' = is_initial_stack_used
        /\ stack_of_stacks' = [stack_of_stacks EXCEPT ![a] = Append(s, NewStack)]
    BY Zenon, <1>5, <2>1 DEF GetStack
  <2>3. /\ DOMAIN stack_of_stacks' = Addresses /\ stack_of_stacks'[a] = Append(s, NewStack)
        /\ \A b \in Addresses \ {a} : stack_of_stacks'[b] = stack_of_stacks[b]
    BY Zenon, <1>1, <2>2
  <2>4. is_initial_stack_used'[a] = TRUE
    BY Zenon, <1>3, <1>7, <2>2
  <2>5. Push(a, NewStack)
    BY Zenon, <2>1, <2>2, <2>3, <2>4 DEF Push
  <2>6. compartment_enter(a, NewStack)
    BY Zenon, <2>1
  <2>7. stack_of_stacks'[a] \in Seq(Nat \ {0})
    BY <1>1, <1>2, <2>3, Pushed
  <2> QED BY Zenon, <1>1, <1>2, <1>7, <2>2, <2>3, <2>5, <2>6, <2>7, EnterStep
<1> QED BY Zenon, <1>6, <1>7

\* A new compartment is invoked on its first stack.
LEMMA ConstructStep ==
  ASSUME CompartmentAssumption, CompInv, NEW a \in Addresses, Construct(a)
  PROVE  CompInv'
<1>1. /\ DOMAIN instance = Addresses /\ DOMAIN is_initial_stack_used = Addresses
      /\ DOMAIN stack_of_stacks = Addresses /\ created \in Nat /\ StackOK(a)
  BY Zenon DEF CompInv, CompTypes
<1>2. NewStack \in Nat \ {0}
  BY Zenon, StackIsNew
<1>3. created + 1 \in Nat /\ created + 1 # 0
  BY <1>1
<1>4. /\ InCore /\ instance[a] = 0 /\ Len(calls) < MaxDepth /\ created' = created + 1
      /\ instance' = [instance EXCEPT ![a] = created + 1]
      /\ stack_of_stacks' = [stack_of_stacks EXCEPT ![a] = <<NewStack>>]
      /\ is_initial_stack_used' = [is_initial_stack_used EXCEPT ![a] = TRUE]
      /\ compartment_enter(a, NewStack) /\ calls' = Append(calls, [c |-> a, stack |-> NewStack])
  BY Zenon DEF Construct, CoreCode
<1>5. /\ DOMAIN instance' = Addresses /\ DOMAIN is_initial_stack_used' = Addresses
      /\ DOMAIN stack_of_stacks' = Addresses /\ stack_of_stacks'[a] = <<NewStack>>
      /\ instance'[a] = created + 1 /\ is_initial_stack_used'[a] = TRUE
      /\ \A b \in Addresses \ {a} : /\ stack_of_stacks'[b] = stack_of_stacks[b] /\ instance'[b] = instance[b]
                                    /\ is_initial_stack_used'[b] = is_initial_stack_used[b]
  BY Zenon, <1>1, <1>4
<1>6. Push(a, NewStack)
  BY Zenon, <1>3, <1>4, <1>5 DEF Push
<1>7. <<NewStack>> \in Seq(Nat \ {0}) /\ Len(<<NewStack>>) = 1 /\ <<NewStack>>[1] = NewStack
  BY <1>2
<1>8. Total(a) = 0
  BY Zenon, <1>1, <1>4 DEF StackOK
<1>9. stack_of_stacks'[a] \in Seq(Nat \ {0}) /\ Len(stack_of_stacks'[a]) = 1 /\ stack_of_stacks'[a][1] = NewStack
  BY Zenon, <1>5, <1>7
<1>10. created' \in Nat
  BY Zenon, <1>3, <1>4
<1> QED BY Zenon, <1>2, <1>4, <1>5, <1>6, <1>8, <1>9, <1>10, EnterStep

\* A compartment without invocations goes, and its stacks with it.
LEMMA DestructStep ==
  ASSUME CompInv, NEW a \in Addresses, Destruct(a)
  PROVE  CompInv'
<1>1. /\ DOMAIN instance = Addresses /\ DOMAIN is_initial_stack_used = Addresses
      /\ DOMAIN stack_of_stacks = Addresses /\ (\A b \in Addresses : stack_of_stacks[b] \in Seq(Nat \ {0}))
      /\ kstack \in Seq(Entry) /\ calls \in Seq(Call) /\ sp \in Nat /\ created \in Nat /\ Len(calls) <= MaxDepth
      /\ \A b \in Addresses : StackOK(b)
  BY Zenon DEF CompInv, CompTypes
<1>2. /\ InCore /\ ~Active(a) /\ instance' = [instance EXCEPT ![a] = 0]
      /\ stack_of_stacks' = [stack_of_stacks EXCEPT ![a] = <<>>]
      /\ is_initial_stack_used' = is_initial_stack_used /\ calls' = calls /\ created' = created
      /\ kstack' = kstack /\ last_sp' = last_sp /\ sp' = sp
  BY Zenon DEF Destruct, CoreCode, cpu
<1>3. /\ DOMAIN instance' = Addresses /\ DOMAIN stack_of_stacks' = Addresses
      /\ instance'[a] = 0 /\ stack_of_stacks'[a] = <<>>
      /\ \A b \in Addresses \ {a} : stack_of_stacks'[b] = stack_of_stacks[b] /\ instance'[b] = instance[b]
  BY Zenon, <1>1, <1>2
<1>4. <<>> \in Seq(Nat \ {0}) /\ Len(<<>>) = 0 /\ (\A i \in 1..0 : FALSE)
  OBVIOUS
<1>5. \A b \in Addresses : stack_of_stacks'[b] \in Seq(Nat \ {0})
  BY Zenon, <1>1, <1>3, <1>4
<1>6. LinksFollowInvocations' /\ UserInv'
  <2>1. LinksFollowInvocations
    BY Zenon DEF CompInv
  <2> QED BY Zenon, <1>2, <2>1 DEF LinksFollowInvocations, Linked, InCore, UserInv
<1>7. \A b : Total(b)' = Total(b)
  BY Zenon, <1>2 DEF Total, Count, Mine
<1>8. Total(a) = 0 /\ \A i \in 1..Len(calls) : calls[i].c # a
  BY Zenon, <1>2, NoneActive DEF Active
<1>9. StackOK(a)'
  <2>1. is_initial_stack_used[a] \in BOOLEAN
    BY Zenon, <1>1 DEF StackOK
  <2>2. Distinct(<<>>)
    BY Zenon, <1>4 DEF Distinct
  <2> QED BY Zenon, <1>2, <1>3, <1>7, <1>8, <2>1, <2>2 DEF StackOK
<1>10. ASSUME NEW b \in Addresses, b # a PROVE StackOK(b)'
  <2>1. StackOK(b) /\ stack_of_stacks'[b] = stack_of_stacks[b] /\ instance'[b] = instance[b]
    BY Zenon, <1>1, <1>3, <1>10
  <2> QED BY Zenon, <1>2, <2>1 DEF StackOK, Total, Count, Mine
<1>11. \A b \in Addresses : StackOK(b)'
  BY Zenon, <1>9, <1>10
<1> QED BY Zenon, <1>1, <1>2, <1>3, <1>5, <1>6, <1>11 DEF CompInv, CompTypes

\* Nothing that the invariant speaks of changes.
LEMMA SameStep ==
  ASSUME CompInv, UNCHANGED <<instance, stacks, cpu, calls, created>>
  PROVE  CompInv'
<1>1. UNCHANGED <<instance, stack_of_stacks, is_initial_stack_used, calls, created, kstack, last_sp, cr3, tls, sp>>
  BY Zenon DEF stacks, cpu
<1>2. LinksFollowInvocations' /\ UserInv'
  <2>1. LinksFollowInvocations /\ UserInv
    BY Zenon DEF CompInv
  <2> QED BY Zenon, <1>1, <2>1 DEF LinksFollowInvocations, Linked, InCore, UserInv
<1>3. kstack' \in Seq(Entry) /\ sp' \in Nat /\ created' \in Nat
  BY Zenon, <1>1 DEF CompInv, CompTypes
<1> QED BY Zenon, <1>1, <1>2, <1>3, KeepStacks DEF CompInv, CompTypes

\* A call for memory resumes the compartment that made it.
LEMMA MemoryStep ==
  ASSUME CompartmentAssumption, CompInv, NEW checked, MemoryCall(checked)
  PROVE  CompInv'
<1>1. CASE ~checked
  BY Zenon, <1>1, LeaveStep, Depths DEF MemoryCall, abort_kernel_callback
<1>2. CASE checked
  <2>1. /\ ~InCore /\ UNCHANGED <<instance, stacks, kstack, last_sp, calls, created>>
        /\ cr3' = kstack[last_sp].c /\ tls' = kstack[last_sp].c /\ sp' = sp
    BY Zenon, <1>2 DEF MemoryCall, compartment_resume, object
  <2>2. kstack[last_sp].c = calls[Len(calls)].c
    BY Zenon, <2>1, Depths
  <2>3. cr3' = cr3 /\ tls' = tls
    BY Zenon, <2>1, <2>2 DEF CompInv, UserInv
  <2> QED BY Zenon, <2>1, <2>3, SameStep DEF cpu
<1> QED BY Zenon, <1>1, <1>2

\* A callback of the last invocation: its frame keeps the stack to resume on.
LEMMA CallbackStep ==
  ASSUME CompartmentAssumption, CompInv, NEW index \in Nat, NEW data, NEW ret,
         compartment_callback(index, data, ret)
  PROVE  CompInv'
<1>0. ~InCore
  BY Zenon DEF compartment_callback
<1>1. CASE index >= callbacks[kstack[last_sp].c] \/ ~data \/ ~ret
  BY Zenon, <1>0, <1>1, LeaveStep, Depths DEF compartment_callback, abort_kernel_callback
<1>2. CASE ~(index >= callbacks[kstack[last_sp].c] \/ ~data \/ ~ret)
  <2>0. PICK d : d = Len(calls)
    BY Zenon
  <2> DEFINE e == [kind |-> "frame", c |-> Kernel, last_sp |-> 0, sp |-> sp, index |-> index]
  <2>1. /\ kstack' = Append(SubSeq(kstack, 1, last_sp), e) /\ sp' = 0
        /\ UNCHANGED <<instance, stack_of_stacks, is_initial_stack_used, last_sp, calls, created>>
    BY Zenon, <1>2 DEF compartment_callback, object, stacks
  <2>2. /\ d \in Nat /\ d > 0 /\ kstack \in Seq(Entry) /\ Len(kstack) \in Nat /\ Len(kstack) = 2 * d - 1
        /\ last_sp = Len(kstack) /\ (\A i \in 1..d : Linked(i)) /\ last_sp = IF d = 0 THEN 0 ELSE 2 * d - 1
    BY Zenon, <1>0, <2>0, Depths
  <2>3. sp \in Nat /\ sp = calls[d].stack /\ created \in Nat
    BY Zenon, <1>0, <2>0 DEF CompInv, CompTypes, UserInv
  <2>4. e \in Entry /\ e.kind = "frame" /\ e.sp = sp
    <3>1. 0 \in Nat
      OBVIOUS
    <3> QED BY Zenon, <2>3, <3>1 DEF Entry
  <2> HIDE DEF e
  <2>5. /\ Len(kstack) \in 0..Len(kstack) /\ Len(kstack) + 1 = 2 * d /\ d \in 1..d
        /\ \A i \in 1..d : /\ 2 * i - 1 \in 1..Len(kstack)
                           /\ (i # d => 2 * i \in 1..Len(kstack) /\ 2 * i <= Len(kstack))
    BY <2>2
  <2>6. PICK t : t = SubSeq(kstack, 1, Len(kstack))
    BY Zenon
  <2>7. t \in Seq(Entry) /\ Len(t) = Len(kstack) /\ \A i \in 1..Len(kstack) : t[i] = kstack[i]
    BY <2>2, <2>5, <2>6, Cut
  <2>8. /\ kstack' \in Seq(Entry) /\ Len(kstack') = Len(t) + 1
        /\ (\A i \in 1..Len(t) : kstack'[i] = t[i]) /\ kstack'[Len(t) + 1] = e
    <3>1. kstack' = Append(t, e)
      BY Zenon, <2>1, <2>2, <2>6
    <3> QED BY <2>4, <2>7, <3>1, Pushed
  <2>9. /\ Len(kstack') = 2 * d /\ (\A i \in 1..Len(kstack) : kstack'[i] = kstack[i]) /\ kstack'[2 * d] = e
    BY Zenon, <2>5, <2>7, <2>8
  <2>10. ASSUME NEW i \in 1..d PROVE Linked(i)'
    <3>1. Linked(i) /\ calls'[i] = calls[i] /\ kstack'[2 * i - 1] = kstack[2 * i - 1]
      BY Zenon, <2>1, <2>2, <2>5, <2>9
    <3>2. CASE i = d
      BY Zenon, <2>3, <2>4, <2>9, <3>1, <3>2 DEF Linked
    <3>3. CASE i # d
      BY Zenon, <2>5, <2>9, <3>1, <3>3, KeepLink
    <3> QED BY Zenon, <3>2, <3>3
  <2>11. LinksFollowInvocations' /\ UserInv'
    BY Zenon, <2>0, <2>1, <2>2, <2>9, <2>10 DEF LinksFollowInvocations, InCore, UserInv
  <2>12. sp' \in Nat /\ created' \in Nat
    <3>1. 0 \in Nat
      OBVIOUS
    <3> QED BY Zenon, <2>1, <2>3, <3>1
  <2> QED BY Zenon, <2>1, <2>8, <2>11, <2>12, KeepStacks DEF CompInv, CompTypes
<1> QED BY Zenon, <1>1, <1>2

\* The callback returns to the invocation whose frame is on top.
LEMMA ReturnStep ==
  ASSUME CompInv, CallbackReturn
  PROVE  CompInv'
<1>0. PICK d : d = Len(calls)
  BY Zenon
<1>1. /\ InCore /\ kstack # <<>> /\ kstack' = SubSeq(kstack, 1, Len(kstack) - 1)
      /\ cr3' = kstack[last_sp].c /\ tls' = kstack[last_sp].c /\ sp' = kstack[Len(kstack)].sp
      /\ UNCHANGED <<instance, stack_of_stacks, is_initial_stack_used, last_sp, calls, created>>
  BY Zenon DEF CallbackReturn, compartment_resume, Pop, Top, object, stacks
<1>2. /\ d \in Nat /\ kstack \in Seq(Entry) /\ Len(kstack) \in Nat /\ Len(kstack) = 2 * d
      /\ (\A i \in 1..d : Linked(i)) /\ last_sp = (IF d = 0 THEN 0 ELSE 2 * d - 1) /\ calls \in Seq(Call)
  BY Zenon, <1>0, <1>1, Depths
<1>3. Len(kstack) # 0
  BY <1>1, <1>2
<1>4. /\ d > 0 /\ d # 0 /\ d \in 1..d /\ 2 * d <= 2 * d
      /\ Len(kstack) - 1 = 2 * d - 1 /\ Len(kstack) - 1 \in 0..Len(kstack)
      /\ \A i \in 1..d : /\ 2 * i - 1 \in 1..2 * d - 1
                         /\ (i # d => 2 * i \in 1..2 * d - 1 /\ 2 * i <= 2 * d)
                         /\ (i = d => ~(2 * i <= 2 * d - 1))
  BY <1>2, <1>3
<1>5. Linked(d)
  BY Zenon, <1>2, <1>4
<1>6. kstack[2 * d - 1].c = calls[d].c /\ kstack[2 * d].sp = calls[d].stack
  BY Zenon, <1>2, <1>4, <1>5 DEF Linked
<1>7. calls[d].stack \in Nat \ {0}
  <2>1. calls[d] \in Call
    BY Zenon, <1>0, <1>2, <1>4, ElementOfSeq
  <2> QED BY <2>1 DEF Call
<1>8. cr3' = calls[d].c /\ tls' = calls[d].c /\ sp' = calls[d].stack
  BY Zenon, <1>1, <1>2, <1>4, <1>6
<1>9. kstack' \in Seq(Entry) /\ Len(kstack') = 2 * d - 1 /\ \A i \in 1..2 * d - 1 : kstack'[i] = kstack[i]
  <2>1. kstack' \in Seq(Entry) /\ Len(kstack') = Len(kstack) - 1 /\ \A i \in 1..Len(kstack) - 1 : kstack'[i] = kstack[i]
    BY <1>1, <1>2, <1>4, Cut
  <2> QED BY Zenon, <1>4, <2>1
<1>10. ASSUME NEW i \in 1..d PROVE Linked(i)'
  <2>1. Linked(i) /\ calls'[i] = calls[i] /\ kstack'[2 * i - 1] = kstack[2 * i - 1]
    BY Zenon, <1>1, <1>2, <1>4, <1>9
  <2>2. CASE i = d
    BY Zenon, <1>4, <1>9, <2>1, <2>2 DEF Linked
  <2>3. CASE i # d
    BY Zenon, <1>2, <1>4, <1>9, <2>1, <2>3, KeepLink
  <2> QED BY Zenon, <2>2, <2>3
<1>11. LinksFollowInvocations' /\ UserInv'
  <2>1. ~InCore'
    BY <1>7, <1>8 DEF InCore
  <2> QED BY Zenon, <1>0, <1>1, <1>2, <1>4, <1>8, <1>9, <1>10, <2>1 DEF LinksFollowInvocations, UserInv
<1>12. sp' \in Nat /\ created' \in Nat
  <2>1. sp' \in Nat
    BY <1>7, <1>8
  <2> QED BY Zenon, <1>1, <2>1 DEF CompInv, CompTypes
<1> QED BY Zenon, <1>1, <1>9, <1>11, <1>12, KeepStacks DEF CompInv, CompTypes

\* No compartment lives at the start.
LEMMA CompInitial == ASSUME CompartmentAssumption, Init PROVE CompInv
<1>1. /\ <<>> \in Seq(Entry) /\ <<>> \in Seq(Call) /\ <<>> \in Seq(Nat \ {0}) /\ Len(<<>>) = 0
      /\ 0 \in Nat /\ 2 * 0 = 0 /\ (\A i \in 1..0 : FALSE)
  OBVIOUS
<1>2. MaxDepth \in Nat /\ 0 <= MaxDepth
  BY DEF CompartmentAssumption
<1>3. CompTypes
  BY Zenon, <1>1, <1>2 DEF Init, CompTypes
<1>4. LinksFollowInvocations /\ UserInv
  BY Zenon, <1>1 DEF Init, LinksFollowInvocations, InCore, UserInv
<1>5. ASSUME NEW a \in Addresses PROVE StackOK(a)
  <2>1. stack_of_stacks[a] = <<>> /\ calls = <<>> /\ instance[a] = 0 /\ is_initial_stack_used[a] = FALSE
    BY Zenon DEF Init
  <2>2. Total(a) = 0
    <3>1. Mine(<<>>, 0, a) = {}
      BY Zenon, <1>1 DEF Mine
    <3>2. Cardinality({}) = 0
      BY Zenon, FS_EmptySet
    <3> QED BY Zenon, <1>1, <2>1, <3>1, <3>2 DEF Total, Count
  <2>3. Distinct(<<>>)
    BY Zenon, <1>1 DEF Distinct
  <2>4. \A i \in 1..Len(calls) : FALSE
    BY Zenon, <1>1, <2>1
  <2> QED BY Zenon, <2>1, <2>2, <2>3, <2>4 DEF StackOK
<1> QED BY Zenon, <1>3, <1>4, <1>5 DEF CompInv

\* Every step keeps the invariant.
LEMMA CompPreserved == ASSUME CompartmentAssumption, CompInv, [Next]_vars PROVE CompInv'
<1>1. ASSUME NEW a \in Addresses, register_callback(a) PROVE CompInv'
  BY Zenon, <1>1, SameStep DEF register_callback
<1>2. ASSUME NEW a \in Addresses, invoke_typed(a) PROVE CompInv'
  <2>1. CASE is_valid[a]
    BY Zenon, <1>2, <2>1, InvokeStep DEF invoke_typed, CoreCode, object
  <2>2. CASE ~is_valid[a]
    BY Zenon, <1>2, <2>2, SameStep DEF invoke_typed, object
  <2> QED BY Zenon, <2>1, <2>2
<1>3. ASSUME compartment_return \/ compartment_exit PROVE CompInv'
  BY Zenon, <1>3, LeaveStep, Depths DEF compartment_return, compartment_exit
<1>4. ASSUME compartment_alloc_chunk \/ compartment_alloc_meta_data \/ compartment_dealloc_chunk PROVE CompInv'
  BY Zenon, <1>4, MemoryStep DEF compartment_alloc_chunk, compartment_alloc_meta_data, compartment_dealloc_chunk
<1>5. ASSUME NEW index \in 0..MaxCallbacks, NEW data, NEW ret, compartment_callback(index, data, ret) PROVE CompInv'
  <2>1. index \in Nat
    OBVIOUS
  <2> QED BY Zenon, <1>5, <2>1, CallbackStep
<1>6. ASSUME UNCHANGED vars PROVE CompInv'
  BY Zenon, <1>6, SameStep DEF vars, object
<1>7. ASSUME AbortCallback PROVE CompInv'
  <2>1. InCore /\ kstack # <<>> /\ LeaveCompartment(FALSE)
    BY Zenon, <1>7 DEF AbortCallback, abort_kernel_callback
  <2>2. kstack \in Seq(Entry) /\ Len(kstack) = 2 * Len(calls) /\ Len(calls) \in Nat
    BY Zenon, <2>1, Depths
  <2>3. Len(calls) > 0
    BY <2>1, <2>2
  <2> QED BY Zenon, <2>1, <2>3, LeaveStep
<1> QED BY Zenon, <1>1, <1>2, <1>3, <1>4, <1>5, <1>6, <1>7, ConstructStep, DestructStep, ReturnStep DEF Next

\* The stack of an invocation is one of those its compartment has, at a place of
\* its own.
LEMMA CallStacks ==
  ASSUME CompInv, NEW i \in 1..Len(calls), NEW a, a = calls[i].c
  PROVE  /\ a \in Addresses /\ Len(calls) \in Nat /\ StackOK(a) /\ instance[a] # 0
         /\ Count(calls, i, a) \in 1..Len(stack_of_stacks[a])
         /\ stack_of_stacks[a][Count(calls, i, a)] = calls[i].stack
<1>1. calls \in Seq(Call) /\ Len(calls) \in Nat
  BY Zenon, Depths
<1>2. a \in Addresses
  <2>1. calls[i] \in Call
    BY Zenon, <1>1, ElementOfSeq
  <2> QED BY <2>1 DEF Call
<1>3. StackOK(a)
  BY Zenon, <1>2 DEF CompInv
<1>4. i \in Nat /\ i > 0 /\ i <= Len(calls)
  BY <1>1
<1>5. Count(calls, i, a) \in Nat /\ Count(calls, i, a) > 0 /\ Count(calls, i, a) <= Total(a) /\ Total(a) \in Nat
  BY Zenon, <1>1, <1>4, CountIs, CountGrows DEF Total
<1>6. Total(a) # 0
  BY <1>5
<1>7. instance[a] # 0 /\ Len(stack_of_stacks[a]) = Total(a)
  BY Zenon, <1>3, <1>6 DEF StackOK
<1>8. Count(calls, i, a) \in 1..Len(stack_of_stacks[a])
  BY <1>5, <1>7
<1> QED BY Zenon, <1>1, <1>2, <1>3, <1>7, <1>8 DEF StackOK

\* The invariant implies the properties.
LEMMA CompSafe ==
  ASSUME CompInv
  PROVE  RunsInItsCompartment /\ LinksFollowInvocations /\ StackPerInvocation
<1>0. Len(calls) \in Nat
  BY Zenon, Depths
<1>1. RunsInItsCompartment
  <2> SUFFICES ASSUME ~InCore
               PROVE  /\ cr3 = calls[Len(calls)].c /\ tls = calls[Len(calls)].c /\ sp = calls[Len(calls)].stack
                      /\ \E i \in 1..Len(stack_of_stacks[calls[Len(calls)].c]) :
                             stack_of_stacks[calls[Len(calls)].c][i] = sp
    BY Zenon DEF RunsInItsCompartment, Top
  <2>1. Len(calls) > 0 /\ cr3 = calls[Len(calls)].c /\ tls = calls[Len(calls)].c /\ sp = calls[Len(calls)].stack
    BY Zenon DEF CompInv, UserInv
  <2>2. Len(calls) \in 1..Len(calls)
    BY <1>0, <2>1
  <2> QED BY Zenon, <2>1, <2>2, CallStacks
<1>2. ASSUME NEW a \in Addresses, instance[a] # 0, NEW i \in Mine(calls, Len(calls), a),
             NEW j \in Mine(calls, Len(calls), a), i # j
      PROVE  calls[i].stack # calls[j].stack
  <2> DEFINE m == Count(calls, i, a)
             n == Count(calls, j, a)
             s == stack_of_stacks[a]
  <2>1. i \in 1..Len(calls) /\ calls[i].c = a /\ j \in 1..Len(calls) /\ calls[j].c = a
    BY Zenon DEF Mine
  <2>2. m \in 1..Len(s) /\ s[m] = calls[i].stack /\ n \in 1..Len(s) /\ s[n] = calls[j].stack /\ StackOK(a)
    BY Zenon, <2>1, CallStacks
  <2>3. i \in Nat /\ j \in Nat /\ (i < j \/ j < i) /\ (i < j => i <= j) /\ (j < i => j <= i)
    BY <1>0, <1>2, <2>1
  <2>4. m \in Nat /\ n \in Nat /\ (m < n \/ n < m)
    BY Zenon, <2>1, <2>3, CountIs, CountGrows
  <2>5. m # n
    <3> HIDE DEF m, n
    <3> QED BY <2>4
  <2> QED BY Zenon, <2>2, <2>5 DEF StackOK, Distinct
<1>3. ASSUME NEW a \in Addresses, instance[a] # 0
      PROVE  /\ Len(stack_of_stacks[a]) = IF Mine(calls, Len(calls), a) = {} THEN 1
                                          ELSE Cardinality(Mine(calls, Len(calls), a))
             /\ is_initial_stack_used[a] = (Mine(calls, Len(calls), a) # {})
  <2>1. /\ StackOK(a) /\ (Total(a) = 0 <=> Mine(calls, Len(calls), a) = {})
        /\ Total(a) = Cardinality(Mine(calls, Len(calls), a))
    BY Zenon, <1>0, CountIs DEF CompInv, Total, Count
  <2> QED BY Zenon, <1>3, <2>1 DEF StackOK
<1>4. StackPerInvocation
  BY Zenon, <1>2, <1>3 DEF StackPerInvocation, Mine
<1> QED BY Zenon, <1>1, <1>4 DEF CompInv

\* Through any nesting of invocations, callbacks, exits and aborts, user code
\* runs with the page table, TLS and stack of its own invocation, last_stack_ptr
\* leads from each saved state to the one before, and every invocation has a
\* stack of its own, which its compartment keeps no longer than it is needed.
THEOREM CallsNest == Spec => []InvocationsNest
<1>1. CompInv => InvocationsNest
  BY Zenon, CompSafe DEF InvocationsNest
<1>2. Init => CompInv
  BY Zenon, CompInitial, CompartmentsAssumption
<1>3. CompInv /\ [Next]_vars => CompInv'
  BY Zenon, CompPreserved, CompartmentsAssumption
<1> QED BY <1>1, <1>2, <1>3, PTL DEF Spec

-----------------------------------------------------------------------------
(* CompartmentMemory. *)

\* The types that the steps keep.
DataTypes ==
  /\ alive \subseteq Objects /\ base \in [Objects -> Nat] /\ alloc_size \in [Objects -> Nat]
  /\ block \in [Data!Blocks -> Nat] /\ filled \in [Objects -> Nat]

\* What is true of an object: it has a block of its size, or none.
ObjectOK(o) ==
  /\ base[o] = 0 => alloc_size[o] = 0
  /\ base[o] # 0 => base[o] \in Data!Blocks /\ block[base[o]] = alloc_size[o] /\ alloc_size[o] # 0
  /\ filled[o] <= alloc_size[o]

\* No two objects have a block in common, and every block is had.
DataInv ==
  /\ DataTypes /\ \A o \in alive : ObjectOK(o)
  /\ \A o, p \in alive : base[o] = base[p] /\ base[o] # 0 => o = p
  /\ \A b \in Data!Blocks : block[b] # 0 => \E o \in alive : base[o] = b

-----------------------------------------------------------------------------

\* A block is not the null pointer.
LEMMA BlockNumbers == 0 \notin Data!Blocks /\ Data!Blocks \subseteq Nat
  BY DEF Data!Blocks

\* do_alloc asks for a positive size.
LEMMA SizeIs ==
  ASSUME Data!CompartmentMemoryAssumption, NEW count \in 0..MaxCount, count # 0
  PROVE  Data!alloc_size_for(count) \in Nat /\ Data!alloc_size_for(count) # 0
<1>1. SizeOfT \in Nat /\ SizeOfT # 0 /\ MaxCount \in Nat /\ MIN_CHUNK_SIZE \in Nat /\ MIN_CHUNK_SIZE # 0
  BY DEF Data!CompartmentMemoryAssumption
<1>2. \A c, t, m \in Nat : c # 0 /\ t # 0 /\ c <= m => c * t \in 1..m * t
  OBVIOUS
<1>3. count \in Nat /\ count <= MaxCount
  BY <1>1
<1>4. count * SizeOfT \in 1..MaxCount * SizeOfT
  BY Zenon, <1>1, <1>2, <1>3
<1>5. Data!next_pow2(count * SizeOfT) \in Nat
  BY Zenon, <1>4 DEF Data!CompartmentMemoryAssumption
<1>6. \A p, m \in Nat : m # 0 => (IF p > m THEN p ELSE m) \in Nat /\ (IF p > m THEN p ELSE m) # 0
  OBVIOUS
<1> QED BY Zenon, <1>1, <1>5, <1>6 DEF Data!alloc_size_for, Data!Larger

\* The objects that a step leaves alone.
LEMMA Untouched ==
  ASSUME NEW o, ObjectOK(o), base'[o] = base[o], alloc_size'[o] = alloc_size[o], filled'[o] = filled[o],
         base[o] # 0 => block'[base[o]] = block[base[o]]
  PROVE  ObjectOK(o)'
  BY Zenon DEF ObjectOK, Data!Blocks

\* An object is constructed, with a free block or none.
LEMMA TakeStep ==
  ASSUME Data!CompartmentMemoryAssumption, DataInv, NEW o \in Objects, NEW n \in 0..MaxCount, Data!Construct(o, n)
  PROVE  DataInv'
<1>0. 0 \in Nat /\ 0 <= 0
  OBVIOUS
<1>1. /\ alive \subseteq Objects /\ base \in [Objects -> Nat] /\ alloc_size \in [Objects -> Nat]
      /\ block \in [Data!Blocks -> Nat] /\ filled \in [Objects -> Nat] /\ (\A p \in alive : ObjectOK(p))
      /\ (\A p, q \in alive : base[p] = base[q] /\ base[p] # 0 => p = q)
      /\ \A b \in Data!Blocks : block[b] # 0 => \E p \in alive : base[p] = b
  BY Zenon DEF DataInv, DataTypes
<1>2. /\ o \notin alive /\ alive' = alive \cup {o} /\ filled' = [filled EXCEPT ![o] = 0]
  BY Zenon DEF Data!Construct
<1>3. filled' \in [Objects -> Nat] /\ filled'[o] = 0 /\ \A p \in alive : filled'[p] = filled[p]
  BY Zenon, <1>0, <1>1, <1>2
<1>4. CASE n = 0
  <2>1. /\ base' = [base EXCEPT ![o] = 0] /\ alloc_size' = [alloc_size EXCEPT ![o] = 0] /\ block' = block
    BY Zenon, <1>4 DEF Data!Construct
  <2>2. /\ base' \in [Objects -> Nat] /\ alloc_size' \in [Objects -> Nat] /\ base'[o] = 0 /\ alloc_size'[o] = 0
        /\ \A p \in alive : base'[p] = base[p] /\ alloc_size'[p] = alloc_size[p]
    BY Zenon, <1>0, <1>1, <1>2, <2>1
  <2>3. ObjectOK(o)'
    BY Zenon, <1>0, <1>3, <2>2 DEF ObjectOK
  <2>4. \A p \in alive : ObjectOK(p)'
    BY Zenon, <1>1, <1>3, <2>1, <2>2, Untouched
  <2>5. \A p, q \in alive' : base'[p] = base'[q] /\ base'[p] # 0 => p = q
    BY <1>1, <1>2, <2>2
  <2>6. \A b \in Data!Blocks : block'[b] # 0 => \E p \in alive' : base'[p] = b
    BY Zenon, <1>1, <1>2, <2>1, <2>2
  <2> QED BY Zenon, <1>1, <1>2, <1>3, <2>1, <2>2, <2>3, <2>4, <2>5, <2>6 DEF DataInv, DataTypes, Data!Blocks
<1>5. CASE n # 0
  <2> DEFINE z == Data!alloc_size_for(n)
  <2>1. PICK b \in Data!Free : /\ base' = [base EXCEPT ![o] = b] /\ alloc_size' = [alloc_size EXCEPT ![o] = z]
                               /\ block' = [block EXCEPT ![b] = z]
    BY Zenon, <1>5 DEF Data!Construct
  <2>2. z \in Nat /\ z # 0 /\ b \in Data!Blocks /\ block[b] = 0 /\ b \in Nat /\ b # 0 /\ 0 <= z
    <3>1. z \in Nat /\ z # 0
      BY Zenon, <1>5, SizeIs
    <3>2. 0 <= z
      <4> HIDE DEF z
      <4> QED BY <3>1
    <3> QED BY Zenon, <3>1, <3>2, BlockNumbers DEF Data!Free
  <2> HIDE DEF z
  <2>3. /\ base' \in [Objects -> Nat] /\ alloc_size' \in [Objects -> Nat] /\ block' \in [Data!Blocks -> Nat]
        /\ base'[o] = b /\ alloc_size'[o] = z /\ block'[b] = z
        /\ (\A p \in alive : base'[p] = base[p] /\ alloc_size'[p] = alloc_size[p])
        /\ \A c \in Data!Blocks : c # b => block'[c] = block[c]
    BY Zenon, <1>1, <1>2, <2>1, <2>2
  <2>4. ObjectOK(o)'
    BY Zenon, <1>3, <2>2, <2>3 DEF ObjectOK, Data!Blocks
  <2>5. \A p \in alive : base[p] # b
    BY Zenon, <1>1, <2>2 DEF ObjectOK
  <2>6. ASSUME NEW p \in alive PROVE ObjectOK(p)'
    <3>1. base[p] # 0 => block'[base[p]] = block[base[p]]
      BY Zenon, <1>1, <2>3, <2>5 DEF ObjectOK
    <3> QED BY Zenon, <1>1, <1>3, <2>3, <3>1, Untouched
  <2>7. \A p, q \in alive' : base'[p] = base'[q] /\ base'[p] # 0 => p = q
    BY <1>1, <1>2, <2>3, <2>5
  <2>8. \A c \in Data!Blocks : block'[c] # 0 => \E p \in alive' : base'[p] = c
    BY <1>1, <1>2, <2>3
  <2> QED BY Zenon, <1>1, <1>2, <1>3, <2>3, <2>4, <2>6, <2>7, <2>8 DEF DataInv, DataTypes, Data!Blocks
<1> QED BY Zenon, <1>4, <1>5

\* The block goes to another object.
LEMMA MoveStep ==
  ASSUME DataInv, NEW o \in Objects, NEW source \in Objects, Data!MoveConstruct(o, source)
  PROVE  DataInv'
<1>0. 0 \in Nat /\ 0 <= 0
  OBVIOUS
<1>1. /\ alive \subseteq Objects /\ base \in [Objects -> Nat] /\ alloc_size \in [Objects -> Nat]
      /\ block \in [Data!Blocks -> Nat] /\ filled \in [Objects -> Nat] /\ (\A p \in alive : ObjectOK(p))
      /\ (\A p, q \in alive : base[p] = base[q] /\ base[p] # 0 => p = q)
      /\ \A b \in Data!Blocks : block[b] # 0 => \E p \in alive : base[p] = b
  BY Zenon DEF DataInv, DataTypes
<1>2. /\ o \notin alive /\ source \in alive /\ o # source /\ alive' = alive \cup {o} /\ block' = block
      /\ base' = [base EXCEPT ![o] = base[source], ![source] = 0]
      /\ alloc_size' = [alloc_size EXCEPT ![o] = alloc_size[source], ![source] = 0]
      /\ filled' = [filled EXCEPT ![o] = filled[source], ![source] = 0]
  BY Zenon DEF Data!MoveConstruct, Data!Move
<1>3. base' \in [Objects -> Nat] /\ alloc_size' \in [Objects -> Nat] /\ filled' \in [Objects -> Nat]
  BY <1>1, <1>2
<1>4. /\ base'[o] = base[source] /\ base'[source] = 0 /\ (\A p \in alive : p # source => base'[p] = base[p])
      /\ alloc_size'[o] = alloc_size[source] /\ alloc_size'[source] = 0
      /\ (\A p \in alive : p # source => alloc_size'[p] = alloc_size[p])
      /\ filled'[o] = filled[source] /\ filled'[source] = 0 /\ (\A p \in alive : p # source => filled'[p] = filled[p])
  BY Zenon, <1>1, <1>2
<1>5. ObjectOK(o)'
  BY Zenon, <1>1, <1>2, <1>4 DEF ObjectOK, Data!Blocks
<1>6. ObjectOK(source)'
  BY Zenon, <1>0, <1>4 DEF ObjectOK
<1>7. \A p \in alive : p # source => ObjectOK(p)'
  BY Zenon, <1>1, <1>2, <1>4, Untouched
<1>8. \A p, q \in alive' : base'[p] = base'[q] /\ base'[p] # 0 => p = q
  BY <1>1, <1>2, <1>4
<1>9. \A c \in Data!Blocks : block'[c] # 0 => \E p \in alive' : base'[p] = c
  BY Zenon, <1>1, <1>2, <1>4
<1>10. \A p \in alive' : ObjectOK(p)'
  BY Zenon, <1>2, <1>5, <1>6, <1>7
<1> QED BY Zenon, <1>1, <1>2, <1>3, <1>8, <1>9, <1>10 DEF DataInv, DataTypes, Data!Blocks

\* An object goes, and gives back its block.
LEMMA GiveBackStep ==
  ASSUME DataInv, NEW o \in Objects, Data!Destruct(o)
  PROVE  DataInv'
<1>0. 0 \in Nat /\ ~(0 > 0) /\ \A n \in Nat : n # 0 => n > 0
  OBVIOUS
<1>1. /\ alive \subseteq Objects /\ base \in [Objects -> Nat] /\ alloc_size \in [Objects -> Nat]
      /\ block \in [Data!Blocks -> Nat] /\ filled \in [Objects -> Nat] /\ (\A p \in alive : ObjectOK(p))
      /\ (\A p, q \in alive : base[p] = base[q] /\ base[p] # 0 => p = q)
      /\ \A b \in Data!Blocks : block[b] # 0 => \E p \in alive : base[p] = b
  BY Zenon DEF DataInv, DataTypes
<1>2. /\ o \in alive /\ alive' = alive \ {o}
      /\ block' = (IF alloc_size[o] > 0 THEN [block EXCEPT ![base[o]] = 0] ELSE block)
      /\ base' = [base EXCEPT ![o] = 0] /\ alloc_size' = [alloc_size EXCEPT ![o] = 0]
      /\ filled' = [filled EXCEPT ![o] = 0]
  BY Zenon DEF Data!Destruct
<1>3. base' \in [Objects -> Nat] /\ alloc_size' \in [Objects -> Nat] /\ filled' \in [Objects -> Nat]
  BY Zenon, <1>0, <1>1, <1>2
<1>4. \A p \in alive' : /\ base'[p] = base[p] /\ alloc_size'[p] = alloc_size[p] /\ filled'[p] = filled[p]
                        /\ p \in alive /\ p # o
  BY Zenon, <1>1, <1>2
<1>5. ObjectOK(o) /\ alloc_size[o] \in Nat
  BY Zenon, <1>1, <1>2
<1>6. /\ block' \in [Data!Blocks -> Nat]
      /\ (base[o] # 0 => block'[base[o]] = 0) /\ \A c \in Data!Blocks : c # base[o] => block'[c] = block[c]
  <2>1. CASE base[o] = 0
    <3>1. alloc_size[o] = 0
      BY Zenon, <1>5, <2>1 DEF ObjectOK
    <3>2. block' = block
      BY Zenon, <1>0, <1>2, <3>1
    <3> QED BY Zenon, <1>1, <2>1, <3>2
  <2>2. CASE base[o] # 0
    <3>1. alloc_size[o] > 0 /\ base[o] \in Data!Blocks
      BY Zenon, <1>0, <1>5, <2>2 DEF ObjectOK
    <3>2. block' = [block EXCEPT ![base[o]] = 0]
      BY Zenon, <1>2, <3>1
    <3> QED BY Zenon, <1>0, <1>1, <3>1, <3>2
  <2> QED BY Zenon, <2>1, <2>2
<1>7. ASSUME NEW p \in alive' PROVE ObjectOK(p)'
  <2>1. ObjectOK(p) /\ (base[p] # 0 => base[p] # base[o] /\ base[p] \in Data!Blocks)
    BY Zenon, <1>1, <1>2, <1>4 DEF ObjectOK
  <2> QED BY Zenon, <1>4, <1>6, <2>1, Untouched
<1>8. \A p, q \in alive' : base'[p] = base'[q] /\ base'[p] # 0 => p = q
  BY <1>1, <1>4
<1>9. ASSUME NEW c \in Data!Blocks, block'[c] # 0 PROVE \E p \in alive' : base'[p] = c
  <2>1. c # base[o] /\ block[c] # 0
    <3>1. c # 0
      BY Zenon, BlockNumbers
    <3> QED BY Zenon, <1>6, <1>9, <3>1
  <2>2. PICK p \in alive : base[p] = c
    BY Zenon, <1>1, <2>1
  <2> QED BY Zenon, <1>2, <1>4, <2>1, <2>2
<1> QED BY Zenon, <1>1, <1>2, <1>3, <1>6, <1>7, <1>8, <1>9 DEF DataInv, DataTypes, Data!Blocks

\* fill writes inside the block, or not at all.
LEMMA FillStep ==
  ASSUME Data!CompartmentMemoryAssumption, DataInv, NEW o \in Objects, NEW n \in 0..MaxCount, Data!fill(o, n)
  PROVE  DataInv'
<1>1. /\ alive \subseteq Objects /\ base \in [Objects -> Nat] /\ alloc_size \in [Objects -> Nat]
      /\ block \in [Data!Blocks -> Nat] /\ filled \in [Objects -> Nat] /\ (\A p \in alive : ObjectOK(p))
  BY Zenon DEF DataInv, DataTypes
<1>2. UNCHANGED <<base, alloc_size, alive, block>>
  BY Zenon DEF Data!fill
<1>3. filled' \in [Objects -> Nat] /\ \A p \in alive : filled'[p] <= alloc_size[p]
  <2>1. CASE Data!Fits(o, n)
    <3>1. filled' = [filled EXCEPT ![o] = n * SizeOfT]
      BY Zenon, <2>1 DEF Data!fill
    <3>2. n * SizeOfT \in Nat /\ alloc_size[o] \in Nat /\ n * SizeOfT <= alloc_size[o]
      <4>1. SizeOfT \in Nat /\ MaxCount \in Nat
        BY DEF Data!CompartmentMemoryAssumption
      <4>2. \A c \in 0..MaxCount, t \in Nat : c * t \in Nat
        BY <4>1
      <4>3. n * SizeOfT \in Nat /\ n * SizeOfT < alloc_size[o] /\ alloc_size[o] \in Nat
        BY Zenon, <1>1, <2>1, <4>1, <4>2 DEF Data!Fits
      <4>4. \A c, t \in Nat : c < t => c <= t
        OBVIOUS
      <4> QED BY Zenon, <4>3, <4>4
    <3>3. filled' \in [Objects -> Nat]
      BY Zenon, <1>1, <3>1, <3>2
    <3>4. ASSUME NEW p \in alive PROVE filled'[p] <= alloc_size[p]
      <4>1. filled'[p] = IF p = o THEN n * SizeOfT ELSE filled[p]
        BY Zenon, <1>1, <3>1
      <4>2. filled[p] <= alloc_size[p]
        BY Zenon, <1>1 DEF ObjectOK
      <4> QED BY Zenon, <3>2, <4>1, <4>2
    <3> QED BY Zenon, <3>3, <3>4
  <2>2. CASE ~Data!Fits(o, n)
    <3>1. filled' = filled
      BY Zenon, <2>2 DEF Data!fill
    <3> QED BY Zenon, <1>1, <3>1 DEF ObjectOK
  <2> QED BY Zenon, <2>1, <2>2
<1>4. \A p \in alive : ObjectOK(p)'
  BY Zenon, <1>1, <1>2, <1>3 DEF ObjectOK, Data!Blocks
<1> QED BY Zenon, <1>1, <1>2, <1>3, <1>4 DEF DataInv, DataTypes, Data!Blocks

\* No object is alive at the start.
LEMMA DataInitial == ASSUME Data!Init PROVE DataInv
<1>1. 0 \in Nat
  OBVIOUS
<1> QED BY Zenon, <1>1 DEF Data!Init, DataInv, DataTypes

\* Every step keeps the invariant.
LEMMA DataPreserved == ASSUME Data!CompartmentMemoryAssumption, DataInv, [Data!Next]_(Data!vars) PROVE DataInv'
<1>1. ASSUME UNCHANGED Data!vars PROVE DataInv'
  BY Zenon, <1>1 DEF Data!vars, DataInv, DataTypes, ObjectOK, Data!Blocks
<1>2. ASSUME NEW o, NEW n, Data!AllocFails(o, n) PROVE DataInv'
  BY Zenon, <1>2 DEF Data!AllocFails, DataInv, DataTypes, ObjectOK, Data!Blocks
<1> QED BY Zenon, <1>1, <1>2, TakeStep, MoveStep, GiveBackStep, FillStep DEF Data!Next

\* The invariant implies the properties.
LEMMA DataSafe == ASSUME DataInv PROVE Data!BlocksHaveOneOwner /\ Data!FillStaysInside
<1>1. Data!FillStaysInside
  BY Zenon DEF DataInv, ObjectOK, Data!FillStaysInside
<1>2. ASSUME NEW b \in Data!Blocks, block[b] = 0, NEW o \in alive PROVE alloc_size[o] = 0 \/ base[o] # b
  BY Zenon, <1>2 DEF DataInv, ObjectOK
<1>3. ASSUME NEW b \in Data!Blocks, block[b] # 0
      PROVE  \E o \in alive : /\ base[o] = b /\ alloc_size[o] = block[b]
                              /\ \A p \in alive : base[p] = b => p = o
  <2>1. PICK o \in alive : base[o] = b
    BY Zenon, <1>3 DEF DataInv
  <2>2. b # 0
    BY Zenon, BlockNumbers
  <2>3. \A p \in alive : base[p] = b => p = o
    BY Zenon, <2>1, <2>2 DEF DataInv
  <2>4. alloc_size[o] = block[b]
    BY Zenon, <2>1, <2>2 DEF DataInv, ObjectOK
  <2> QED BY Zenon, <2>1, <2>3, <2>4
<1> QED BY Zenon, <1>1, <1>2, <1>3 DEF Data!BlocksHaveOneOwner

\* Through any sequence of constructions, moves and destructions of
\* CompartmentMemory objects a block has one owner, which gives it back with the
\* size it was taken with, and fill stays inside it.
THEOREM OneOwner == Data!Spec => []BlocksHaveOneOwner
<1>1. DataInv => BlocksHaveOneOwner
  BY Zenon, DataSafe DEF BlocksHaveOneOwner
<1>2. Data!Init => DataInv
  BY Zenon, DataInitial
<1>3. DataInv /\ [Data!Next]_(Data!vars) => DataInv'
  BY Zenon, DataPreserved, CompartmentsAssumption
<1> QED BY <1>1, <1>2, <1>3, PTL DEF Data!Spec

=============================================================================
