-------------------------- MODULE SharedStateProofs --------------------------
(***************************************************************************)
(* Proofs about what the cores share: the page map of owners with its      *)
(* lists, for any number of cores, compartments and chunks, and the        *)
(* semaphore, for any set of threads, either build and any number of       *)
(* releases.                                                               *)
(*                                                                         *)
(* OwnershipIsTracked and ListsAreExact speak of the time between calls.   *)
(* Their invariant says which chunks are in the list of a compartment      *)
(* while a call for it is under way, and where in the list forall is.      *)
(*                                                                         *)
(* NoLostWakeup is not inductive as it stands.  It needs to know that the  *)
(* halting thread is the registered waiter (so that a release that still   *)
(* has to load the waiter will find it), and that on the generic platform  *)
(* the generation counter moves exactly when the handler runs (so that a   *)
(* ping whose handler has not run does not leave its loop).                *)
(***************************************************************************)
EXTENDS Ownership, Semaphore, TLAPS

-----------------------------------------------------------------------------
(* Ownership. *)

\* What can be linked.
Nodes == Chunks \cup Compartments

\* The chunks of the block of core k's call that are not in the list.
Unlisted(k) ==
  IF call[k].at = "alloc" THEN call[k].left
  ELSE IF call[k].at = "remove" THEN call[k].block \ call[k].left ELSE {}

\* The chunks in the list of c.
InList(a, c) == holder[a] = c /\ \A k \in Cores : call[k].c = c => a \notin Unlisted(k)
Listed(c) == {a \in Chunks : InList(a, c)}

\* The links n and p are a cycle through c and L, and one without L if they are
\* not set.
Ring(n, p, L, c) ==
  /\ \A x \in L \cup {c} : n[x] \in L \cup {c} /\ p[x] \in L \cup {c} /\ p[n[x]] = x /\ n[p[x]] = x
  /\ \A S \in SUBSET (L \cup {c}) : c \in S /\ (\A x \in S : n[x] \in S) => S = L \cup {c}
\* Links between elements of D, for a list of L with head c.
LinksOK(D, n, p, L, c) ==
  /\ Null \notin D /\ n \in [D -> D \cup {Null}] /\ p \in [D -> D \cup {Null}]
  /\ c \in D /\ L \in SUBSET D /\ c \notin L
ListOK(n, p, L, c) == (n[c] = Null /\ L = {}) \/ Ring(n, p, L, c)

\* The links outside a set are as they were.
SameOutside(D, X, n, p, n2, p2) == \A x \in D : x \notin X => n2[x] = n[x] /\ p2[x] = p[x]

\* The head c is linked, to the successor of e if e was first.
Skips(n, n2, c, e) == n2[c] # Null /\ (n[c] = e => n2[c] = n[e])

\* The types that the steps keep.
Places == {"idle", "alloc", "remove", "forall", "clear"}
Rights == {"none", "kernel", "read", "write"}
Calls == [at : Places, c : Compartments \cup {Null}, block : SUBSET Chunks, left : SUBSET Chunks,
          curr : Nodes \cup {Null}, then : Nodes \cup {Null}]
OwnTypes ==
  /\ serial \in BOOLEAN
  /\ holder \in [Chunks -> Compartments \cup {Null, Free}]
  /\ owner \in [Chunks -> Compartments \cup {Null}]
  /\ next \in [Nodes -> Nodes \cup {Null}] /\ prev \in [Nodes -> Nodes \cup {Null}]
  /\ mapped \in [Compartments -> [Chunks -> Rights]]
  /\ live \subseteq Compartments /\ call \in [Cores -> Calls]

\* What a call has done so far: a call of forall is at the first entry of the
\* list, which it has noted before it removes the entry before.
CallOK(k) ==
  LET r == call[k]
  IN  /\ r.at = "idle" => r = Idle
      /\ r.at # "idle" => r.c \in live
      /\ r.at \in {"alloc", "remove"} => r.left \subseteq r.block /\ \A a \in r.block : holder[a] = r.c
      /\ r.at \notin {"alloc", "remove"} => r.block = {} /\ r.left = {}
      /\ r.at = "remove" /\ r.curr # Null =>
            /\ r.curr \in Chunks /\ r.block = {r.curr} /\ next[r.c] # Null
            /\ IF r.left = {} THEN r.then = next[r.c] ELSE r.curr = next[r.c] /\ r.then = next[r.curr]
      /\ r.at = "forall" => next[r.c] # Null /\ r.curr = next[r.c]
      /\ r.at = "clear" => r.curr \in Chunks /\ next[r.c] # Null /\ r.then = next[r.c]

CallInv == \A k \in Cores : CallOK(k)
CallerInv == \A j, k \in Cores : j # k /\ call[j].at # "idle" /\ call[k].at # "idle" => call[j].c # call[k].c
OwnerInv == \A a \in Chunks : owner[a] \in Compartments => InList(a, owner[a])
ListInv == \A c \in live : ListOK(next, prev, Listed(c), c)
DeadInv == \A c \in Compartments \ live, a \in Chunks : holder[a] # c
WriteInv ==
  \A c \in Compartments, a \in Chunks :
    mapped[c][a] = "write" <=> holder[a] = c /\ \A k \in Cores : call[k].c = c => a \notin call[k].block
SerialInv ==
  serial => /\ \A j, k \in Cores : call[j].at # "idle" /\ call[k].at # "idle" => j = k
            /\ \A c \in Compartments, a \in Chunks : InList(a, c) => owner[a] = c
            /\ \A k \in Cores : call[k].at = "clear" => holder[call[k].curr] = Free

\* The invariant.
OwnInv ==
  /\ OwnTypes /\ CallInv /\ CallerInv /\ OwnerInv /\ ListInv /\ DeadInv /\ WriteInv /\ SerialInv
  /\ ChecksHold

-----------------------------------------------------------------------------
(* Lists. *)

\* A function with another value.
LEMMA Updated ==
  ASSUME NEW D, NEW E, NEW h \in [D -> E], NEW x, NEW y \in E
  PROVE  [h EXCEPT ![x] = y] \in [D -> E]
BY Zenon

\* A list whose links do not change.
LEMMA SameRing ==
  ASSUME NEW n, NEW p, NEW n2, NEW p2, NEW L, NEW c, ListOK(n, p, L, c),
         \A x \in L \cup {c} : n2[x] = n[x] /\ p2[x] = p[x]
  PROVE  ListOK(n2, p2, L, c)
<1>1. ASSUME n[c] = Null, L = {} PROVE ListOK(n2, p2, L, c)
  BY Zenon, <1>1 DEF ListOK
<1>2. ASSUME Ring(n, p, L, c) PROVE Ring(n2, p2, L, c)
  <2>1. \A x \in L \cup {c} : n2[x] \in L \cup {c} /\ p2[x] \in L \cup {c} /\ p2[n2[x]] = x /\ n2[p2[x]] = x
    <3>1. \A x \in L \cup {c} : n[x] \in L \cup {c} /\ p[x] \in L \cup {c} /\ p[n[x]] = x /\ n[p[x]] = x
      BY <1>2, Zenon DEF Ring
    <3> QED BY <3>1
  <2>2. ASSUME NEW S \in SUBSET (L \cup {c}), c \in S, \A x \in S : n2[x] \in S PROVE S = L \cup {c}
    <3>1. \A x \in S : n[x] \in S BY <2>2, Zenon
    <3> QED BY <3>1, <2>2, <1>2, Zenon DEF Ring
  <2> QED BY <2>1, <2>2, Zenon DEF Ring
<1> QED BY <1>1, <1>2, Zenon DEF ListOK

\* lazy_init makes the list a cycle, if it is not.
LEMMA LazyRing ==
  ASSUME NEW D, Null \notin D, NEW n \in [D -> D \cup {Null}], NEW p \in [D -> D \cup {Null}], NEW c \in D,
         NEW L \in SUBSET D, ListOK(n, p, L, c), NEW l, l = lazy_init([next |-> n, prev |-> p], c)
  PROVE  /\ l.next \in [D -> D \cup {Null}] /\ l.prev \in [D -> D \cup {Null}]
         /\ Ring(l.next, l.prev, L, c) /\ l.next[c] # Null
         /\ \A x \in D : x # c => l.next[x] = n[x] /\ l.prev[x] = p[x]
<1>1. CASE n[c] = Null
  <2>1. l.next = [n EXCEPT ![c] = c] /\ l.prev = [p EXCEPT ![c] = c] BY Zenon, <1>1 DEF lazy_init
  <2>2. L = {}
    <3>1. Ring(n, p, L, c) => n[c] \in D BY DEF Ring
    <3> QED BY Zenon, <3>1, <1>1 DEF ListOK
  <2>3. l.next[c] = c /\ l.prev[c] = c BY Zenon, <2>1
  <2>4. Ring(l.next, l.prev, L, c) BY <2>2, <2>3 DEF Ring
  <2>5. l.next \in [D -> D \cup {Null}] /\ l.prev \in [D -> D \cup {Null}]
    <3> c \in D \cup {Null} BY Zenon
    <3>1. [n EXCEPT ![c] = c] \in [D -> D \cup {Null}] BY Zenon, Updated
    <3>2. [p EXCEPT ![c] = c] \in [D -> D \cup {Null}] BY Zenon, Updated
    <3> QED BY <2>1, <3>1, <3>2, Zenon
  <2>6. \A x \in D : x # c => l.next[x] = n[x] /\ l.prev[x] = p[x] BY Zenon, <2>1
  <2>7. l.next[c] # Null BY Zenon, <2>3
  <2> QED BY Zenon, <2>4, <2>5, <2>6, <2>7
<1>2. CASE n[c] # Null
  <2>1. l.next = n /\ l.prev = p BY Zenon, <1>2 DEF lazy_init
  <2>2. Ring(n, p, L, c) BY Zenon, <1>2 DEF ListOK
  <2> QED BY Zenon, <2>1, <2>2, <1>2
<1> QED BY Zenon, <1>1, <1>2

\* add() puts an entry behind the head.
LEMMA AddRing ==
  ASSUME NEW D, NEW n, NEW p, NEW c, NEW L, LinksOK(D, n, p, L, c), ListOK(n, p, L, c),
         NEW e \in D, e \notin L, e # c, NEW l, l = list_add([next |-> n, prev |-> p], c, e)
  PROVE  /\ LinksOK(D, l.next, l.prev, L \cup {e}, c) /\ Ring(l.next, l.prev, L \cup {e}, c)
         /\ SameOutside(D, L \cup {c, e}, n, p, l.next, l.prev)
<1>0. /\ Null \notin D /\ n \in [D -> D \cup {Null}] /\ p \in [D -> D \cup {Null}]
      /\ c \in D /\ L \in SUBSET D /\ c \notin L
  BY Zenon DEF LinksOK
<1> USE <1>0
<1> DEFINE i == lazy_init([next |-> n, prev |-> p], c)
           M == L \cup {c}
<1>1. /\ i.next \in [D -> D \cup {Null}] /\ i.prev \in [D -> D \cup {Null}]
      /\ Ring(i.next, i.prev, L, c) /\ i.next[c] # Null
      /\ \A x \in D : x # c => i.next[x] = n[x] /\ i.prev[x] = p[x]
  BY LazyRing
<1>2. l = [next |-> [i.next EXCEPT ![e] = i.next[c], ![c] = e],
           prev |-> [i.prev EXCEPT ![e] = c, ![i.next[c]] = e]]
  BY Zenon DEF list_add
<1> HIDE DEF i
<1>3. PICK f \in D : f = i.next[c] /\ f \in M BY Zenon, <1>1 DEF Ring
<1>4. l.next = [i.next EXCEPT ![e] = f, ![c] = e] /\ l.prev = [i.prev EXCEPT ![e] = c, ![f] = e]
  BY <1>2, <1>3
<1>5. /\ l.next[e] = f /\ l.next[c] = e /\ l.prev[e] = c /\ l.prev[f] = e
      /\ \A x \in D : x \notin {c, e} => l.next[x] = i.next[x]
      /\ \A x \in D : x \notin {f, e} => l.prev[x] = i.prev[x]
  BY <1>4, <1>1, <1>3
<1>6. l.next \in [D -> D \cup {Null}] /\ l.prev \in [D -> D \cup {Null}]
  BY <1>4, <1>1, <1>3
<1>7. \A x \in M : /\ i.next[x] \in M /\ i.prev[x] \in M
                   /\ i.prev[i.next[x]] = x /\ i.next[i.prev[x]] = x
  BY Zenon, <1>1 DEF Ring
<1>8. \A x \in M : (i.next[x] = f => x = c) /\ (i.prev[x] = c => x = f)
  BY <1>7, <1>3
<1>9. ASSUME NEW x \in M \cup {e}
      PROVE  /\ l.next[x] \in M \cup {e} /\ l.prev[x] \in M \cup {e}
             /\ l.prev[l.next[x]] = x /\ l.next[l.prev[x]] = x
  <2>1. CASE x = e BY Zenon, <2>1, <1>5, <1>3
  <2>2. CASE x # e
    <3>1. x \in M /\ x \in D BY Zenon, <2>2
    <3>2. CASE x = c
      <4>1. l.next[x] = e /\ l.prev[e] = x BY Zenon, <3>2, <1>5
      <4>2. CASE f = c BY <4>1, <4>2, <3>2, <1>5
      <4>3. CASE f # c
        <5>1. l.prev[c] = i.prev[c] /\ i.prev[c] \in M BY Zenon, <4>3, <1>5, <1>7
        <5>2. i.prev[c] # c BY Zenon, <4>3, <1>8
        <5>3. i.prev[c] \in D /\ i.prev[c] # e BY Zenon, <5>1
        <5>4. l.next[i.prev[c]] = i.next[i.prev[c]] BY Zenon, <5>2, <5>3, <1>5
        <5> QED BY Zenon, <4>1, <5>1, <5>4, <1>7, <3>2
      <4> QED BY Zenon, <4>2, <4>3
    <3>3. CASE x # c
      <4>1. l.next[x] = i.next[x] /\ i.next[x] \in M /\ i.next[x] # f /\ i.prev[i.next[x]] = x
        BY Zenon, <3>1, <3>3, <2>2, <1>5, <1>7, <1>8
      <4>2. i.next[x] \in D /\ i.next[x] # e BY Zenon, <4>1
      <4>3. l.prev[l.next[x]] = x BY <4>1, <4>2, <1>5
      <4>4. CASE x = f BY Zenon, <4>4, <4>1, <4>3, <1>5
      <4>5. CASE x # f
        <5>1. l.prev[x] = i.prev[x] /\ i.prev[x] \in M /\ i.prev[x] # c /\ i.next[i.prev[x]] = x
          BY Zenon, <4>5, <3>1, <2>2, <1>5, <1>7, <1>8
        <5>2. i.prev[x] \in D /\ i.prev[x] # e BY Zenon, <5>1
        <5>3. l.next[i.prev[x]] = x BY Zenon, <5>1, <5>2, <1>5
        <5> QED BY Zenon, <4>1, <4>3, <5>1, <5>3
      <4> QED BY Zenon, <4>4, <4>5
    <3> QED BY Zenon, <3>2, <3>3
  <2> QED BY Zenon, <2>1, <2>2
<1>10. ASSUME NEW S \in SUBSET (M \cup {e}), c \in S, \A x \in S : l.next[x] \in S PROVE S = M \cup {e}
  <2>1. e \in S /\ f \in S BY Zenon, <1>10, <1>5
  <2>2. S \ {e} \in SUBSET (L \cup {c}) /\ c \in S \ {e} BY Zenon, <1>10
  <2>3. ASSUME NEW x \in S \ {e} PROVE i.next[x] \in S \ {e}
    <3>1. x \in M /\ x \in D BY Zenon, <2>3
    <3>2. CASE x = c BY Zenon, <3>2, <1>3, <2>1
    <3>3. CASE x # c
      <4>1. l.next[x] = i.next[x] /\ i.next[x] \in M BY Zenon, <3>1, <3>3, <2>3, <1>5, <1>7
      <4> QED BY Zenon, <4>1, <1>10, <2>3
    <3> QED BY Zenon, <3>2, <3>3
  <2>4. S \ {e} = L \cup {c} BY <2>2, <2>3, <1>1, Zenon DEF Ring
  <2> QED BY Zenon, <2>4, <2>1
<1>11. Ring(l.next, l.prev, L \cup {e}, c)
  <2>1. M \cup {e} = (L \cup {e}) \cup {c} BY Zenon
  <2> HIDE DEF M
  <2> QED BY <2>1, <1>9, <1>10, Zenon DEF Ring
<1>12. SameOutside(D, L \cup {c, e}, n, p, l.next, l.prev)
  BY Zenon, <1>5, <1>1, <1>3 DEF SameOutside
<1>13. LinksOK(D, l.next, l.prev, L \cup {e}, c) BY Zenon, <1>6 DEF LinksOK
<1> QED BY Zenon, <1>11, <1>12, <1>13

\* remove() takes an entry out.
LEMMA RemoveRing ==
  ASSUME NEW D, NEW n, NEW p, NEW c, NEW L, LinksOK(D, n, p, L, c), Ring(n, p, L, c),
         NEW e \in L, NEW l, l = list_remove([next |-> n, prev |-> p], e)
  PROVE  /\ LinksOK(D, l.next, l.prev, L \ {e}, c) /\ Ring(l.next, l.prev, L \ {e}, c)
         /\ SameOutside(D, L \cup {c}, n, p, l.next, l.prev)
         /\ Skips(n, l.next, c, e)
<1>0. /\ Null \notin D /\ n \in [D -> D \cup {Null}] /\ p \in [D -> D \cup {Null}]
      /\ c \in D /\ L \in SUBSET D /\ c \notin L
  BY Zenon DEF LinksOK
<1> USE <1>0
<1> DEFINE M == L \cup {c}
           R == M \ {e}
<1>1. \A x \in M : /\ n[x] \in M /\ p[x] \in M /\ p[n[x]] = x /\ n[p[x]] = x
  BY Zenon DEF Ring
<1>2. PICK f \in M, g \in M : f = n[e] /\ g = p[e] /\ n[g] = e /\ p[f] = e
  BY Zenon, <1>1
<1>3. f # Null /\ f \in D /\ g \in D /\ e \in D BY Zenon
<1>4. l.next = [n EXCEPT ![g] = f] /\ l.prev = [p EXCEPT ![f] = g]
  BY Zenon, <1>2, <1>3 DEF list_remove
<1>5. /\ l.next[g] = f /\ l.prev[f] = g
      /\ \A x \in D : (x # g => l.next[x] = n[x]) /\ (x # f => l.prev[x] = p[x])
  BY Zenon, <1>4, <1>3
<1>6. \A x \in M : (n[x] = e => x = g) /\ (p[x] = e => x = f)
  BY <1>1, <1>2
<1>7. f # e /\ g # e
  <2>1. ASSUME f = e \/ g = e PROVE FALSE
    <3>1. n[e] = e BY Zenon, <2>1, <1>2
    <3>2. M \ {e} \in SUBSET (L \cup {c}) /\ c \in M \ {e} BY Zenon
    <3>3. \A x \in M \ {e} : n[x] \in M \ {e} BY Zenon, <3>1, <1>1, <1>6, <1>2
    <3>4. M \ {e} = L \cup {c} BY <3>2, <3>3, Zenon DEF Ring
    <3> QED BY Zenon, <3>4
  <2> QED BY Zenon, <2>1
<1>8. ASSUME NEW x \in R
      PROVE  /\ l.next[x] \in R /\ l.prev[x] \in R
             /\ l.prev[l.next[x]] = x /\ l.next[l.prev[x]] = x
  <2>0. x \in M /\ x \in D /\ x # e BY Zenon
  <2>1. l.next[x] \in R /\ l.prev[l.next[x]] = x
    <3>1. CASE x = g BY Zenon, <3>1, <1>5, <1>7
    <3>2. CASE x # g
      <4>1. l.next[x] = n[x] /\ n[x] \in M /\ n[x] # e /\ n[x] \in D /\ p[n[x]] = x
        BY Zenon, <3>2, <2>0, <1>5, <1>1, <1>6
      <4>2. n[x] # f BY Zenon, <4>1, <1>2, <2>0
      <4> QED BY <4>1, <4>2, <1>5
    <3> QED BY Zenon, <3>1, <3>2
  <2>2. l.prev[x] \in R /\ l.next[l.prev[x]] = x
    <3>1. CASE x = f BY Zenon, <3>1, <1>5, <1>7
    <3>2. CASE x # f
      <4>1. l.prev[x] = p[x] /\ p[x] \in M /\ p[x] # e /\ p[x] \in D /\ n[p[x]] = x
        BY Zenon, <3>2, <2>0, <1>5, <1>1, <1>6
      <4>2. p[x] # g BY Zenon, <4>1, <1>2, <2>0
      <4> QED BY <4>1, <4>2, <1>5
    <3> QED BY Zenon, <3>1, <3>2
  <2> QED BY Zenon, <2>1, <2>2
<1>9. ASSUME NEW S \in SUBSET R, c \in S, \A x \in S : l.next[x] \in S PROVE S = R
  <2>1. CASE g \in S
    <3>1. f \in S BY Zenon, <2>1, <1>9, <1>5
    <3>2. ASSUME NEW x \in S \cup {e} PROVE n[x] \in S \cup {e}
      <4>1. CASE x \in {e, g} BY Zenon, <4>1, <3>1, <1>2
      <4>2. CASE x \notin {e, g} BY Zenon, <4>2, <3>2, <1>9, <1>5
      <4> QED BY Zenon, <4>1, <4>2
    <3>3. S \cup {e} \in SUBSET (L \cup {c}) /\ c \in S \cup {e} BY Zenon, <1>9
    <3>4. S \cup {e} = L \cup {c} BY <3>2, <3>3, Zenon DEF Ring
    <3> QED BY Zenon, <3>4, <1>9
  <2>2. CASE g \notin S
    <3>1. \A x \in S : n[x] \in S BY Zenon, <2>2, <1>9, <1>5
    <3>2. S \in SUBSET (L \cup {c}) BY Zenon, <1>9
    <3>3. S = L \cup {c} BY <3>1, <3>2, <1>9, Zenon DEF Ring
    <3> QED BY Zenon, <3>3, <1>9
  <2> QED BY Zenon, <2>1, <2>2
<1>10. Ring(l.next, l.prev, L \ {e}, c)
  <2>1. R = (L \ {e}) \cup {c} BY Zenon
  <2> HIDE DEF R
  <2> QED BY <2>1, <1>8, <1>9, Zenon DEF Ring
<1>11. SameOutside(D, L \cup {c}, n, p, l.next, l.prev)
  BY Zenon, <1>5 DEF SameOutside
<1>12. n[c] = e => l.next[c] = n[e]
  BY Zenon, <1>6, <1>5, <1>2
<1>13. l.next[c] # Null
  <2>1. c \in R BY Zenon
  <2>2. l.next[c] \in R BY Zenon, <2>1, <1>8
  <2> QED BY Zenon, <2>2
<1>14. l.next \in [D -> D \cup {Null}] /\ l.prev \in [D -> D \cup {Null}]
  <2> f \in D \cup {Null} /\ g \in D \cup {Null} BY Zenon
  <2>1. [n EXCEPT ![g] = f] \in [D -> D \cup {Null}] BY Zenon, Updated
  <2>2. [p EXCEPT ![f] = g] \in [D -> D \cup {Null}] BY Zenon, Updated
  <2> QED BY <1>4, <2>1, <2>2, Zenon
<1>15. LinksOK(D, l.next, l.prev, L \ {e}, c) BY Zenon, <1>14 DEF LinksOK
<1>16. Skips(n, l.next, c, e) BY Zenon, <1>12, <1>13 DEF Skips
<1> QED BY Zenon, <1>10, <1>11, <1>15, <1>16

-----------------------------------------------------------------------------
(* Steps. *)

\* Nothing is two things.
LEMMA Kinds ==
  ASSUME OwnershipAssumption
  PROVE  /\ Null \notin Nodes /\ Free \notin Compartments /\ Free # Null /\ Null \notin Compartments
         /\ \A a \in Chunks : a \notin Compartments
  BY Zenon DEF OwnershipAssumption, Nodes

\* A core that is not in a call.
LEMMA IdleCall ==
  ASSUME OwnInv, NEW k \in Cores, call[k].at = "idle"
  PROVE  call[k] = Idle /\ call[k].c = Null /\ call[k].block = {} /\ call[k].left = {}
<1>1. call[k] = Idle BY Zenon DEF OwnInv, CallInv, CallOK
<1> QED BY <1>1 DEF Idle, In

\* One call for a compartment at a time.
LEMMA OnlyCaller ==
  ASSUME OwnershipAssumption, OwnInv, NEW k \in Cores, call[k].at # "idle"
  PROVE  /\ call[k].c \in live /\ call[k].c \in Compartments
         /\ \A j \in Cores : call[j].c = call[k].c => j = k
<1>1. call[k].c \in live /\ call[k].c \in Compartments
  BY Zenon DEF OwnInv, CallInv, CallOK, OwnTypes
<1>2. ASSUME NEW j \in Cores, call[j].c = call[k].c, j # k PROVE FALSE
  <2>1. call[j].at = "idle" BY Zenon, <1>2 DEF OwnInv, CallerInv
  <2>2. call[j].c = Null BY Zenon, <2>1, IdleCall
  <2> QED BY Zenon, <2>2, <1>2, <1>1, Kinds
<1> QED BY Zenon, <1>1, <1>2

\* No call for a compartment that is quiet.
LEMMA NoCaller ==
  ASSUME OwnershipAssumption, OwnInv, NEW c \in Compartments, Quiet(c)
  PROVE  \A j \in Cores : call[j].c # c
<1> SUFFICES ASSUME NEW j \in Cores, call[j].c = c PROVE FALSE BY Zenon
<1>1. call[j].at = "idle" BY Zenon DEF Quiet
<1>2. call[j].c = Null BY Zenon, <1>1, IdleCall
<1> QED BY Zenon, <1>2, Kinds

\* A call that another core is in, whose list does not change.
LEMMA KeepCall ==
  ASSUME NEW j \in Cores, CallOK(j), call'[j] = call[j],
         call[j].at # "idle" => call[j].c \in live',
         \A a \in call[j].block : holder'[a] = holder[a],
         call[j].at # "idle" => next'[call[j].c] = next[call[j].c],
         call[j].at = "remove" /\ call[j].curr \in call[j].left => next'[call[j].curr] = next[call[j].curr]
  PROVE  CallOK(j)'
<1>1. CallOK(j)' = LET r == call[j]
  IN  /\ r.at = "idle" => r = Idle
      /\ r.at # "idle" => r.c \in live'
      /\ r.at \in {"alloc", "remove"} => r.left \subseteq r.block /\ \A a \in r.block : holder'[a] = r.c
      /\ r.at \notin {"alloc", "remove"} => r.block = {} /\ r.left = {}
      /\ r.at = "remove" /\ r.curr # Null =>
            /\ r.curr \in Chunks /\ r.block = {r.curr} /\ next'[r.c] # Null
            /\ IF r.left = {} THEN r.then = next'[r.c] ELSE r.curr = next'[r.c] /\ r.then = next'[r.curr]
      /\ r.at = "forall" => next'[r.c] # Null /\ r.curr = next'[r.c]
      /\ r.at = "clear" => r.curr \in Chunks /\ next'[r.c] # Null /\ r.then = next'[r.c]
  BY Zenon DEF CallOK
<1>2. call[j].at = "remove" /\ call[j].curr # Null /\ call[j].left # {} => call[j].curr \in call[j].left
  BY Zenon DEF CallOK
<1> QED BY Zenon, <1>1, <1>2 DEF CallOK

\* Lists that do not change.
LEMMA KeepLists ==
  ASSUME ListInv, next' = next, prev' = prev, live' \subseteq live,
         \A c \in live', a \in Chunks : InList(a, c)' <=> InList(a, c)
  PROVE  ListInv'
<1> SUFFICES ASSUME NEW c \in live' PROVE ListOK(next', prev', Listed(c)', c)
  BY Zenon DEF ListInv
<1>1. Listed(c)' = Listed(c) BY Zenon DEF Listed
<1> QED BY <1>1, Zenon DEF ListInv

\* Nothing changes but the reason to stop.
LEMMA Frozen ==
  ASSUME OwnInv, UNCHANGED <<serial, holder, owner, next, prev, mapped, live, call>>, ChecksHold'
  PROVE  OwnInv'
<1>1. OwnTypes' BY Zenon DEF OwnInv, OwnTypes
<1>2. CallInv' BY DEF OwnInv, CallInv, CallOK
<1>3. CallerInv' BY Zenon DEF OwnInv, CallerInv
<1>4. OwnerInv' BY Zenon DEF OwnInv, OwnerInv, InList, Unlisted
<1>5. ListInv'
  <2>1. \A c \in live', a \in Chunks : InList(a, c)' <=> InList(a, c) BY Zenon DEF InList, Unlisted
  <2> QED BY Zenon, <2>1, KeepLists DEF OwnInv
<1>6. DeadInv' BY Zenon DEF OwnInv, DeadInv
<1>7. WriteInv' BY Zenon DEF OwnInv, WriteInv
<1>8. SerialInv' BY DEF OwnInv, SerialInv, InList, Unlisted
<1> QED BY Zenon, <1>1, <1>2, <1>3, <1>4, <1>5, <1>6, <1>7, <1>8 DEF OwnInv

\* An error that can happen.
LEMMA ErrorStep ==
  ASSUME OwnInv, NEW why, why # "already owned", serial => why # "wrong owner", error(why)
  PROVE  OwnInv'
<1>1. UNCHANGED <<serial, holder, owner, next, prev, mapped, live, call>> /\ fatal' = why
  BY Zenon DEF error, links
<1>2. ChecksHold' BY Zenon, <1>1 DEF ChecksHold
<1> QED BY Zenon, <1>1, <1>2, Frozen

LEMMA SetOwnerStep ==
  ASSUME OwnershipAssumption, OwnInv, NEW c \in Compartments, set_owner(c)
  PROVE  OwnInv'
<1>1. /\ c \notin live /\ Quiet(c) /\ live' = live \cup {c}
      /\ mapped' = [mapped EXCEPT ![c] = [a \in Chunks |-> IF a \in {StackChunk} THEN "kernel" ELSE @[a]]]
      /\ next' = [next EXCEPT ![c] = Null] /\ prev' = [prev EXCEPT ![c] = Null]
      /\ UNCHANGED <<serial, holder, owner, call, fatal>>
  BY Zenon DEF set_owner, MapBlock
<1>2. \A j \in Cores : call[j].c # c BY Zenon, <1>1, NoCaller
<1>3. \A a \in Chunks : holder[a] # c BY Zenon, <1>1 DEF OwnInv, DeadInv
<1>4. \A a \in Chunks : \A d : InList(a, d)' <=> InList(a, d) BY Zenon, <1>1 DEF InList, Unlisted
<1>5. c \in Nodes /\ \A x \in Nodes : x # c => next'[x] = next[x] /\ prev'[x] = prev[x]
  BY Zenon, <1>1 DEF OwnInv, OwnTypes, Nodes
<1>6. OwnTypes'
  <2>1. mapped' \in [Compartments -> [Chunks -> Rights]]
    BY Zenon, <1>1 DEF OwnInv, OwnTypes, Rights
  <2>2. next' \in [Nodes -> Nodes \cup {Null}] /\ prev' \in [Nodes -> Nodes \cup {Null}]
    BY Zenon, <1>1 DEF OwnInv, OwnTypes
  <2> QED BY Zenon, <1>1, <2>1, <2>2 DEF OwnInv, OwnTypes
<1>7. CallInv'
  <2> SUFFICES ASSUME NEW j \in Cores PROVE CallOK(j)' BY Zenon DEF CallInv
  <2>1. CallOK(j) BY Zenon DEF OwnInv, CallInv
  <2>2. call[j].at # "idle" => call[j].c \in live /\ call[j].c \in Nodes /\ call[j].c # c
    BY Zenon, <1>1, OnlyCaller DEF Nodes
  <2>3. call[j].at = "remove" /\ call[j].curr \in call[j].left => call[j].curr \in Nodes /\ call[j].curr # c
    BY <2>1, Kinds DEF OwnInv, OwnTypes, Calls, Nodes
  <2> QED BY Zenon, <2>1, <2>2, <2>3, <1>1, <1>5, KeepCall
<1>8. CallerInv' BY Zenon, <1>1 DEF OwnInv, CallerInv
<1>9. OwnerInv' BY Zenon, <1>1, <1>4 DEF OwnInv, OwnerInv
<1>10. ListInv'
  <2> SUFFICES ASSUME NEW d \in live' PROVE ListOK(next', prev', Listed(d)', d)
    BY Zenon DEF ListInv
  <2>1. Listed(d)' = Listed(d) BY <1>4, Zenon DEF Listed
  <2>2. CASE d = c
    <3>1. next'[c] = Null BY Zenon, <1>1, <1>5 DEF OwnInv, OwnTypes
    <3>2. Listed(c) = {} BY Zenon, <1>3 DEF Listed, InList
    <3> QED BY Zenon, <2>1, <2>2, <3>1, <3>2 DEF ListOK
  <2>3. CASE d # c
    <3>1. d \in live /\ d \in Nodes BY Zenon, <2>3, <1>1 DEF OwnInv, OwnTypes, Nodes
    <3>2. ListOK(next, prev, Listed(d), d) BY Zenon, <3>1 DEF OwnInv, ListInv
    <3>3. \A x \in Listed(d) \cup {d} : next'[x] = next[x] /\ prev'[x] = prev[x]
      BY Zenon, <2>3, <3>1, <1>5, Kinds DEF Listed, Nodes
    <3>4. ListOK(next', prev', Listed(d), d) BY Zenon, <3>2, <3>3, SameRing
    <3> QED BY <3>4, <2>1, Zenon
  <2> QED BY Zenon, <2>2, <2>3
<1>11. DeadInv' BY Zenon, <1>1 DEF OwnInv, DeadInv
<1>12. WriteInv'
  <2> SUFFICES ASSUME NEW d \in Compartments, NEW a \in Chunks
               PROVE  mapped'[d][a] = "write"
                        <=> holder[a] = d /\ \A k \in Cores : call[k].c = d => a \notin call[k].block
    BY <1>1 DEF WriteInv
  <2>1. d # c => mapped'[d] = mapped[d] BY Zenon, <1>1 DEF OwnInv, OwnTypes
  <2>2. mapped'[c] = [x \in Chunks |-> IF x \in {StackChunk} THEN "kernel" ELSE mapped[c][x]]
    BY Zenon, <1>1 DEF OwnInv, OwnTypes
  <2>3. mapped[c][a] # "write" BY Zenon, <1>3 DEF OwnInv, WriteInv
  <2>4. mapped'[c][a] # "write" BY Zenon, <2>2, <2>3
  <2> QED BY <2>1, <2>4, <1>3 DEF OwnInv, WriteInv
<1>13. SerialInv' BY Zenon, <1>1, <1>4 DEF OwnInv, SerialInv
<1>14. ChecksHold' BY Zenon, <1>1 DEF OwnInv, ChecksHold
<1> QED BY Zenon, <1>6, <1>7, <1>8, <1>9, <1>10, <1>11, <1>12, <1>13, <1>14 DEF OwnInv

\* Calls of other cores, in a step of core k that does not touch their chunks.
LEMMA OtherCalls ==
  ASSUME OwnershipAssumption, OwnInv, NEW k \in Cores, CallOK(k)',
         \A j \in Cores : j # k => call'[j] = call[j], live' = live,
         \A j \in Cores : j # k => \A a \in call[j].block : holder'[a] = holder[a],
         \A j \in Cores : j # k /\ call[j].at # "idle" =>
             \A x \in Listed(call[j].c) \cup {call[j].c} : next'[x] = next[x]
  PROVE  CallInv'
<1> SUFFICES ASSUME NEW j \in Cores, j # k PROVE CallOK(j)' BY Zenon DEF CallInv
<1>1. CallOK(j) BY Zenon DEF OwnInv, CallInv
<1>2. call[j].at # "idle" => call[j].c \in live /\ call[j].c \in Compartments
                             /\ \A i \in Cores : call[i].c = call[j].c => i = j
  BY Zenon, OnlyCaller
<1>3. ASSUME call[j].at = "remove", call[j].curr \in call[j].left
      PROVE  next'[call[j].curr] = next[call[j].curr]
  <2>1. call[j].curr \in Chunks /\ call[j].curr \in call[j].block
    BY Zenon, <1>1, <1>3 DEF CallOK, OwnInv, OwnTypes, Calls
  <2>2. InList(call[j].curr, call[j].c)
    BY Zenon, <2>1, <1>1, <1>2, <1>3 DEF CallOK, InList, Unlisted
  <2> QED BY Zenon, <2>1, <2>2, <1>3 DEF Listed
<1> QED BY Zenon, <1>1, <1>2, <1>3, KeepCall

\* alloc_range has got a block.
LEMMA AllocStep ==
  ASSUME OwnershipAssumption, OwnInv, NEW k \in Cores, NEW c \in Compartments \cup {Null},
         NEW size \in Sizes, alloc_range(k, c, size)
  PROVE  OwnInv'
<1>1. CASE Available(size) = {}
  BY Zenon, <1>1, ErrorStep DEF alloc_range, OutOfMemory
<1>2. CASE Available(size) # {}
  <2>1. PICK b \in Available(size) :
           /\ holder' = [a \in Chunks |-> IF a \in b THEN c ELSE holder[a]]
           /\ call' = [call EXCEPT ![k] = IF c = Null THEN Idle ELSE In("alloc", c, b, b, Null, Null)]
           /\ UNCHANGED <<serial, owner, next, prev, mapped, live, fatal>>
    BY <1>2, Zenon DEF alloc_range, links
  <2>2. CanCall(k, c) BY Zenon DEF alloc_range
  <2>3. b \subseteq Chunks /\ \A a \in b : holder[a] = Free BY Zenon DEF Available, Blocks
  <2>4. call[k] = Idle /\ call[k].at = "idle" /\ call[k].c = Null /\ call[k].block = {}
    BY Zenon, <2>2, IdleCall DEF CanCall
  <2>5. c # Null => c \in live /\ c \in Compartments /\ \A j \in Cores : call[j].c # c
    BY Zenon, <2>2, NoCaller DEF CanCall
  <2>6. /\ \A j \in Cores : j # k => call'[j] = call[j]
        /\ c = Null => call'[k] = Idle
        /\ c # Null => call'[k] = In("alloc", c, b, b, Null, Null)
    BY Zenon, <2>1 DEF OwnInv, OwnTypes
  <2>7. /\ c # Null => /\ call'[k].at = "alloc" /\ call'[k].c = c
                       /\ call'[k].block = b /\ call'[k].left = b
        /\ c = Null => call'[k].at = "idle" /\ call'[k].c = Null /\ call'[k].block = {}
    BY <2>6 DEF In, Idle
  <2>8. \A a \in Chunks : holder'[a] = IF a \in b THEN c ELSE holder[a] BY Zenon, <2>1
  <2>9. ASSUME NEW d \in Compartments, NEW a \in Chunks PROVE InList(a, d)' <=> InList(a, d)
    <3>1. \A j \in Cores : j # k => Unlisted(j)' = Unlisted(j) BY Zenon, <2>6 DEF Unlisted
    <3>2. c # Null => Unlisted(k)' = b BY Zenon, <2>7 DEF Unlisted
    <3>3. CASE d = c
      <4>1. c # Null BY Zenon, <3>3, Kinds
      <4>2. InList(a, d)' <=> holder'[a] = d /\ a \notin b
        BY Zenon, <3>1, <3>2, <3>3, <4>1, <2>5, <2>6, <2>7 DEF InList
      <4>3. InList(a, d) <=> holder[a] = d BY Zenon, <3>3, <4>1, <2>5 DEF InList
      <4> QED BY Zenon, <4>2, <4>3, <2>8, <2>3, Kinds
    <3>4. CASE d # c
      <4>1. holder'[a] = d <=> holder[a] = d BY Zenon, <2>8, <2>3, <3>4, Kinds
      <4>2. call'[k].c # d /\ call[k].c # d BY Zenon, <2>4, <2>7, <3>4, Kinds
      <4> QED BY Zenon, <4>1, <4>2, <3>1, <2>6 DEF InList
    <3> QED BY Zenon, <3>3, <3>4
  <2>10. OwnTypes'
    <3>1. holder' \in [Chunks -> Compartments \cup {Null, Free}] BY Zenon, <2>1 DEF OwnInv, OwnTypes
    <3>2. call' \in [Cores -> Calls]
      <4>1. (IF c = Null THEN Idle ELSE In("alloc", c, b, b, Null, Null)) \in Calls
        BY Zenon, <2>3 DEF Idle, In, Calls, Places
      <4> QED BY Zenon, <4>1, <2>1, Updated DEF OwnInv, OwnTypes
    <3> QED BY Zenon, <3>1, <3>2, <2>1 DEF OwnInv, OwnTypes
  <2>11. CallInv'
    <3>1. CallOK(k)'
      <4>1. CASE c = Null BY <4>1, <2>6 DEF CallOK, Idle, In
      <4>2. CASE c # Null BY <4>2, <2>6, <2>7, <2>8, <2>5, <2>3, <2>1 DEF CallOK, In
      <4> QED BY Zenon, <4>1, <4>2
    <3>2. ASSUME NEW j \in Cores, j # k, NEW a \in call[j].block PROVE holder'[a] = holder[a]
      <4>1. a \in Chunks /\ holder[a] = call[j].c /\ call[j].c \in Compartments
        BY Zenon, <3>2, OnlyCaller DEF OwnInv, OwnTypes, Calls, CallInv, CallOK
      <4>2. a \notin b BY Zenon, <4>1, <2>3, Kinds
      <4> QED BY Zenon, <4>1, <4>2, <2>8
    <3> QED BY Zenon, <3>1, <3>2, <2>1, <2>6, OtherCalls
  <2>12. CallerInv' BY <2>5, <2>6, <2>7 DEF OwnInv, CallerInv
  <2>13. OwnerInv' BY Zenon, <2>1, <2>9 DEF OwnInv, OwnerInv
  <2>14. ListInv' BY Zenon, <2>1, <2>9, KeepLists DEF OwnInv, OwnTypes
  <2>15. DeadInv' BY Zenon, <2>1, <2>8, <2>5, Kinds DEF OwnInv, DeadInv
  <2>16. WriteInv'
    <3> SUFFICES ASSUME NEW d \in Compartments, NEW a \in Chunks
                 PROVE  mapped[d][a] = "write"
                          <=> holder'[a] = d /\ \A j \in Cores : call'[j].c = d => a \notin call'[j].block
      BY Zenon, <2>1 DEF WriteInv
    <3>1. mapped[d][a] = "write" <=> holder[a] = d /\ \A j \in Cores : call[j].c = d => a \notin call[j].block
      BY Zenon DEF OwnInv, WriteInv
    <3>2. CASE d = c
      <4>1. c # Null BY Zenon, <3>2, Kinds
      <4>2. (\A j \in Cores : call'[j].c = d => a \notin call'[j].block) <=> a \notin b
        BY Zenon, <4>1, <3>2, <2>5, <2>6, <2>7
      <4>3. \A j \in Cores : call[j].c # d BY Zenon, <4>1, <3>2, <2>5
      <4> QED BY Zenon, <3>1, <4>2, <4>3, <3>2, <2>8, <2>3, Kinds
    <3>3. CASE d # c
      <4>1. holder'[a] = d <=> holder[a] = d BY Zenon, <2>8, <2>3, <3>3, Kinds
      <4>2. call'[k].c # d /\ call[k].c # d BY Zenon, <2>4, <2>7, <3>3, Kinds
      <4> QED BY Zenon, <4>1, <4>2, <3>1, <2>6
    <3> QED BY Zenon, <3>2, <3>3
  <2>17. SerialInv'
    <3> SUFFICES ASSUME serial
                 PROVE  /\ \A i, j \in Cores : call'[i].at # "idle" /\ call'[j].at # "idle" => i = j
                        /\ \A d \in Compartments, a \in Chunks : InList(a, d)' => owner[a] = d
                        /\ \A j \in Cores : call'[j].at = "clear" => holder'[call'[j].curr] = Free
      BY Zenon, <2>1 DEF SerialInv
    <3>1. \A j \in Cores : call[j].at = "idle" BY Zenon, <2>2 DEF CanCall
    <3>2. \A j \in Cores : j # k => call'[j].at = "idle" BY Zenon, <3>1, <2>6
    <3>3. call'[k].at # "clear" BY Zenon, <2>7
    <3> QED BY Zenon, <3>2, <3>3, <2>9 DEF OwnInv, SerialInv
  <2>18. ChecksHold' BY Zenon, <2>1 DEF OwnInv, ChecksHold
  <2> QED BY Zenon, <2>10, <2>11, <2>12, <2>13, <2>14, <2>15, <2>16, <2>17, <2>18 DEF OwnInv
<1> QED BY Zenon, <1>1, <1>2

\* alloc_range has added its block and maps it.
LEMMA AllocFinishStep ==
  ASSUME OwnershipAssumption, OwnInv, NEW k \in Cores, AllocFinish(k)
  PROVE  OwnInv'
<1> DEFINE c == call[k].c
           b == call[k].block
<1>1. /\ call[k].at = "alloc" /\ call[k].left = {}
      /\ mapped' = [mapped EXCEPT ![c] = [a \in Chunks |-> IF a \in b THEN "write" ELSE @[a]]]
      /\ call' = [call EXCEPT ![k] = Idle]
      /\ UNCHANGED <<serial, holder, owner, next, prev, live, fatal>>
  BY Zenon DEF AllocFinish, MapBlock, links
<1>2. c \in live /\ c \in Compartments /\ \A j \in Cores : call[j].c = c => j = k
  BY Zenon, <1>1, OnlyCaller
<1>3. b \subseteq Chunks /\ \A a \in b : holder[a] = c
  BY Zenon, <1>1 DEF OwnInv, OwnTypes, Calls, CallInv, CallOK
<1> HIDE DEF c, b
<1>4. call'[k] = Idle /\ \A j \in Cores : j # k => call'[j] = call[j]
  BY Zenon, <1>1 DEF OwnInv, OwnTypes
<1>5. call'[k].at = "idle" /\ call'[k].c = Null BY <1>4 DEF Idle, In
<1>6. ASSUME NEW d \in Compartments, NEW a \in Chunks PROVE InList(a, d)' <=> InList(a, d)
  <2>1. \A j \in Cores : j # k => Unlisted(j)' = Unlisted(j) BY Zenon, <1>4 DEF Unlisted
  <2>2. Unlisted(k) = {} BY Zenon, <1>1 DEF Unlisted
  <2> QED BY Zenon, <2>1, <2>2, <1>1, <1>4, <1>5, Kinds DEF InList
<1>7. OwnTypes'
  <2>1. call' \in [Cores -> Calls]
    <3>1. Idle \in Calls BY Zenon DEF Idle, In, Calls, Places
    <3> QED BY Zenon, <3>1, <1>1, Updated DEF OwnInv, OwnTypes
  <2>2. mapped' \in [Compartments -> [Chunks -> Rights]]
    BY Zenon, <1>1 DEF OwnInv, OwnTypes, Rights
  <2> QED BY Zenon, <2>1, <2>2, <1>1 DEF OwnInv, OwnTypes
<1>8. CallInv'
  <2>1. CallOK(k)' BY <1>4 DEF CallOK, Idle, In
  <2> QED BY Zenon, <2>1, <1>1, <1>4, OtherCalls
<1>9. CallerInv' BY Zenon, <1>4, <1>5 DEF OwnInv, CallerInv
<1>10. OwnerInv' BY Zenon, <1>1, <1>6 DEF OwnInv, OwnerInv
<1>11. ListInv' BY Zenon, <1>1, <1>6, KeepLists DEF OwnInv, OwnTypes
<1>12. DeadInv' BY Zenon, <1>1 DEF OwnInv, DeadInv
<1>13. WriteInv'
  <2> SUFFICES ASSUME NEW d \in Compartments, NEW a \in Chunks
               PROVE  mapped'[d][a] = "write"
                        <=> holder[a] = d /\ \A j \in Cores : call'[j].c = d => a \notin call'[j].block
    BY <1>1 DEF WriteInv
  <2>1. mapped[d][a] = "write" <=> holder[a] = d /\ \A j \in Cores : call[j].c = d => a \notin call[j].block
    BY Zenon DEF OwnInv, WriteInv
  <2>2. CASE d = c
    <3>1. \A j \in Cores : call'[j].c # d BY Zenon, <2>2, <1>2, <1>4, <1>5, Kinds
    <3>2. (\A j \in Cores : call[j].c = d => a \notin call[j].block) <=> a \notin b
      BY Zenon, <2>2, <1>2 DEF b, c
    <3>3. mapped'[d][a] = IF a \in b THEN "write" ELSE mapped[d][a]
      BY Zenon, <1>1, <2>2 DEF OwnInv, OwnTypes
    <3> QED BY Zenon, <3>1, <3>2, <3>3, <2>1, <2>2, <1>3
  <2>3. CASE d # c
    <3>1. mapped'[d] = mapped[d] BY Zenon, <2>3, <1>1 DEF OwnInv, OwnTypes
    <3>2. call[k].c # d /\ call'[k].c # d BY Zenon, <2>3, <1>5, Kinds DEF c
    <3> QED BY Zenon, <3>1, <3>2, <2>1, <1>4
  <2> QED BY Zenon, <2>2, <2>3
<1>14. SerialInv' BY Zenon, <1>1, <1>4, <1>5, <1>6 DEF OwnInv, SerialInv
<1>15. ChecksHold' BY Zenon, <1>1 DEF OwnInv, ChecksHold
<1> QED BY Zenon, <1>7, <1>8, <1>9, <1>10, <1>11, <1>12, <1>13, <1>14, <1>15 DEF OwnInv

\* dealloc_range unmaps a block and begins to remove it.
LEMMA BeginStep ==
  ASSUME OwnershipAssumption, OwnInv, NEW k \in Cores, NEW c \in live, NEW b \in SUBSET Chunks,
         NEW curr \in Nodes \cup {Null}, NEW then \in Nodes \cup {Null},
         call[k].at \in {"idle", "forall"}, \A j \in Cores : call[j].c = c => j = k,
         call[k].at = "forall" => call[k].c = c,
         serial => \A j \in Cores : j # k => call[j].at = "idle",
         \A a \in b : holder[a] = c,
         curr # Null => curr \in Chunks /\ b = {curr} /\ next[c] # Null /\ curr = next[c] /\ then = next[curr],
         BeginDealloc(k, c, b, curr, then)
  PROVE  OwnInv'
<1>1. /\ mapped' = [mapped EXCEPT ![c] = [a \in Chunks |-> IF a \in b THEN "none" ELSE @[a]]]
      /\ call' = [call EXCEPT ![k] = In("remove", c, b, b, curr, then)]
      /\ UNCHANGED <<serial, holder, owner, next, prev, live, fatal>>
  BY Zenon DEF BeginDealloc, MapBlock, links
<1>2. c \in Compartments /\ c # Null BY Zenon, Kinds DEF OwnInv, OwnTypes
<1>3. /\ call'[k] = In("remove", c, b, b, curr, then)
      /\ \A j \in Cores : j # k => call'[j] = call[j]
  BY Zenon, <1>1 DEF OwnInv, OwnTypes
<1>4. /\ call'[k].at = "remove" /\ call'[k].c = c /\ call'[k].block = b /\ call'[k].left = b
      /\ call'[k].curr = curr /\ call'[k].then = then
  BY <1>3 DEF In
<1>5. call[k].block = {} /\ call[k].c \in {c, Null}
  <2>1. CASE call[k].at = "idle" BY Zenon, <2>1, IdleCall
  <2>2. CASE call[k].at = "forall" BY Zenon, <2>2 DEF OwnInv, CallInv, CallOK
  <2> QED BY Zenon, <2>1, <2>2
<1>6. ASSUME NEW d \in Compartments, NEW a \in Chunks PROVE InList(a, d)' <=> InList(a, d)
  <2>1. \A j \in Cores : j # k => Unlisted(j)' = Unlisted(j) BY Zenon, <1>3 DEF Unlisted
  <2>2. Unlisted(k) = {} /\ Unlisted(k)' = {} BY Zenon, <1>4 DEF Unlisted
  <2> QED BY Zenon, <2>1, <2>2, <1>1, <1>3 DEF InList
<1>7. OwnTypes'
  <2>1. call' \in [Cores -> Calls]
    <3>1. In("remove", c, b, b, curr, then) \in Calls BY Zenon, <1>2 DEF In, Calls, Places
    <3> QED BY Zenon, <3>1, <1>1, Updated DEF OwnInv, OwnTypes
  <2>2. mapped' \in [Compartments -> [Chunks -> Rights]]
    BY Zenon, <1>1 DEF OwnInv, OwnTypes, Rights
  <2> QED BY Zenon, <2>1, <2>2, <1>1 DEF OwnInv, OwnTypes
<1>8. CallInv'
  <2>1. CallOK(k)'
    <3>1. b = {} => curr = Null BY Zenon
    <3> QED BY <3>1, <1>1, <1>4 DEF CallOK
  <2> QED BY Zenon, <2>1, <1>1, <1>3, OtherCalls
<1>9. CallerInv' BY <1>3, <1>4 DEF OwnInv, CallerInv
<1>10. OwnerInv' BY Zenon, <1>1, <1>6 DEF OwnInv, OwnerInv
<1>11. ListInv' BY Zenon, <1>1, <1>6, KeepLists DEF OwnInv, OwnTypes
<1>12. DeadInv' BY Zenon, <1>1 DEF OwnInv, DeadInv
<1>13. WriteInv'
  <2> SUFFICES ASSUME NEW d \in Compartments, NEW a \in Chunks
               PROVE  mapped'[d][a] = "write"
                        <=> holder[a] = d /\ \A j \in Cores : call'[j].c = d => a \notin call'[j].block
    BY <1>1 DEF WriteInv
  <2>1. mapped[d][a] = "write" <=> holder[a] = d /\ \A j \in Cores : call[j].c = d => a \notin call[j].block
    BY Zenon DEF OwnInv, WriteInv
  <2>2. CASE d = c
    <3>1. (\A j \in Cores : call'[j].c = d => a \notin call'[j].block) <=> a \notin b
      BY Zenon, <2>2, <1>3, <1>4
    <3>2. \A j \in Cores : call[j].c = d => a \notin call[j].block
      BY Zenon, <2>2, <1>5
    <3>3. mapped'[d][a] = IF a \in b THEN "none" ELSE mapped[d][a]
      BY Zenon, <1>1, <2>2 DEF OwnInv, OwnTypes
    <3> QED BY Zenon, <3>1, <3>2, <3>3, <2>1
  <2>3. CASE d # c
    <3>1. mapped'[d] = mapped[d] BY Zenon, <2>3, <1>1 DEF OwnInv, OwnTypes
    <3>2. call[k].c # d /\ call'[k].c # d BY Zenon, <2>3, <1>4, <1>5, Kinds
    <3> QED BY Zenon, <3>1, <3>2, <2>1, <1>3
  <2> QED BY Zenon, <2>2, <2>3
<1>14. SerialInv'
  <2> SUFFICES ASSUME serial
               PROVE  /\ \A i, j \in Cores : call'[i].at # "idle" /\ call'[j].at # "idle" => i = j
                      /\ \A d \in Compartments, a \in Chunks : InList(a, d)' => owner[a] = d
                      /\ \A j \in Cores : call'[j].at = "clear" => holder[call'[j].curr] = Free
    BY Zenon, <1>1 DEF SerialInv
  <2>1. \A j \in Cores : j # k => call'[j].at = "idle" BY Zenon, <1>3
  <2> QED BY Zenon, <2>1, <1>4, <1>6 DEF OwnInv, SerialInv
<1>15. ChecksHold' BY Zenon, <1>1 DEF OwnInv, ChecksHold
<1> QED BY Zenon, <1>7, <1>8, <1>9, <1>10, <1>11, <1>12, <1>13, <1>14, <1>15 DEF OwnInv

\* Chunks go back to the global range: those of a thread of the core, or a block
\* that has been removed from its list.
LEMMA GiveBackStep ==
  ASSUME OwnershipAssumption, OwnInv, NEW k \in Cores, NEW b \in SUBSET Chunks, Return(b),
         NEW r \in Calls, call' = [call EXCEPT ![k] = r], r.block = {}, r.at \in {"idle", "clear"},
         UNCHANGED <<serial, owner, next, prev, mapped, live, fatal>>, CallOK(k)',
         \/ call[k].at = "idle" /\ r = Idle /\ \A a \in b : holder[a] = Null
         \/ /\ call[k].at = "remove" /\ call[k].left = {} /\ b = call[k].block
            /\ r.at = "clear" => r.c = call[k].c /\ r.curr \in b
            /\ r.at = "idle" => r = Idle,
         serial => \A j \in Cores : j # k => call[j].at = "idle"
  PROVE  OwnInv'
<1> DEFINE c == call[k].c
<1>1. call'[k] = r /\ \A j \in Cores : j # k => call'[j] = call[j] BY Zenon DEF OwnInv, OwnTypes
<1>2. \A a \in Chunks : holder'[a] = IF a \in b THEN Free ELSE holder[a] BY Zenon DEF Return
<1>3. /\ \A a \in b : holder[a] = c
      /\ c = Null \/ (c \in Compartments /\ \A j \in Cores : call[j].c = c => j = k)
      /\ Unlisted(k) = IF c = Null THEN {} ELSE b
      /\ call[k].block = IF c = Null THEN {} ELSE b
      /\ r.c = Null \/ r.c = c
  <2>1. CASE call[k].at = "idle"
    <3>1. c = Null /\ call[k].block = {} BY Zenon, <2>1, IdleCall
    <3>2. r.c = Null BY <2>1 DEF Idle, In
    <3> QED BY Zenon, <2>1, <3>1, <3>2 DEF Unlisted
  <2>2. CASE call[k].at # "idle"
    <3>1. c \in Compartments /\ c # Null /\ \A j \in Cores : call[j].c = c => j = k
      BY Zenon, <2>2, OnlyCaller, Kinds
    <3>2. \A a \in b : holder[a] = c BY <2>2 DEF OwnInv, CallInv, CallOK
    <3>3. Unlisted(k) = b BY Zenon, <2>2 DEF Unlisted
    <3>4. r.c = Null \/ r.c = c BY <2>2 DEF Idle, In
    <3> QED BY Zenon, <2>2, <3>1, <3>2, <3>3, <3>4
  <2> QED BY Zenon, <2>1, <2>2
<1> HIDE DEF c
<1>4. ASSUME NEW d \in Compartments, NEW a \in Chunks PROVE InList(a, d)' <=> InList(a, d)
  <2>1. \A j \in Cores : j # k => Unlisted(j)' = Unlisted(j) BY <1>1 DEF Unlisted
  <2>2. Unlisted(k)' = {} BY Zenon, <1>1 DEF Unlisted
  <2>3. CASE a \in b
    <3>1. ~InList(a, d)' BY <2>3, <1>2, Kinds DEF InList
    <3>2. ~InList(a, d) BY Zenon, <2>3, <1>3, Kinds DEF InList, c
    <3> QED BY Zenon, <3>1, <3>2
  <2>4. CASE a \notin b
    <3>1. holder'[a] = holder[a] BY Zenon, <2>4, <1>2
    <3>2. a \notin Unlisted(k) BY Zenon, <2>4, <1>3
    <3> QED BY Zenon, <3>1, <3>2, <2>1, <2>2, <1>1 DEF InList
  <2> QED BY Zenon, <2>3, <2>4
<1>5. OwnTypes'
  <2>1. holder' \in [Chunks -> Compartments \cup {Null, Free}] BY Zenon DEF Return, OwnInv, OwnTypes
  <2>2. call' \in [Cores -> Calls] BY Zenon, Updated DEF OwnInv, OwnTypes
  <2> QED BY Zenon, <2>1, <2>2 DEF OwnInv, OwnTypes
<1>6. CallInv'
  <2>1. ASSUME NEW j \in Cores, j # k, NEW a \in call[j].block PROVE holder'[a] = holder[a]
    <3>1. call[j].at # "idle" BY Zenon, <2>1, IdleCall
    <3>2. a \in Chunks /\ holder[a] = call[j].c /\ call[j].c \in Compartments
      BY <2>1, <3>1, OnlyCaller DEF OwnInv, OwnTypes, Calls, CallInv, CallOK
    <3>3. a \notin b BY Zenon, <3>2, <1>3, <2>1, Kinds
    <3> QED BY Zenon, <3>2, <3>3, <1>2
  <2> QED BY Zenon, <2>1, <1>1, OtherCalls
<1>7. CallerInv'
  <2>1. Idle.at = "idle" BY Zenon DEF Idle, In
  <2>2. r.at # "idle" => call[k].at # "idle" /\ r.c = call[k].c BY Zenon, <2>1
  <2>3. \A j \in Cores : call'[j].at # "idle" => call[j].at # "idle" /\ call'[j].c = call[j].c
    BY Zenon, <2>2, <1>1
  <2> QED BY Zenon, <2>3 DEF OwnInv, CallerInv
<1>8. OwnerInv' BY Zenon, <1>4 DEF OwnInv, OwnerInv
<1>9. ListInv' BY Zenon, <1>4, KeepLists DEF OwnInv, OwnTypes
<1>10. DeadInv' BY <1>2, Kinds DEF OwnInv, DeadInv
<1>11. WriteInv'
  <2> SUFFICES ASSUME NEW d \in Compartments, NEW a \in Chunks
               PROVE  mapped[d][a] = "write"
                        <=> holder'[a] = d /\ \A j \in Cores : call'[j].c = d => a \notin call'[j].block
    BY Zenon DEF WriteInv
  <2>1. mapped[d][a] = "write" <=> holder[a] = d /\ \A j \in Cores : call[j].c = d => a \notin call[j].block
    BY Zenon DEF OwnInv, WriteInv
  <2>2. CASE a \in b
    <3>1. holder'[a] # d BY <2>2, <1>2, Kinds
    <3>2. ~(holder[a] = d /\ \A j \in Cores : call[j].c = d => a \notin call[j].block)
      BY Zenon, <2>2, <1>3, Kinds DEF c
    <3> QED BY Zenon, <3>1, <3>2, <2>1
  <2>3. CASE a \notin b
    <3>1. holder'[a] = holder[a] /\ a \notin call[k].block BY Zenon, <2>3, <1>2, <1>3
    <3> QED BY Zenon, <3>1, <2>1, <1>1
  <2> QED BY Zenon, <2>2, <2>3
<1>12. SerialInv'
  <2> SUFFICES ASSUME serial
               PROVE  /\ \A i, j \in Cores : call'[i].at # "idle" /\ call'[j].at # "idle" => i = j
                      /\ \A d \in Compartments, a \in Chunks : InList(a, d)' => owner[a] = d
                      /\ \A j \in Cores : call'[j].at = "clear" => holder'[call'[j].curr] = Free
    BY Zenon DEF SerialInv
  <2>1. \A j \in Cores : j # k => call'[j].at = "idle" BY Zenon, <1>1
  <2>2. call'[k].at = "clear" => call'[k].curr \in b /\ call'[k].curr \in Chunks
    BY <1>1 DEF Idle, In
  <2>3. call'[k].at = "clear" => holder'[call'[k].curr] = Free BY Zenon, <2>2, <1>2
  <2> QED BY Zenon, <2>1, <2>3, <1>4 DEF OwnInv, SerialInv
<1>13. ChecksHold' BY Zenon DEF OwnInv, ChecksHold
<1> QED BY Zenon, <1>5, <1>6, <1>7, <1>8, <1>9, <1>10, <1>11, <1>12, <1>13 DEF OwnInv

\* dealloc_range, for a thread of the core and for a compartment.
LEMMA DeallocStep ==
  ASSUME OwnershipAssumption, OwnInv, NEW k \in Cores, NEW c \in Compartments \cup {Null},
         NEW b \in SUBSET Chunks, dealloc_range(k, c, b)
  PROVE  OwnInv'
<1>1. CanCall(k, c) /\ \A a \in b : holder[a] = c BY Zenon DEF dealloc_range
<1>2. call[k].at = "idle" /\ call[k] = Idle /\ (serial => \A j \in Cores : j # k => call[j].at = "idle")
  BY Zenon, <1>1, IdleCall DEF CanCall
<1>3. CASE c = Null
  <2>1. Return(b) /\ UNCHANGED <<serial, owner, next, prev, mapped, live, call, fatal>>
    BY <1>3, Zenon DEF dealloc_range, links
  <2>2. call' = [call EXCEPT ![k] = Idle] BY Zenon, <2>1, <1>2 DEF OwnInv, OwnTypes
  <2>3. CallOK(k)' BY <2>1, <1>2 DEF CallOK, Idle, In
  <2>4. Idle \in Calls /\ Idle.block = {} /\ Idle.at = "idle" BY Zenon DEF Idle, In, Calls, Places
  <2>5. UNCHANGED <<serial, owner, next, prev, mapped, live, fatal>> BY Zenon, <2>1
  <2>6. \A a \in b : holder[a] = Null BY Zenon, <1>1, <1>3
  <2> QED BY Zenon, <2>1, <2>2, <2>3, <2>4, <2>5, <2>6, <1>2, GiveBackStep
<1>4. CASE c # Null
  <2>1. BeginDealloc(k, c, b, Null, Null) BY Zenon, <1>4 DEF dealloc_range
  <2>2. c \in live /\ \A j \in Cores : call[j].c # c BY Zenon, <1>1, <1>4, NoCaller DEF CanCall
  <2> QED BY <2>1, <2>2, <1>1, <1>2, BeginStep
<1> QED BY Zenon, <1>3, <1>4

\* parent.dealloc_range for a compartment.
LEMMA DeallocFinishStep ==
  ASSUME OwnershipAssumption, OwnInv, NEW k \in Cores, DeallocFinish(k)
  PROVE  OwnInv'
<1> DEFINE r == IF call[k].curr = Null THEN Idle
                ELSE In("clear", call[k].c, {}, {}, call[k].curr, call[k].then)
           b == call[k].block
<1>1. /\ fatal = "no" /\ call[k].at = "remove" /\ call[k].left = {} /\ Return(b)
      /\ call' = [call EXCEPT ![k] = r]
      /\ UNCHANGED <<serial, owner, next, prev, mapped, live, fatal>>
  BY Zenon DEF DeallocFinish, links
<1>2. call[k] \in Calls /\ CallOK(k) BY Zenon DEF OwnInv, OwnTypes, CallInv
<1>3. /\ call[k].c \in live /\ call[k].c \in Compartments
      /\ \A j \in Cores : call[j].c = call[k].c => j = k
  BY Zenon, <1>1, OnlyCaller
<1>4. ASSUME call[k].curr # Null
      PROVE  /\ r = In("clear", call[k].c, {}, {}, call[k].curr, call[k].then)
             /\ call[k].curr \in Chunks /\ b = {call[k].curr}
             /\ next[call[k].c] # Null /\ call[k].then = next[call[k].c]
  BY Zenon, <1>1, <1>2, <1>4 DEF CallOK
<1>5. /\ call[k].curr # Null => /\ r.at = "clear" /\ r.c = call[k].c /\ r.block = {} /\ r.left = {}
                                /\ r.curr = call[k].curr /\ r.then = call[k].then
      /\ call[k].curr = Null => r = Idle /\ r.at = "idle" /\ r.block = {}
  BY Zenon DEF In, Idle
<1>6. r \in Calls BY Zenon, <1>2, <1>3 DEF Calls, In, Idle, Places
<1>7. b \in SUBSET Chunks BY Zenon, <1>2 DEF Calls
<1>8. CallOK(k)'
  <2>1. call'[k] = r BY Zenon, <1>1 DEF OwnInv, OwnTypes
  <2>2. CASE call[k].curr = Null
    <3>1. call'[k] = Idle BY Zenon, <2>1, <2>2, <1>5
    <3>2. Idle.at = "idle" /\ Idle.block = {} /\ Idle.left = {} BY Zenon DEF Idle, In
    <3> QED BY Zenon, <3>1, <3>2 DEF CallOK
  <2>3. CASE call[k].curr # Null
    <3>1. /\ call'[k].at = "clear" /\ call'[k].c = call[k].c /\ call'[k].block = {} /\ call'[k].left = {}
          /\ call'[k].curr = call[k].curr /\ call'[k].then = call[k].then
      BY Zenon, <2>1, <2>3, <1>5
    <3>2. call[k].curr \in Chunks /\ next[call[k].c] # Null /\ call[k].then = next[call[k].c]
      BY Zenon, <2>3, <1>4
    <3>3. next' = next /\ live' = live BY Zenon, <1>1
    <3> QED BY Zenon, <3>1, <3>2, <3>3, <1>3 DEF CallOK
  <2> QED BY Zenon, <2>2, <2>3
<1>9. serial => \A j \in Cores : j # k => call[j].at = "idle" BY Zenon, <1>1 DEF OwnInv, SerialInv
<1>10. /\ r.block = {} /\ r.at \in {"idle", "clear"}
       /\ r.at = "clear" => r.c = call[k].c /\ r.curr \in b
       /\ r.at = "idle" => r = Idle
  BY Zenon, <1>4, <1>5
<1> HIDE DEF r, b
<1>11. b = call[k].block BY Zenon DEF b
<1> QED BY Zenon, <1>1, <1>6, <1>7, <1>8, <1>9, <1>10, <1>11, GiveBackStep

\* dealloc_all begins.
LEMMA DeallocAllStep ==
  ASSUME OwnershipAssumption, OwnInv, NEW k \in Cores, NEW c \in Compartments \cup {Null}, dealloc_all(k, c)
  PROVE  OwnInv'
<1> DEFINE l == lazy_init(Links, c)
<1>1. /\ c # Null /\ CanCall(k, c) /\ next' = l.next /\ prev' = l.prev
      /\ call' = [call EXCEPT ![k] = In("forall", c, {}, {}, l.next[c], Null)]
      /\ UNCHANGED <<serial, holder, owner, mapped, live, fatal>>
  BY Zenon DEF dealloc_all, SetLinks
<1>2. c \in Compartments /\ c \in live /\ c \in Nodes /\ \A j \in Cores : call[j].c # c
  BY Zenon, <1>1, NoCaller DEF CanCall, Nodes
<1>3. call[k].at = "idle" /\ call[k].c = Null /\ call[k].block = {}
  BY Zenon, <1>1, IdleCall DEF CanCall
<1>4. /\ next' \in [Nodes -> Nodes \cup {Null}] /\ prev' \in [Nodes -> Nodes \cup {Null}]
      /\ Ring(next', prev', Listed(c), c) /\ next'[c] # Null
      /\ \A x \in Nodes : x # c => next'[x] = next[x] /\ prev'[x] = prev[x]
  <2>1. Null \notin Nodes BY Zenon, Kinds
  <2>2. next \in [Nodes -> Nodes \cup {Null}] /\ prev \in [Nodes -> Nodes \cup {Null}]
    BY Zenon DEF OwnInv, OwnTypes
  <2>3. Listed(c) \in SUBSET Nodes BY Zenon DEF Listed, Nodes
  <2>4. ListOK(next, prev, Listed(c), c) BY Zenon, <1>2 DEF OwnInv, ListInv
  <2>5. l = lazy_init([next |-> next, prev |-> prev], c) BY Zenon DEF Links
  <2> HIDE DEF l
  <2>6. /\ l.next \in [Nodes -> Nodes \cup {Null}] /\ l.prev \in [Nodes -> Nodes \cup {Null}]
        /\ Ring(l.next, l.prev, Listed(c), c) /\ l.next[c] # Null
        /\ \A x \in Nodes : x # c => l.next[x] = next[x] /\ l.prev[x] = prev[x]
    BY <2>1, <2>2, <2>3, <2>4, <2>5, <1>2, LazyRing
  <2> QED BY Zenon, <2>6, <1>1
<1>5. /\ call'[k] = In("forall", c, {}, {}, next'[c], Null)
      /\ \A j \in Cores : j # k => call'[j] = call[j]
  BY Zenon, <1>1 DEF OwnInv, OwnTypes
<1> HIDE DEF l
<1>6. /\ call'[k].at = "forall" /\ call'[k].c = c /\ call'[k].block = {} /\ call'[k].left = {}
      /\ call'[k].curr = next'[c]
  BY <1>5 DEF In
<1>7. ASSUME NEW d \in Compartments, NEW a \in Chunks PROVE InList(a, d)' <=> InList(a, d)
  <2>1. \A j \in Cores : j # k => Unlisted(j)' = Unlisted(j) BY Zenon, <1>5 DEF Unlisted
  <2>2. Unlisted(k) = {} /\ Unlisted(k)' = {} BY Zenon, <1>3, <1>6 DEF Unlisted
  <2> QED BY Zenon, <2>1, <2>2, <1>1, <1>5 DEF InList
<1>8. OwnTypes'
  <2>1. call' \in [Cores -> Calls]
    <3>1. next'[c] \in Nodes \cup {Null} BY Zenon, <1>2, <1>4
    <3>2. In("forall", c, {}, {}, next'[c], Null) \in Calls
      BY Zenon, <1>2, <3>1 DEF In, Calls, Places
    <3>3. call' = [call EXCEPT ![k] = In("forall", c, {}, {}, next'[c], Null)] BY Zenon, <1>1
    <3> QED BY Zenon, <3>2, <3>3, Updated DEF OwnInv, OwnTypes
  <2> QED BY Zenon, <2>1, <1>1, <1>4 DEF OwnInv, OwnTypes
<1>9. CallInv'
  <2>1. CallOK(k)'
    <3>1. c \in live' /\ next'[c] # Null BY Zenon, <1>1, <1>2, <1>4
    <3> QED BY Zenon, <3>1, <1>6 DEF CallOK
  <2>2. ASSUME NEW j \in Cores, j # k, call[j].at # "idle", NEW x \in Listed(call[j].c) \cup {call[j].c}
        PROVE  next'[x] = next[x]
    <3>1. call[j].c \in Compartments /\ call[j].c # c BY Zenon, <2>2, <1>2, OnlyCaller
    <3>2. x \in Nodes /\ x # c BY Zenon, <3>1, <1>2, Kinds DEF Listed, Nodes
    <3> QED BY Zenon, <3>2, <1>4
  <2> QED BY Zenon, <2>1, <2>2, <1>1, <1>5, OtherCalls
<1>10. CallerInv' BY <1>2, <1>5, <1>6 DEF OwnInv, CallerInv
<1>11. OwnerInv' BY Zenon, <1>1, <1>7 DEF OwnInv, OwnerInv
<1>12. ListInv'
  <2> SUFFICES ASSUME NEW d \in live' PROVE ListOK(next', prev', Listed(d)', d)
    BY Zenon DEF ListInv
  <2>1. d \in live /\ d \in Compartments BY Zenon, <1>1 DEF OwnInv, OwnTypes
  <2>2. Listed(d)' = Listed(d) BY <2>1, <1>7, Zenon DEF Listed
  <2>3. CASE d = c BY Zenon, <2>2, <2>3, <1>4 DEF ListOK
  <2>4. CASE d # c
    <3>1. ListOK(next, prev, Listed(d), d) BY Zenon, <2>1 DEF OwnInv, ListInv
    <3>2. \A x \in Listed(d) \cup {d} : next'[x] = next[x] /\ prev'[x] = prev[x]
      BY Zenon, <2>1, <2>4, <1>2, <1>4, Kinds DEF Listed, Nodes
    <3>3. ListOK(next', prev', Listed(d), d) BY Zenon, <3>1, <3>2, SameRing
    <3> QED BY <3>3, <2>2, Zenon
  <2> QED BY Zenon, <2>3, <2>4
<1>13. DeadInv' BY Zenon, <1>1 DEF OwnInv, DeadInv
<1>14. WriteInv' BY <1>1, <1>3, <1>5, <1>6 DEF OwnInv, WriteInv
<1>15. SerialInv'
  <2>1. serial => \A j \in Cores : j # k => call'[j].at = "idle" BY Zenon, <1>1, <1>5 DEF CanCall
  <2> QED BY Zenon, <2>1, <1>1, <1>5, <1>6, <1>7 DEF OwnInv, SerialInv
<1>16. ChecksHold' BY Zenon, <1>1 DEF OwnInv, ChecksHold
<1> QED BY Zenon, <1>8, <1>9, <1>10, <1>11, <1>12, <1>13, <1>14, <1>15, <1>16 DEF OwnInv

\* One round of forall begins.
LEMMA ForallDeallocStep ==
  ASSUME OwnershipAssumption, OwnInv, NEW k \in Cores, ForallDealloc(k)
  PROVE  OwnInv'
<1> DEFINE c == call[k].c
           e == call[k].curr
<1>1. call[k].at = "forall" /\ e # c /\ BeginDealloc(k, c, {e}, e, next[e])
  BY Zenon DEF ForallDealloc
<1>2. c \in live /\ c \in Compartments /\ \A j \in Cores : call[j].c = c => j = k
  BY Zenon, <1>1, OnlyCaller
<1>3. next[c] # Null /\ e = next[c] BY Zenon, <1>1 DEF OwnInv, CallInv, CallOK
<1>4. Ring(next, prev, Listed(c), c) BY Zenon, <1>2, <1>3 DEF OwnInv, ListInv, ListOK
<1>5. e \in Listed(c) BY Zenon, <1>1, <1>3, <1>4 DEF Ring
<1>6. e \in Chunks /\ e \in Nodes /\ holder[e] = c BY Zenon, <1>5 DEF Listed, InList, Nodes
<1>7. next[e] \in Nodes \cup {Null} BY Zenon, <1>6 DEF OwnInv, OwnTypes
<1>8. serial => \A j \in Cores : j # k => call[j].at = "idle" BY Zenon, <1>1 DEF OwnInv, SerialInv
<1>9. {e} \in SUBSET Chunks /\ \A a \in {e} : holder[a] = c BY Zenon, <1>6
<1>10. call[k].at \in {"idle", "forall"} /\ (call[k].at = "forall" => call[k].c = c) BY Zenon, <1>1
<1> HIDE DEF c, e
<1> QED BY <1>1, <1>2, <1>3, <1>6, <1>7, <1>8, <1>9, <1>10, BeginStep

\* The owner of a chunk that went back is cleared once more.
LEMMA ForallClearStep ==
  ASSUME OwnershipAssumption, OwnInv, NEW k \in Cores, ForallClear(k)
  PROVE  OwnInv'
<1> DEFINE c == call[k].c
           e == call[k].curr
           t == call[k].then
<1>1. /\ call[k].at = "clear" /\ owner' = [owner EXCEPT ![e] = Null]
      /\ call' = [call EXCEPT ![k] = In("forall", c, {}, {}, t, Null)]
      /\ UNCHANGED <<serial, holder, next, prev, mapped, live, fatal>>
  BY Zenon DEF ForallClear, links
<1>2. c \in live /\ c \in Compartments /\ \A j \in Cores : call[j].c = c => j = k
  BY Zenon, <1>1, OnlyCaller
<1>3. e \in Chunks /\ next[c] # Null /\ t = next[c] /\ call[k].block = {} /\ call[k] \in Calls
  BY Zenon, <1>1 DEF OwnInv, OwnTypes, CallInv, CallOK
<1>4. t \in Nodes \cup {Null} BY Zenon, <1>3 DEF Calls
<1>5. call[k].c = c BY Zenon
<1>6. serial => holder[e] = Free BY Zenon, <1>1 DEF OwnInv, SerialInv
<1> HIDE DEF c, e, t
<1>7. /\ call'[k] = In("forall", c, {}, {}, t, Null)
      /\ \A j \in Cores : j # k => call'[j] = call[j]
  BY Zenon, <1>1 DEF OwnInv, OwnTypes
<1>8. /\ call'[k].at = "forall" /\ call'[k].c = c /\ call'[k].block = {} /\ call'[k].left = {}
      /\ call'[k].curr = t
  BY <1>7 DEF In
<1>9. \A a \in Chunks : owner'[a] = IF a = e THEN Null ELSE owner[a]
  BY Zenon, <1>1, <1>3 DEF OwnInv, OwnTypes
<1>10. ASSUME NEW d \in Compartments, NEW a \in Chunks PROVE InList(a, d)' <=> InList(a, d)
  <2>1. \A j \in Cores : j # k => Unlisted(j)' = Unlisted(j) BY Zenon, <1>7 DEF Unlisted
  <2>2. Unlisted(k) = {} /\ Unlisted(k)' = {} BY Zenon, <1>1, <1>8 DEF Unlisted
  <2> QED BY Zenon, <2>1, <2>2, <1>1, <1>7 DEF InList
<1>11. OwnTypes'
  <2>1. In("forall", c, {}, {}, t, Null) \in Calls BY Zenon, <1>2, <1>4 DEF In, Calls, Places
  <2>2. call' \in [Cores -> Calls] BY Zenon, <2>1, <1>1, Updated DEF OwnInv, OwnTypes
  <2>3. owner' \in [Chunks -> Compartments \cup {Null}] BY Zenon, <1>1, Updated DEF OwnInv, OwnTypes
  <2> QED BY Zenon, <2>2, <2>3, <1>1 DEF OwnInv, OwnTypes
<1>12. CallInv'
  <2>1. CallOK(k)' BY <1>1, <1>2, <1>3, <1>8 DEF CallOK
  <2> QED BY Zenon, <2>1, <1>1, <1>7, OtherCalls
<1>13. CallerInv' BY <1>1, <1>5, <1>7, <1>8 DEF OwnInv, CallerInv
<1>14. OwnerInv'
  <2> SUFFICES ASSUME NEW a \in Chunks, owner'[a] \in Compartments
               PROVE  /\ holder'[a] = owner'[a]
                      /\ \A j \in Cores : call'[j].c = owner'[a] => a \notin Unlisted(j)'
    BY Zenon DEF OwnerInv, InList
  <2>1. owner'[a] = owner[a] BY Zenon, <1>9, Kinds
  <2>2. PICK d \in Compartments : d = owner[a] BY Zenon, <2>1
  <2>3. InList(a, d) BY Zenon, <2>2 DEF OwnInv, OwnerInv
  <2>4. InList(a, d)' BY Zenon, <2>3, <1>10
  <2>5. holder'[a] = d /\ \A j \in Cores : call'[j].c = d => a \notin Unlisted(j)'
    BY Zenon, <2>4 DEF InList
  <2> QED BY Zenon, <2>5, <2>1, <2>2
<1>15. ListInv' BY Zenon, <1>1, <1>10, KeepLists DEF OwnInv, OwnTypes
<1>16. DeadInv' BY Zenon, <1>1 DEF OwnInv, DeadInv
<1>17. WriteInv' BY <1>1, <1>3, <1>5, <1>7, <1>8 DEF OwnInv, WriteInv
<1>18. SerialInv'
  <2> SUFFICES ASSUME serial
               PROVE  /\ \A i, j \in Cores : call'[i].at # "idle" /\ call'[j].at # "idle" => i = j
                      /\ \A d \in Compartments, a \in Chunks : InList(a, d)' => owner'[a] = d
                      /\ \A j \in Cores : call'[j].at = "clear" => holder[call'[j].curr] = Free
    BY Zenon, <1>1 DEF SerialInv
  <2>1. \A j \in Cores : j # k => call'[j].at = "idle" BY Zenon, <1>1, <1>7 DEF OwnInv, SerialInv
  <2>2. ASSUME NEW d \in Compartments, NEW a \in Chunks, InList(a, d)' PROVE owner'[a] = d
    <3>1. InList(a, d) /\ holder[a] = d BY Zenon, <2>2, <1>10 DEF InList
    <3>2. a # e BY Zenon, <3>1, <1>6, Kinds
    <3>3. owner[a] = d BY Zenon, <3>1 DEF OwnInv, SerialInv
    <3> QED BY Zenon, <3>2, <3>3, <1>9
  <2> QED BY Zenon, <2>1, <2>2, <1>8
<1>19. ChecksHold' BY Zenon, <1>1 DEF OwnInv, ChecksHold
<1> QED BY Zenon, <1>11, <1>12, <1>13, <1>14, <1>15, <1>16, <1>17, <1>18, <1>19 DEF OwnInv

\* forall is back at the head: the list is empty.
LEMMA ForallEndStep ==
  ASSUME OwnershipAssumption, OwnInv, NEW k \in Cores, ForallEnd(k)
  PROVE  OwnInv'
<1> DEFINE c == call[k].c
<1>1. /\ call[k].at = "forall" /\ call[k].curr = c /\ live' = live \ {c}
      /\ mapped' = [mapped EXCEPT ![c] = [a \in Chunks |-> IF a \in Chunks THEN "none" ELSE @[a]]]
      /\ call' = [call EXCEPT ![k] = Idle]
      /\ UNCHANGED <<serial, holder, owner, next, prev, fatal>>
  BY Zenon DEF ForallEnd, MapBlock, links
<1>2. c \in live /\ c \in Compartments /\ \A j \in Cores : call[j].c = c => j = k
  BY Zenon, <1>1, OnlyCaller
<1>3. next[c] # Null /\ next[c] = c /\ call[k].block = {} BY Zenon, <1>1 DEF OwnInv, CallInv, CallOK
<1>4. call[k].c = c BY Zenon
<1> HIDE DEF c
<1>5. call'[k] = Idle /\ \A j \in Cores : j # k => call'[j] = call[j]
  BY Zenon, <1>1 DEF OwnInv, OwnTypes
<1>6. call'[k].at = "idle" /\ call'[k].c = Null /\ call'[k].block = {} BY <1>5 DEF Idle, In
<1>7. \A a \in Chunks : holder[a] # c
  <2>1. Ring(next, prev, Listed(c), c) BY Zenon, <1>2, <1>3 DEF OwnInv, ListInv, ListOK
  <2>2. {c} \in SUBSET (Listed(c) \cup {c}) /\ c \in {c} /\ \A x \in {c} : next[x] \in {c}
    BY Zenon, <1>3
  <2>3. {c} = Listed(c) \cup {c} BY <2>1, <2>2, Zenon DEF Ring
  <2>4. \A a \in Chunks : a # c BY Zenon, <1>2, Kinds
  <2>5. ASSUME NEW a \in Chunks, holder[a] = c PROVE FALSE
    <3>1. Unlisted(k) = {} BY Zenon, <1>1 DEF Unlisted
    <3>2. InList(a, c) BY Zenon, <3>1, <2>5, <1>2 DEF InList
    <3> QED BY Zenon, <3>2, <2>3, <2>4 DEF Listed
  <2> QED BY Zenon, <2>5
<1>8. ASSUME NEW d \in Compartments, NEW a \in Chunks PROVE InList(a, d)' <=> InList(a, d)
  <2>1. \A j \in Cores : j # k => Unlisted(j)' = Unlisted(j) BY Zenon, <1>5 DEF Unlisted
  <2>2. Unlisted(k) = {} /\ Unlisted(k)' = {} BY Zenon, <1>1, <1>6 DEF Unlisted
  <2> QED BY Zenon, <2>1, <2>2, <1>1, <1>5 DEF InList
<1>9. OwnTypes'
  <2>1. Idle \in Calls BY Zenon DEF Idle, In, Calls, Places
  <2>2. call' \in [Cores -> Calls] BY Zenon, <2>1, <1>1, Updated DEF OwnInv, OwnTypes
  <2>3. mapped' \in [Compartments -> [Chunks -> Rights]] BY Zenon, <1>1 DEF OwnInv, OwnTypes, Rights
  <2> QED BY Zenon, <2>2, <2>3, <1>1 DEF OwnInv, OwnTypes
<1>10. CallInv'
  <2> SUFFICES ASSUME NEW j \in Cores PROVE CallOK(j)' BY Zenon DEF CallInv
  <2>1. CASE j = k BY <2>1, <1>5 DEF CallOK, Idle, In
  <2>2. CASE j # k
    <3>1. CallOK(j) BY Zenon DEF OwnInv, CallInv
    <3>2. call[j].at # "idle" => call[j].c \in live' BY Zenon, <2>2, <1>1, <1>2, OnlyCaller
    <3> QED BY Zenon, <3>1, <3>2, <2>2, <1>1, <1>5, KeepCall
  <2> QED BY Zenon, <2>1, <2>2
<1>11. CallerInv' BY Zenon, <1>5, <1>6 DEF OwnInv, CallerInv
<1>12. OwnerInv' BY Zenon, <1>1, <1>8 DEF OwnInv, OwnerInv
<1>13. ListInv' BY Zenon, <1>1, <1>8, KeepLists DEF OwnInv, OwnTypes
<1>14. DeadInv' BY Zenon, <1>1, <1>7 DEF OwnInv, DeadInv
<1>15. WriteInv'
  <2> SUFFICES ASSUME NEW d \in Compartments, NEW a \in Chunks
               PROVE  mapped'[d][a] = "write"
                        <=> holder[a] = d /\ \A j \in Cores : call'[j].c = d => a \notin call'[j].block
    BY Zenon, <1>1 DEF WriteInv
  <2>1. mapped[d][a] = "write" <=> holder[a] = d /\ \A j \in Cores : call[j].c = d => a \notin call[j].block
    BY Zenon DEF OwnInv, WriteInv
  <2>2. CASE d = c
    <3>1. mapped'[d][a] = "none" BY Zenon, <2>2, <1>1 DEF OwnInv, OwnTypes
    <3> QED BY Zenon, <3>1, <2>2, <1>7
  <2>3. CASE d # c
    <3>1. mapped'[d] = mapped[d] BY Zenon, <2>3, <1>1 DEF OwnInv, OwnTypes
    <3>2. call[k].c # d /\ call'[k].c # d BY Zenon, <2>3, <1>4, <1>6, Kinds
    <3> QED BY Zenon, <3>1, <3>2, <2>1, <1>5
  <2> QED BY Zenon, <2>2, <2>3
<1>16. SerialInv' BY Zenon, <1>1, <1>5, <1>6, <1>8 DEF OwnInv, SerialInv
<1>17. ChecksHold' BY Zenon, <1>1 DEF OwnInv, ChecksHold
<1> QED BY Zenon, <1>9, <1>10, <1>11, <1>12, <1>13, <1>14, <1>15, <1>16, <1>17 DEF OwnInv

\* The page fault handler finds no chunk of c that is not mapped; it maps memory
\* of the core for reading.
LEMMA FaultStep ==
  ASSUME OwnershipAssumption, OwnInv, NEW k \in Cores, NEW c \in Compartments \cup {Null}, NEW a, NEW w \in BOOLEAN,
         page_fault_handler(k, c, a, w)
  PROVE  OwnInv'
<1>1. c # Null /\ CanCall(k, c) BY Zenon DEF page_fault_handler
<1>2. c \in Compartments /\ \A j \in Cores : call[j].c # c BY Zenon, <1>1, NoCaller DEF CanCall
<1>3. CASE a \notin Chunks BY Zenon, <1>3, ErrorStep DEF page_fault_handler
<1>4. CASE a \in Chunks /\ ~(owner[a] = c \/ (~w /\ owner[a] = Null))
  BY Zenon, <1>4, ErrorStep DEF page_fault_handler
<1>5. CASE a \in Chunks /\ (owner[a] = c \/ (~w /\ owner[a] = Null))
  <2>1. /\ mapped[c][a] # "write"
        /\ MapBlock(c, {a}, IF owner[a] = c THEN "write" ELSE "read")
        /\ UNCHANGED <<serial, holder, owner, next, prev, live, call, fatal>>
    BY Zenon, <1>5 DEF page_fault_handler, links
  <2>2. holder[a] # c BY Zenon, <2>1, <1>2, <1>5 DEF OwnInv, WriteInv
  <2>3. owner[a] # c BY Zenon, <2>2, <1>2, <1>5 DEF OwnInv, OwnerInv, InList
  <2>4. mapped' = [mapped EXCEPT ![c] = [x \in Chunks |-> IF x \in {a} THEN "read" ELSE @[x]]]
    BY Zenon, <2>1, <2>3 DEF MapBlock
  <2>5. OwnTypes'
    <3>1. mapped' \in [Compartments -> [Chunks -> Rights]]
      BY Zenon, <2>4 DEF OwnInv, OwnTypes, Rights
    <3> QED BY Zenon, <3>1, <2>1 DEF OwnInv, OwnTypes
  <2>6. CallInv' BY <2>1 DEF OwnInv, CallInv, CallOK
  <2>7. CallerInv' BY Zenon, <2>1 DEF OwnInv, CallerInv
  <2>8. OwnerInv' BY Zenon, <2>1 DEF OwnInv, OwnerInv, InList, Unlisted
  <2>9. ListInv'
    <3>1. \A d \in live', x \in Chunks : InList(x, d)' <=> InList(x, d)
      BY Zenon, <2>1 DEF InList, Unlisted
    <3> QED BY Zenon, <3>1, <2>1, KeepLists DEF OwnInv
  <2>10. DeadInv' BY Zenon, <2>1 DEF OwnInv, DeadInv
  <2>11. WriteInv'
    <3> SUFFICES ASSUME NEW d \in Compartments, NEW x \in Chunks
                 PROVE  mapped'[d][x] = "write"
                          <=> holder[x] = d /\ \A j \in Cores : call[j].c = d => x \notin call[j].block
      BY Zenon, <2>1 DEF WriteInv
    <3>1. mapped'[d][x] = IF d = c /\ x = a THEN "read" ELSE mapped[d][x]
      BY Zenon, <2>4 DEF OwnInv, OwnTypes
    <3> QED BY Zenon, <3>1, <2>2 DEF OwnInv, WriteInv
  <2>12. SerialInv' BY <2>1 DEF OwnInv, SerialInv, InList, Unlisted
  <2>13. ChecksHold' BY Zenon, <2>1 DEF OwnInv, ChecksHold
  <2> QED BY Zenon, <2>5, <2>6, <2>7, <2>8, <2>9, <2>10, <2>11, <2>12, <2>13 DEF OwnInv
<1> QED BY Zenon, <1>3, <1>4, <1>5

\* The links of the model are links of lists.
LEMMA LinksAreOK ==
  ASSUME OwnershipAssumption, OwnInv, NEW c \in Compartments
  PROVE  LinksOK(Nodes, next, prev, Listed(c), c)
<1>1. Listed(c) \in SUBSET Nodes /\ c \notin Listed(c) /\ c \in Nodes
  BY Zenon, Kinds DEF Listed, Nodes
<1> QED BY Zenon, <1>1, Kinds DEF LinksOK, OwnInv, OwnTypes

\* A round of add_monza_owner or remove_monza_owner: the list of c gets the links
\* of a cycle through L, and no other list changes.
LEMMA RoundLists ==
  ASSUME OwnershipAssumption, OwnInv, NEW c \in live, NEW L \in SUBSET Chunks, NEW X \in SUBSET Nodes, live' = live,
         \A x \in Nodes : x \notin X /\ x # c => next'[x] = next[x] /\ prev'[x] = prev[x],
         \A d \in live : d # c => d \notin X /\ X \cap Listed(d) = {} /\ Listed(d)' = Listed(d),
         Ring(next', prev', L, c), Listed(c)' = L
  PROVE  ListInv' /\ \A d \in live : d # c => \A x \in Listed(d) \cup {d} : next'[x] = next[x]
<1>1. ASSUME NEW d \in live, d # c
      PROVE  \A x \in Listed(d) \cup {d} : next'[x] = next[x] /\ prev'[x] = prev[x]
  <2>1. c \in Compartments /\ d \in Compartments BY Zenon DEF OwnInv, OwnTypes
  <2>2. \A x \in Listed(d) \cup {d} : x \in Nodes /\ x \notin X /\ x # c
    BY Zenon, <1>1, <2>1, Kinds DEF Listed, Nodes
  <2> QED BY Zenon, <2>2
<1>2. ASSUME NEW d \in live' PROVE ListOK(next', prev', Listed(d)', d)
  <2>1. CASE d = c BY Zenon, <2>1 DEF ListOK
  <2>2. CASE d # c
    <3>1. ListOK(next, prev, Listed(d), d) /\ Listed(d)' = Listed(d)
      BY Zenon, <2>2, <1>2 DEF OwnInv, ListInv
    <3>2. ListOK(next', prev', Listed(d), d) BY Zenon, <3>1, <1>1, <1>2, <2>2, SameRing
    <3> QED BY <3>1, <3>2, Zenon
  <2> QED BY Zenon, <2>1, <2>2
<1> QED BY <1>1, <1>2, Zenon DEF ListInv

\* A chunk gets its owner.
LEMMA AddStep ==
  ASSUME OwnershipAssumption, OwnInv, NEW k \in Cores, add_monza_owner(k)
  PROVE  OwnInv'
<1>9. PICK c, left : c = call[k].c /\ left = call[k].left BY Zenon
<1>1. PICK a \in Chunks : /\ call[k].at = "alloc" /\ a \in left
                          /\ IF owner[a] # Null
                               THEN error("already owned")
                               ELSE /\ owner' = [owner EXCEPT ![a] = c]
                                    /\ SetLinks(list_add(Links, c, a))
                                    /\ call' = [call EXCEPT ![k].left = @ \ {a}]
                                    /\ UNCHANGED <<serial, holder, mapped, live, fatal>>
  BY <1>9, Zenon DEF add_monza_owner, First
<1>0. call[k].at = "alloc" /\ a \in left BY Zenon, <1>1
<1>2. c \in live /\ c \in Compartments /\ \A j \in Cores : call[j].c = c => j = k
  BY Zenon, <1>0, <1>9, OnlyCaller
<1>3. call[k] \in Calls /\ CallOK(k) BY Zenon DEF OwnInv, OwnTypes, CallInv
<1>4. holder[a] = c /\ a \in Unlisted(k) /\ ~InList(a, c)
  BY Zenon, <1>0, <1>3, <1>9 DEF CallOK, Unlisted, InList
<1>5. owner[a] = Null
  <2>1. CASE owner[a] \in Compartments
    <3>1. InList(a, owner[a]) BY Zenon, <2>1 DEF OwnInv, OwnerInv
    <3>2. owner[a] = c BY Zenon, <3>1, <1>4 DEF InList
    <3> QED BY Zenon, <3>1, <3>2, <1>4
  <2> QED BY Zenon, <2>1 DEF OwnInv, OwnTypes
<1>6. /\ owner' = [owner EXCEPT ![a] = c] /\ SetLinks(list_add(Links, c, a))
      /\ call' = [call EXCEPT ![k].left = @ \ {a}]
      /\ UNCHANGED <<serial, holder, mapped, live, fatal>>
  BY Zenon, <1>1, <1>5
<1>7. call'[k] = [call[k] EXCEPT !.left = left \ {a}] /\ \A j \in Cores : j # k => call'[j] = call[j]
  BY Zenon, <1>6, <1>9 DEF OwnInv, OwnTypes
<1>8. /\ call'[k].at = "alloc" /\ call'[k].c = c /\ call'[k].block = call[k].block
      /\ call'[k].left = left \ {a} /\ call'[k] \in Calls
  BY <1>0, <1>3, <1>7, <1>9 DEF Calls
<1>10. ASSUME NEW d \in Compartments, NEW x \in Chunks
       PROVE  InList(x, d)' <=> InList(x, d) \/ (d = c /\ x = a)
  <2>1. \A j \in Cores : j # k => Unlisted(j)' = Unlisted(j) BY Zenon, <1>7 DEF Unlisted
  <2>2. Unlisted(k) = left /\ Unlisted(k)' = left \ {a} BY Zenon, <1>0, <1>8, <1>9 DEF Unlisted
  <2>3. CASE d = c
    <3>1. InList(x, d) <=> holder[x] = c /\ x \notin left
      BY Zenon, <2>2, <2>3, <1>2, <1>9 DEF InList
    <3>2. InList(x, d)' <=> holder[x] = c /\ x \notin left \ {a}
      BY Zenon, <2>2, <2>3, <1>2, <1>6, <1>7, <1>8 DEF InList
    <3> QED BY Zenon, <3>1, <3>2, <2>3, <1>4
  <2>4. CASE d # c BY Zenon, <2>1, <2>4, <1>6, <1>7, <1>8, <1>9 DEF InList
  <2> QED BY Zenon, <2>3, <2>4
<1>11. /\ next' \in [Nodes -> Nodes \cup {Null}] /\ prev' \in [Nodes -> Nodes \cup {Null}]
       /\ Ring(next', prev', Listed(c) \cup {a}, c)
       /\ \A x \in Nodes : x \notin Listed(c) /\ x # c /\ x # a => next'[x] = next[x] /\ prev'[x] = prev[x]
  <2>1. LinksOK(Nodes, next, prev, Listed(c), c) BY Zenon, <1>2, LinksAreOK
  <2>2. ListOK(next, prev, Listed(c), c) BY Zenon, <1>2 DEF OwnInv, ListInv
  <2>3. a \in Nodes /\ a # c /\ a \notin Listed(c) BY Zenon, <1>2, <1>4, Kinds DEF Listed, Nodes
  <2>4. PICK l : l = list_add([next |-> next, prev |-> prev], c, a) /\ next' = l.next /\ prev' = l.prev
    BY Zenon, <1>6 DEF Links, SetLinks
  <2>5. LinksOK(Nodes, l.next, l.prev, Listed(c) \cup {a}, c)
    BY Zenon, <2>1, <2>2, <2>3, <2>4, AddRing
  <2>6. Ring(l.next, l.prev, Listed(c) \cup {a}, c) BY Zenon, <2>1, <2>2, <2>3, <2>4, AddRing
  <2>7. SameOutside(Nodes, Listed(c) \cup {c, a}, next, prev, l.next, l.prev)
    BY Zenon, <2>1, <2>2, <2>3, <2>4, AddRing
  <2> QED BY Zenon, <2>4, <2>5, <2>6, <2>7 DEF LinksOK, SameOutside
<1>12. \A d \in Compartments : Listed(d)' = IF d = c THEN Listed(c) \cup {a} ELSE Listed(d)
  BY Zenon, <1>10 DEF Listed
<1>13. ListInv' /\ \A d \in live : d # c => \A x \in Listed(d) \cup {d} : next'[x] = next[x]
  <2>0. PICK X : X = Listed(c) \cup {a} BY Zenon
  <2>1. X \in SUBSET Chunks /\ X \in SUBSET Nodes BY Zenon, <2>0 DEF Listed, Nodes
  <2>2. \A d \in live : d # c => d \notin X /\ X \cap Listed(d) = {} /\ Listed(d)' = Listed(d)
    BY <2>0, <1>2, <1>4, <1>12, Kinds DEF Listed, InList, OwnInv, OwnTypes
  <2>3. Listed(c)' = X BY Zenon, <2>0, <1>2, <1>12
  <2>4. \A x \in Nodes : x \notin X /\ x # c => next'[x] = next[x] /\ prev'[x] = prev[x]
    BY Zenon, <2>0, <1>11
  <2>5. Ring(next', prev', X, c) BY Zenon, <2>0, <1>11
  <2> QED BY <2>1, <2>2, <2>3, <2>4, <2>5, <1>2, <1>6, RoundLists
<1>14. OwnTypes'
  <2>1. call' \in [Cores -> Calls] BY Zenon, <1>6, <1>7, <1>8 DEF OwnInv, OwnTypes
  <2>2. owner' \in [Chunks -> Compartments \cup {Null}]
    BY Zenon, <1>2, <1>6, Updated DEF OwnInv, OwnTypes
  <2> QED BY Zenon, <2>1, <2>2, <1>6, <1>11 DEF OwnInv, OwnTypes
<1>15. CallInv'
  <2>1. CallOK(k)'
    <3>1. /\ left \subseteq call[k].block /\ \A x \in call[k].block : holder[x] = c
      BY Zenon, <1>0, <1>3, <1>9 DEF CallOK
    <3> QED BY Zenon, <3>1, <1>2, <1>6, <1>8 DEF CallOK
  <2>2. \A j \in Cores : j # k /\ call[j].at # "idle" => call[j].c \in live /\ call[j].c # c
    BY Zenon, <1>2, OnlyCaller
  <2> QED BY Zenon, <2>1, <2>2, <1>6, <1>7, <1>13, OtherCalls
<1>16. CallerInv'
  <2>1. \A j \in Cores : call'[j].at = call[j].at /\ call'[j].c = call[j].c
    BY Zenon, <1>0, <1>7, <1>8, <1>9
  <2> QED BY <2>1 DEF OwnInv, CallerInv
<1>17. \A x \in Chunks : owner'[x] = IF x = a THEN c ELSE owner[x]
  BY Zenon, <1>6 DEF OwnInv, OwnTypes
<1>18. OwnerInv'
  <2> SUFFICES ASSUME NEW x \in Chunks, NEW d \in Compartments, owner'[x] = d PROVE InList(x, d)'
    BY Zenon DEF OwnerInv, InList
  <2>1. CASE x = a BY Zenon, <2>1, <1>10, <1>17
  <2>2. CASE x # a BY Zenon, <2>2, <1>10, <1>17 DEF OwnInv, OwnerInv
  <2> QED BY Zenon, <2>1, <2>2
<1>19. DeadInv' BY Zenon, <1>6 DEF OwnInv, DeadInv
<1>20. WriteInv' BY <1>6, <1>7, <1>8, <1>9 DEF OwnInv, WriteInv
<1>21. SerialInv'
  <2> SUFFICES ASSUME serial
               PROVE  /\ \A i, j \in Cores : call'[i].at # "idle" /\ call'[j].at # "idle" => i = j
                      /\ \A d \in Compartments, x \in Chunks : InList(x, d)' => owner'[x] = d
                      /\ \A j \in Cores : call'[j].at = "clear" => holder[call'[j].curr] = Free
    BY Zenon, <1>6 DEF SerialInv
  <2>1. \A j \in Cores : j # k => call'[j].at = "idle" BY Zenon, <1>0, <1>7 DEF OwnInv, SerialInv
  <2>2. ASSUME NEW d \in Compartments, NEW x \in Chunks, InList(x, d)' PROVE owner'[x] = d
    <3>1. CASE x = a BY Zenon, <3>1, <2>2, <1>4, <1>6, <1>17 DEF InList
    <3>2. CASE x # a BY Zenon, <3>2, <2>2, <1>10, <1>17 DEF OwnInv, SerialInv
    <3> QED BY Zenon, <3>1, <3>2
  <2> QED BY Zenon, <2>1, <2>2, <1>8
<1>22. ChecksHold' BY Zenon, <1>6 DEF OwnInv, ChecksHold
<1> QED BY Zenon, <1>13, <1>14, <1>15, <1>16, <1>18, <1>19, <1>20, <1>21, <1>22 DEF OwnInv

\* A chunk loses its owner.
LEMMA RemoveStep ==
  ASSUME OwnershipAssumption, OwnInv, NEW k \in Cores, remove_monza_owner(k)
  PROVE  OwnInv'
<1>1. PICK c, left : c = call[k].c /\ left = call[k].left BY Zenon
<1>2. PICK a \in Chunks : /\ call[k].at = "remove" /\ a \in left
                          /\ IF owner[a] # c
                               THEN error("wrong owner")
                               ELSE /\ owner' = [owner EXCEPT ![a] = Null]
                                    /\ SetLinks(list_remove(Links, a))
                                    /\ call' = [call EXCEPT ![k].left = @ \ {a}]
                                    /\ UNCHANGED <<serial, holder, mapped, live, fatal>>
  BY <1>1, Zenon DEF remove_monza_owner, First
<1>3. call[k].at = "remove" /\ a \in left BY Zenon, <1>2
<1>4. c \in live /\ c \in Compartments /\ \A j \in Cores : call[j].c = c => j = k
  BY Zenon, <1>1, <1>3, OnlyCaller
<1>5. call[k] \in Calls /\ CallOK(k) BY Zenon DEF OwnInv, OwnTypes, CallInv
<1>6. left \subseteq call[k].block /\ \A x \in call[k].block : holder[x] = c
  BY Zenon, <1>1, <1>3, <1>5 DEF CallOK
<1>7. Unlisted(k) = call[k].block \ left BY Zenon, <1>1, <1>3 DEF Unlisted
<1>8. InList(a, c) BY Zenon, <1>1, <1>3, <1>4, <1>6, <1>7 DEF InList
<1>9. CASE owner[a] # c
  <2>1. ~serial BY Zenon, <1>4, <1>8, <1>9 DEF OwnInv, SerialInv
  <2> QED BY Zenon, <2>1, <1>2, <1>9, ErrorStep
<1>10. CASE owner[a] = c
  <2>1. /\ owner' = [owner EXCEPT ![a] = Null] /\ SetLinks(list_remove(Links, a))
        /\ call' = [call EXCEPT ![k].left = @ \ {a}]
        /\ UNCHANGED <<serial, holder, mapped, live, fatal>>
    BY Zenon, <1>2, <1>10
  <2>2. call'[k] = [call[k] EXCEPT !.left = left \ {a}] /\ \A j \in Cores : j # k => call'[j] = call[j]
    BY Zenon, <2>1, <1>1 DEF OwnInv, OwnTypes
  <2>3. /\ call'[k].at = "remove" /\ call'[k].c = c /\ call'[k].block = call[k].block
        /\ call'[k].left = left \ {a} /\ call'[k] \in Calls
        /\ call'[k].curr = call[k].curr /\ call'[k].then = call[k].then
    BY Zenon, <2>2, <1>1, <1>3, <1>5 DEF Calls
  <2>4. ASSUME NEW d \in Compartments, NEW x \in Chunks
        PROVE  InList(x, d)' <=> InList(x, d) /\ ~(d = c /\ x = a)
    <3>1. \A j \in Cores : j # k => Unlisted(j)' = Unlisted(j) BY Zenon, <2>2 DEF Unlisted
    <3>2. Unlisted(k)' = call[k].block \ (left \ {a}) BY Zenon, <2>3 DEF Unlisted
    <3>3. CASE d = c
      <4>1. InList(x, d) <=> holder[x] = c /\ x \notin call[k].block \ left
        BY Zenon, <3>3, <1>1, <1>4, <1>7 DEF InList
      <4>2. InList(x, d)' <=> holder[x] = c /\ x \notin call[k].block \ (left \ {a})
        BY Zenon, <3>2, <3>3, <1>4, <2>1, <2>2, <2>3 DEF InList
      <4> QED BY Zenon, <4>1, <4>2, <3>3, <1>3, <1>6
    <3>4. CASE d # c BY Zenon, <3>1, <3>4, <2>1, <2>2, <2>3, <1>1 DEF InList
    <3> QED BY Zenon, <3>3, <3>4
  <2>5. PICK L : L = Listed(c) BY Zenon
  <2>6. LinksOK(Nodes, next, prev, L, c) BY Zenon, <2>5, <1>4, LinksAreOK
  <2>7. a \in L BY Zenon, <2>5, <1>8 DEF Listed
  <2>8. Ring(next, prev, L, c) BY Zenon, <2>5, <2>7, <1>4 DEF OwnInv, ListInv, ListOK
  <2>9. PICK l : l = list_remove([next |-> next, prev |-> prev], a) /\ next' = l.next /\ prev' = l.prev
    BY Zenon, <2>1 DEF Links, SetLinks
  <2>10. LinksOK(Nodes, next', prev', L \ {a}, c)
    <3>1. LinksOK(Nodes, l.next, l.prev, L \ {a}, c) BY Zenon, <2>6, <2>7, <2>8, <2>9, RemoveRing
    <3> QED BY Zenon, <3>1, <2>9
  <2>11. Ring(next', prev', L \ {a}, c)
    <3>1. Ring(l.next, l.prev, L \ {a}, c) BY Zenon, <2>6, <2>7, <2>8, <2>9, RemoveRing
    <3> QED BY Zenon, <3>1, <2>9
  <2>12. SameOutside(Nodes, L \cup {c}, next, prev, next', prev')
    <3>1. SameOutside(Nodes, L \cup {c}, next, prev, l.next, l.prev)
      BY Zenon, <2>6, <2>7, <2>8, <2>9, RemoveRing
    <3> QED BY Zenon, <3>1, <2>9
  <2>13. next'[c] # Null /\ (next[c] = a => next'[c] = next[a])
    <3>1. Skips(next, l.next, c, a) BY Zenon, <2>6, <2>7, <2>8, <2>9, RemoveRing
    <3> QED BY Zenon, <3>1, <2>9 DEF Skips
  <2>14. \A d \in Compartments : Listed(d)' = IF d = c THEN L \ {a} ELSE Listed(d)
    BY Zenon, <2>4, <2>5 DEF Listed
  <2>15. ListInv' /\ \A d \in live : d # c => \A x \in Listed(d) \cup {d} : next'[x] = next[x]
    <3>1. L \in SUBSET Nodes /\ L \ {a} \in SUBSET Chunks BY Zenon, <2>5 DEF Listed, Nodes
    <3>2. \A d \in live : d # c => d \notin L /\ L \cap Listed(d) = {} /\ Listed(d)' = Listed(d)
      BY Zenon, <2>5, <2>14, <1>4, Kinds DEF Listed, InList, OwnInv, OwnTypes
    <3>3. Listed(c)' = L \ {a} BY Zenon, <1>4, <2>14
    <3>4. \A x \in Nodes : x \notin L /\ x # c => next'[x] = next[x] /\ prev'[x] = prev[x]
      BY Zenon, <2>12 DEF SameOutside
    <3> QED BY Zenon, <3>1, <3>2, <3>3, <3>4, <2>1, <2>11, <1>4, RoundLists
  <2>16. OwnTypes'
    <3>1. call' \in [Cores -> Calls] BY Zenon, <2>1, <2>2, <2>3 DEF OwnInv, OwnTypes
    <3>2. owner' \in [Chunks -> Compartments \cup {Null}]
      BY Zenon, <2>1, Updated DEF OwnInv, OwnTypes
    <3> QED BY Zenon, <3>1, <3>2, <2>1, <2>10 DEF OwnInv, OwnTypes, LinksOK
  <2>17. CallInv'
    <3>1. CallOK(k)'
      <4>1. ASSUME call[k].curr # Null
            PROVE  /\ call[k].curr \in Chunks /\ call[k].block = {call[k].curr}
                   /\ left \ {a} = {} /\ call[k].then = next'[c]
        <5>1. call[k].curr \in Chunks /\ call[k].block = {call[k].curr}
          BY Zenon, <4>1, <1>3, <1>5 DEF CallOK
        <5>2. a = call[k].curr /\ left = {a} BY Zenon, <5>1, <1>3, <1>6
        <5>3. a = next[c] /\ call[k].then = next[a]
          BY Zenon, <5>2, <4>1, <1>1, <1>3, <1>5 DEF CallOK
        <5> QED BY Zenon, <5>1, <5>2, <5>3, <2>13
      <4> QED BY Zenon, <4>1, <2>1, <2>3, <2>13, <1>4, <1>6 DEF CallOK
    <3>2. \A j \in Cores : j # k /\ call[j].at # "idle" => call[j].c \in live /\ call[j].c # c
      BY Zenon, <1>4, OnlyCaller
    <3> QED BY Zenon, <3>1, <3>2, <2>1, <2>2, <2>15, OtherCalls
  <2>18. CallerInv'
    <3>1. \A j \in Cores : call'[j].at = call[j].at /\ call'[j].c = call[j].c
      BY Zenon, <1>1, <1>3, <2>2, <2>3
    <3> QED BY <3>1 DEF OwnInv, CallerInv
  <2>19. \A x \in Chunks : owner'[x] = IF x = a THEN Null ELSE owner[x]
    BY Zenon, <2>1 DEF OwnInv, OwnTypes
  <2>20. OwnerInv'
    <3> SUFFICES ASSUME NEW x \in Chunks, NEW d \in Compartments, owner'[x] = d PROVE InList(x, d)'
      BY Zenon DEF OwnerInv, InList
    <3>1. x # a BY Zenon, <2>19, Kinds
    <3> QED BY Zenon, <3>1, <2>4, <2>19 DEF OwnInv, OwnerInv
  <2>21. DeadInv' BY Zenon, <2>1 DEF OwnInv, DeadInv
  <2>22. WriteInv' BY <2>1, <2>2, <2>3, <1>1 DEF OwnInv, WriteInv
  <2>23. SerialInv'
    <3> SUFFICES ASSUME serial
                 PROVE  /\ \A i, j \in Cores : call'[i].at # "idle" /\ call'[j].at # "idle" => i = j
                        /\ \A d \in Compartments, x \in Chunks : InList(x, d)' => owner'[x] = d
                        /\ \A j \in Cores : call'[j].at = "clear" => holder[call'[j].curr] = Free
      BY Zenon, <2>1 DEF SerialInv
    <3>1. \A j \in Cores : j # k => call'[j].at = "idle" BY Zenon, <1>3, <2>2 DEF OwnInv, SerialInv
    <3>2. ASSUME NEW d \in Compartments, NEW x \in Chunks, InList(x, d)' PROVE owner'[x] = d
      <4>1. InList(x, d) /\ owner[x] = d BY Zenon, <3>2, <2>4 DEF OwnInv, SerialInv
      <4>2. x # a BY Zenon, <4>1, <3>2, <2>4, <1>10
      <4> QED BY Zenon, <4>1, <4>2, <2>19
    <3> QED BY Zenon, <3>1, <3>2, <2>3
  <2>24. ChecksHold' BY Zenon, <2>1 DEF OwnInv, ChecksHold
  <2> QED BY Zenon, <2>15, <2>16, <2>17, <2>18, <2>20, <2>21, <2>22, <2>23, <2>24 DEF OwnInv
<1> QED BY Zenon, <1>9, <1>10

-----------------------------------------------------------------------------

LEMMA OwnInitial == ASSUME OwnershipAssumption, OwnInit PROVE OwnInv
<1> USE DEF OwnInit
<1>1. \A k \in Cores : call[k] = Idle /\ call[k].at = "idle" /\ call[k].c = Null /\ call[k].block = {} /\ call[k].left = {}
  BY Zenon DEF Idle, In
<1>2. OwnTypes
  <2>1. Idle \in Calls BY Zenon DEF Idle, In, Calls, Places
  <2>2. holder \in [Chunks -> Compartments \cup {Null, Free}] BY Zenon
  <2>3. next \in [Nodes -> Nodes \cup {Null}] /\ prev \in [Nodes -> Nodes \cup {Null}]
    BY Zenon DEF Nodes
  <2>4. mapped \in [Compartments -> [Chunks -> Rights]] BY Zenon DEF Rights
  <2> QED BY Zenon, <2>1, <2>2, <2>3, <2>4 DEF OwnTypes
<1>3. \A a \in Chunks : owner[a] = Null /\ holder[a] \in {Null, Free} BY Zenon
<1>4. \A c \in Compartments, a \in Chunks : ~InList(a, c) /\ holder[a] # c
  BY Zenon, <1>3, Kinds DEF InList
<1>5. CallInv /\ CallerInv BY Zenon, <1>1 DEF CallInv, CallOK, CallerInv
<1>6. OwnerInv BY Zenon, <1>3, Kinds DEF OwnerInv
<1>7. ListInv /\ DeadInv BY Zenon, <1>4 DEF ListInv, DeadInv
<1>8. WriteInv
  <2>1. \A c \in Compartments, a \in Chunks : mapped[c][a] = "none" BY Zenon
  <2> QED BY Zenon, <2>1, <1>4 DEF WriteInv
<1>9. SerialInv BY Zenon, <1>1, <1>4 DEF SerialInv
<1>10. ChecksHold BY Zenon DEF ChecksHold
<1> QED BY Zenon, <1>2, <1>5, <1>6, <1>7, <1>8, <1>9, <1>10 DEF OwnInv

LEMMA OwnPreserved == ASSUME OwnershipAssumption, OwnInv, [OwnNext]_own_vars PROVE OwnInv'
<1>1. CASE own_vars' = own_vars
  <2>1. UNCHANGED <<serial, holder, owner, next, prev, mapped, live, call, fatal>>
    BY Zenon, <1>1 DEF own_vars
  <2>2. ChecksHold' BY Zenon, <2>1 DEF OwnInv, ChecksHold
  <2> QED BY Zenon, <2>1, <2>2, Frozen
<1>2. ASSUME NEW c \in Compartments, set_owner(c) PROVE OwnInv' BY Zenon, <1>2, SetOwnerStep
<1>3. ASSUME NEW k \in Cores, NEW c \in Compartments \cup {Null}, NEW size \in Sizes, alloc_range(k, c, size)
      PROVE  OwnInv'
  BY Zenon, <1>3, AllocStep
<1>4. ASSUME NEW k \in Cores, NEW c \in Compartments \cup {Null}, NEW size \in Sizes, NEW b \in Blocks(size),
             dealloc_range(k, c, b)
      PROVE  OwnInv'
  <2>1. b \in SUBSET Chunks BY Zenon DEF Blocks
  <2> QED BY Zenon, <2>1, <1>4, DeallocStep
<1>5. ASSUME NEW k \in Cores, NEW c \in Compartments \cup {Null}, dealloc_all(k, c) PROVE OwnInv'
  BY Zenon, <1>5, DeallocAllStep
<1>6. ASSUME NEW k \in Cores, NEW c \in Compartments \cup {Null}, NEW a \in 0..ChunkCount, NEW w \in BOOLEAN,
             page_fault_handler(k, c, a, w)
      PROVE  OwnInv'
  BY Zenon, <1>6, FaultStep
<1>7. ASSUME NEW k \in Cores, Step(k) PROVE OwnInv'
  <2>1. CASE add_monza_owner(k) BY Zenon, <2>1, AddStep
  <2>2. CASE AllocFinish(k) BY Zenon, <2>2, AllocFinishStep
  <2>3. CASE remove_monza_owner(k) BY Zenon, <2>3, RemoveStep
  <2>4. CASE DeallocFinish(k) BY Zenon, <2>4, DeallocFinishStep
  <2>5. CASE ForallDealloc(k) BY Zenon, <2>5, ForallDeallocStep
  <2>6. CASE ForallClear(k) BY Zenon, <2>6, ForallClearStep
  <2>7. CASE ForallEnd(k) BY Zenon, <2>7, ForallEndStep
  <2> QED BY Zenon, <1>7, <2>1, <2>2, <2>3, <2>4, <2>5, <2>6, <2>7 DEF Step
<1>8. CASE OwnNext BY <1>8, <1>1, <1>2, <1>3, <1>4, <1>5, <1>6, <1>7, Zenon DEF OwnNext
<1> QED BY Zenon, <1>1, <1>8

\* Chunks are in the list between calls.
LEMMA QuietLists ==
  ASSUME OwnershipAssumption, OwnInv, NEW c \in Compartments, Quiet(c)
  PROVE  Listed(c) = Held(c) /\ \A a \in Chunks : InList(a, c) <=> holder[a] = c
<1>1. \A j \in Cores : call[j].c # c BY Zenon, NoCaller
<1>2. \A a \in Chunks : InList(a, c) <=> holder[a] = c BY Zenon, <1>1 DEF InList
<1> QED BY Zenon, <1>2 DEF Listed, Held

\* What division computes.
LEMMA Division ==
  ASSUME NEW a \in Nat \ {0}, NEW m \in Nat
  PROVE  m \div a \in Nat /\ (m \div a) * a <= m /\ m < (m \div a) * a + a
  OBVIOUS

\* The quotient is the only number that does.
LEMMA Quotient ==
  ASSUME NEW a \in Nat \ {0}, NEW q \in Nat, NEW m \in Nat, q * a <= m, m < q * a + a
  PROVE  m \div a = q
  OBVIOUS

\* Going on by d chunks from an address p.
LEMMA Skipping ==
  ASSUME NEW M \in Nat \ {0}, NEW p \in Nat, NEW d \in Nat
  PROVE  d * M \in Nat /\ d <= d * M /\ (p + d * M) \div M = p \div M + d
<1>1. PICK q \in Nat : q = p \div M /\ q * M <= p /\ p < q * M + M BY Division
<1>2. PICK e \in Nat : e = d * M /\ d <= e OBVIOUS
<1>3. PICK z \in Nat : z = q * M OBVIOUS
<1>4. (q + d) * M = z + e BY <1>1, <1>2, <1>3
<1>5. q + d \in Nat /\ p + e \in Nat BY <1>1, <1>2
<1>6. (q + d) * M <= p + e /\ p + e < (q + d) * M + M BY <1>1, <1>2, <1>3, <1>4
<1>7. (p + e) \div M = q + d BY Zenon, <1>5, <1>6, Quotient
<1> QED BY <1>1, <1>2, <1>7

\* validate_owner_range looks at the chunk of every address of the range, with the
\* exception that ValidatesRange makes.
LEMMA AnyRange == ASSUME OwnershipAssumption PROVE ValidatesRange
<1>0. PICK M : M = MIN_OWNERSHIP_SIZE BY Zenon
<1>a. M \in Nat \ {0} /\ ChunkCount \in Nat BY Zenon, <1>0 DEF OwnershipAssumption
<1> SUFFICES ASSUME NEW c \in Compartments, NEW p \in HeapAddresses, NEW size \in 1..ChunkCount * M,
                    validate_owner_range(c, p, size), NEW x \in p..p + size - 1, OwnerAt(x) # c
             PROVE  p % M # 0 /\ ChunkOf(p) < ChunkOf(x) /\ ChunkOf(x) = ChunkOf(p + size - 1)
  BY <1>0, Zenon DEF ValidatesRange
<1>1. p \in Nat /\ size \in Nat /\ size > 0 /\ x \in Nat /\ p <= x /\ x < p + size
  <2>1. ChunkCount * M \in Nat BY <1>a
  <2> QED BY <2>1, <1>0 DEF HeapAddresses
<1>2. PICK q \in Nat, z \in Nat : q = p \div M /\ z = q * M /\ z <= p /\ p < z + M
  <2>1. p \div M \in Nat /\ (p \div M) * M <= p /\ p < (p \div M) * M + M BY Zenon, <1>a, <1>1, Division
  <2>2. (p \div M) * M \in Nat BY <1>a, <2>1
  <2> QED BY Zenon, <2>1, <2>2
<1>3. PICK n \in Nat, y \in Nat : n = x \div M /\ y = n * M /\ y <= x /\ x < y + M
  <2>1. x \div M \in Nat /\ (x \div M) * M <= x /\ x < (x \div M) * M + M BY Zenon, <1>a, <1>1, Division
  <2>2. (x \div M) * M \in Nat BY <1>a, <2>1
  <2> QED BY Zenon, <2>1, <2>2
<1>4. q <= n
  <2>1. SUFFICES ASSUME n < q PROVE FALSE BY <1>2, <1>3
  <2>2. (n + 1) * M <= q * M BY <2>1, <1>a, <1>2, <1>3
  <2>3. (n + 1) * M = y + M BY <1>a, <1>3
  <2> QED BY <2>2, <2>3, <1>1, <1>2, <1>3, <1>a
<1>5. PICK d \in Nat, e \in Nat : n = q + d /\ e = d * M /\ d <= e /\ (p + e) \div M = n
  <2>1. PICK d \in Nat : n = q + d BY <1>4
  <2> QED BY Zenon, <2>1, <1>a, <1>1, <1>2, Skipping
<1>6. y = z + e BY <1>a, <1>2, <1>3, <1>5
<1>7. e >= size
  <2>1. SUFFICES ASSUME e < size PROVE FALSE BY <1>1, <1>5
  <2>2. d \in 0..size BY <2>1, <1>1, <1>5
  <2>3. OwnerAt(p + e) = c BY Zenon, <1>0, <1>5, <2>1, <2>2 DEF validate_owner_range
  <2> QED BY Zenon, <1>0, <2>3, <1>3, <1>5 DEF OwnerAt, ChunkOf
<1>8. p # z BY <1>1, <1>2, <1>3, <1>6, <1>7
<1>9. p % M # 0
  <2>1. p = M * q + (p % M) BY <1>a, <1>1, <1>2
  <2>2. M * q = z BY <1>a, <1>2
  <2> QED BY <2>1, <2>2, <1>8, <1>1, <1>2
<1>10. q < n
  <2>1. SUFFICES ASSUME q = n PROVE FALSE BY <1>2, <1>3, <1>4
  <2>2. e = 0 BY <2>1, <1>2, <1>3, <1>6
  <2> QED BY <2>2, <1>1, <1>7
<1>11. (p + size - 1) \div M = n
  <2>1. PICK w \in Nat : w = p + size - 1 BY <1>1
  <2>2. n * M <= w /\ w < n * M + M BY <2>1, <1>1, <1>2, <1>3, <1>6, <1>7, <1>a
  <2>3. w \div M = n BY Zenon, <2>2, <1>a, <1>3, Quotient
  <2> QED BY Zenon, <2>1, <2>3
<1> QED BY Zenon, <1>0, <1>2, <1>3, <1>9, <1>10, <1>11 DEF ChunkOf

LEMMA OwnSafe ==
  ASSUME OwnershipAssumption, OwnInv
  PROVE  HolderIsOwner /\ ChecksHold /\ ListIsHeldChunks /\ WritableIsHeld /\ CollectsAll
<1>1. ASSUME NEW c \in Compartments
      PROVE  /\ {a \in Chunks : owner[a] = c} \subseteq Held(c)
             /\ serial /\ fatal = "no" /\ Quiet(c) => Held(c) \subseteq {a \in Chunks : owner[a] = c}
  <2>1. ASSUME NEW a \in Chunks, owner[a] = c PROVE holder[a] = c
    BY Zenon, <1>1, <2>1 DEF OwnInv, OwnerInv, InList
  <2>2. ASSUME serial, Quiet(c), NEW a \in Chunks, holder[a] = c PROVE owner[a] = c
    <3>1. InList(a, c) BY Zenon, <1>1, <2>2, QuietLists
    <3> QED BY Zenon, <1>1, <2>2, <3>1 DEF OwnInv, SerialInv
  <2> QED BY Zenon, <2>1, <2>2 DEF Held
<1>2. ASSUME NEW c \in live, Quiet(c)
      PROVE  \/ next[c] = Null /\ Held(c) = {}
             \/ /\ \A x \in Held(c) \cup {c} : next[x] \in Held(c) \cup {c} /\ prev[next[x]] = x
                /\ \A S \in SUBSET (Held(c) \cup {c}) :
                       c \in S /\ (\A x \in S : next[x] \in S) => S = Held(c) \cup {c}
  <2>1. c \in Compartments BY Zenon DEF OwnInv, OwnTypes
  <2>2. Listed(c) = Held(c) BY Zenon, <1>2, <2>1, QuietLists
  <2>3. ListOK(next, prev, Held(c), c) BY Zenon, <2>2 DEF OwnInv, ListInv
  <2> QED BY <2>3, Zenon DEF ListOK, Ring
<1>3. ASSUME NEW c \in Compartments
      PROVE  /\ {a \in Chunks : mapped[c][a] = "write"} \subseteq Held(c)
             /\ fatal = "no" /\ Quiet(c) => {a \in Chunks : mapped[c][a] = "write"} = Held(c)
  <2>1. {a \in Chunks : mapped[c][a] = "write"} \subseteq Held(c)
    BY Zenon DEF OwnInv, WriteInv, Held
  <2>2. ASSUME Quiet(c) PROVE {a \in Chunks : mapped[c][a] = "write"} = Held(c)
    <3>1. \A j \in Cores : call[j].c # c BY Zenon, <2>2, NoCaller
    <3> QED BY Zenon, <3>1 DEF OwnInv, WriteInv, Held
  <2> QED BY Zenon, <2>1, <2>2
<1>4. ASSUME NEW c \in Compartments \ live PROVE Held(c) = {} /\ \A a \in Chunks : owner[a] # c
  <2>1. \A a \in Chunks : holder[a] # c BY Zenon DEF OwnInv, DeadInv
  <2>2. \A a \in Chunks : owner[a] # c BY Zenon, <2>1 DEF OwnInv, OwnerInv, InList
  <2> QED BY Zenon, <2>1, <2>2 DEF Held
<1>5. HolderIsOwner /\ ChecksHold BY Zenon, <1>1 DEF HolderIsOwner, OwnInv
<1>6. ListIsHeldChunks BY <1>2, Zenon DEF ListIsHeldChunks
<1>7. WritableIsHeld BY Zenon, <1>3 DEF WritableIsHeld
<1>8. CollectsAll BY Zenon, <1>4 DEF CollectsAll
<1> QED BY Zenon, <1>5, <1>6, <1>7, <1>8

\* The page map names a compartment only for chunks that it was given; as long as
\* calls do not overlap it names the holder of every chunk and the checks of
\* MonzaRange hold; a range that validate_owner_range accepts is owned but for the
\* last chunk of an unaligned one.
THEOREM OwnersAreTracked == OwnSpec => []OwnershipIsTracked
<1>1. OwnInv => OwnershipIsTracked
  BY Zenon, OwnSafe, AnyRange, OwnershipConstants DEF OwnershipIsTracked
<1>2. OwnInit => OwnInv
  BY Zenon, OwnInitial, OwnershipConstants
<1>3. OwnInv /\ [OwnNext]_own_vars => OwnInv'
  BY Zenon, OwnPreserved, OwnershipConstants
<1> QED BY <1>1, <1>2, <1>3, PTL DEF OwnSpec

\* The list of a compartment is a cycle through its chunks, user code can write
\* exactly those, and the destructor of MonzaRange leaves nothing behind, also
\* when cores work for several compartments at a time.
THEOREM ListsStayExact == OwnSpec => []ListsAreExact
<1>1. OwnInv => ListsAreExact
  BY Zenon, OwnSafe, OwnershipConstants DEF ListsAreExact
<1>2. OwnInit => OwnInv
  BY Zenon, OwnInitial, OwnershipConstants
<1>3. OwnInv /\ [OwnNext]_own_vars => OwnInv'
  BY Zenon, OwnPreserved, OwnershipConstants
<1> QED BY <1>1, <1>2, <1>3, PTL DEF OwnSpec

-----------------------------------------------------------------------------
(* Semaphore. *)

\* The cmpxchg is reached only after a read of a positive value.
CasIsPositive == \A t \in Threads : pc[t] = "cas" => rcx[t] > 0

\* A ping sees a new generation exactly when the handler of its target has run.
GenerationTracksHandler ==
    \A t \in Threads :
        pc[t] \in {"trigger", "compare"} =>
            /\ gen_before[t] <= generation[target[t]]
            /\ handled[t] <=> gen_before[t] < generation[target[t]]

\* Invariants that hold on both platforms.
Inv == TypeOK /\ TokensConserved /\ WaiterIsRegistered /\ CasIsPositive

\* The inductive invariant behind NoLostWakeup.
WakeupInv == Inv /\ GenerationTracksHandler /\ NoLostWakeup

USE ThreadsAssumption, BuildAssumption, BoundAssumption DEF Inside, Pinging, Points

\* Every step of every thread keeps Inv.
LEMMA InvStep == Inv /\ [Next]_vars => Inv'
<1> SUFFICES ASSUME Inv, [Next]_vars PROVE Inv'
  BY Zenon
<1> USE DEF Inv, TypeOK, TokensConserved, WaiterIsRegistered, CasIsPositive, Runs, Goto,
            semVars, acqVars, relVars, pingVars, coreVars
<1>1. ASSUME NEW t \in Threads, Acquire(t) PROVE Inv'
  BY <1>1 DEF Acquire
<1>2. ASSUME NEW t \in Threads, LoadValue(t) PROVE Inv'
  BY Zenon, <1>2 DEF LoadValue
<1>3. ASSUME NEW t \in Threads, TestValue(t) PROVE Inv'
  BY <1>3 DEF TestValue
<1>4. ASSUME NEW t \in Threads, Hlt(t) PROVE Inv'
  BY Zenon, <1>4 DEF Hlt
<1>5. ASSUME NEW t \in Threads, CompareExchange(t) PROVE Inv'
  BY <1>5 DEF CompareExchange
<1>6. ASSUME NEW t \in Threads, ClearWaiter(t) PROVE Inv'
  BY Zenon, <1>6 DEF ClearWaiter
<1>7. ASSUME NEW t \in Threads, Release(t) PROVE Inv'
  BY <1>7 DEF Release
<1>8. ASSUME NEW t \in Threads, LoadWaiter(t) PROVE Inv'
  BY <1>8 DEF LoadWaiter, MustPing
<1>9. ASSUME NEW t \in Threads, PingCoreSync(t) PROVE Inv'
  <2>1. target[t] \in Threads
    BY Zenon, <1>9 DEF PingCoreSync
  <2>2. gen_before' \in [Threads -> Nat]
    BY Zenon, <1>9, <2>1 DEF PingCoreSync
  <2> QED
    BY Zenon, <1>9, <2>1, <2>2 DEF PingCoreSync
<1>10. ASSUME NEW t \in Threads, TriggerIpi(t) PROVE Inv'
  <2>1. target[t] \in Threads
    BY Zenon, <1>10 DEF TriggerIpi, TriggerIpiGeneric, TriggerIpiSev
  <2>2. ipi' \in [Threads -> BOOLEAN] /\ generation' \in [Threads -> Nat]
    <3>1. CASE Platform = "generic"
      BY Zenon, <1>10, <2>1, <3>1 DEF TriggerIpi, TriggerIpiGeneric, TriggerIpiSev
    <3>2. CASE Platform = "sev"
      BY <1>10, <2>1, <3>2 DEF TriggerIpi, TriggerIpiGeneric, TriggerIpiSev
    <3> QED
      BY Zenon, <3>1, <3>2
  <2> QED
    BY Zenon, <1>10, <2>1, <2>2 DEF TriggerIpi, TriggerIpiGeneric, TriggerIpiSev
<1>11. ASSUME NEW t \in Threads, CompareGeneration(t) PROVE Inv'
  <2>1. CASE gen_before[t] = generation[target[t]]
    BY <1>11, <2>1 DEF CompareGeneration
  <2>2. CASE gen_before[t] # generation[target[t]]
    <3>1. target' \in [Threads -> Threads \cup {NoThread}]
      BY Zenon, <1>11, <2>2 DEF CompareGeneration
    <3>2. gen_before' \in [Threads -> Nat]
      BY <1>11, <2>2 DEF CompareGeneration
    <3>3. handled' \in [Threads -> BOOLEAN]
      BY Zenon, <1>11, <2>2 DEF CompareGeneration
    <3>4. \A u \in Threads : pc'[u] \in Pinging => target'[u] \in Threads
      BY <1>11, <2>2 DEF CompareGeneration
    <3> QED
      BY <1>11, <2>2, <3>1, <3>2, <3>3, <3>4 DEF CompareGeneration
  <2> QED
    BY Zenon, <2>1, <2>2
<1>12. ASSUME NEW t \in Threads, WakeupHandler(t) PROVE Inv'
  BY <1>12 DEF WakeupHandler
<1>13. ASSUME NEW t \in Threads, InterruptReturn(t) PROVE Inv'
  BY Zenon, <1>13 DEF InterruptReturn, ResetSuspendCheck
<1>14. ASSUME NEW t \in Threads, InterruptRelease(t) PROVE Inv'
  BY <1>14 DEF InterruptRelease, MustPing
<1>15. CASE UNCHANGED vars
  BY Zenon, <1>15 DEF vars
<1> QED
  BY Zenon, <1>1, <1>2, <1>3, <1>4, <1>5, <1>6, <1>7, <1>8, <1>9, <1>10, <1>11, <1>12,
     <1>13, <1>14, <1>15 DEF Next, AcquireStep, ReleaseStep, Interrupt

\* Nobody waits and no token exists at first.
LEMMA InvInit == Init => Inv
<1> SUFFICES ASSUME Init PROVE Inv
  BY Zenon
<1> USE DEF Init
<1>1. /\ 0 \in 0..MaxReleases
      /\ pc \in [Threads -> Points]
  OBVIOUS
<1>2. /\ ipi \in [Threads -> BOOLEAN]
      /\ handled \in [Threads -> BOOLEAN]
      /\ aborted \in BOOLEAN
  BY Zenon
<1>3. TypeOK
  BY Zenon, <1>1, <1>2 DEF TypeOK
<1> QED
  BY <1>3 DEF Inv, TokensConserved, WaiterIsRegistered, CasIsPositive

\* The invariants of both builds and both platforms.
LEMMA InvAlways == Spec => []Inv
BY InvInit, InvStep, PTL DEF Spec

\* The type invariant.
THEOREM TypeCorrect == Spec => []TypeOK
BY InvAlways, PTL DEF Inv

\* No token is made or lost by the load, the cmpxchg and the fetch_add.
THEOREM TokensAreConserved == Spec => []TokensConserved
BY InvAlways, PTL DEF Inv

\* At most the registered waiter is in acquire(); in the debug build this is
\* due to the exchange, with no assumption on the callers.
THEOREM SingleWaiter == Spec => []WaiterIsRegistered
BY InvAlways, PTL DEF Inv

-----------------------------------------------------------------------------
\* On the generic platform every step keeps the bookkeeping of the pings.
LEMMA GenerationStep ==
    ASSUME Platform = "generic", Inv, GenerationTracksHandler, [Next]_vars
    PROVE  GenerationTracksHandler'
<1> USE DEF Inv, TypeOK, GenerationTracksHandler, Runs, Goto,
            semVars, acqVars, relVars, pingVars, coreVars
<1>1. ASSUME NEW t \in Threads, Acquire(t) \/ AcquireStep(t)
      PROVE  GenerationTracksHandler'
  BY <1>1 DEF Acquire, AcquireStep, LoadValue, TestValue, Hlt, CompareExchange, ClearWaiter
<1>2. ASSUME NEW t \in Threads, Release(t) \/ LoadWaiter(t)
      PROVE  GenerationTracksHandler'
  BY <1>2 DEF Release, LoadWaiter
<1>3. ASSUME NEW t \in Threads, PingCoreSync(t) PROVE GenerationTracksHandler'
  <2>1. target[t] \in Threads
    BY Zenon, <1>3 DEF PingCoreSync
  <2> QED
    BY <1>3, <2>1 DEF PingCoreSync
<1>4. ASSUME NEW t \in Threads, TriggerIpi(t) PROVE GenerationTracksHandler'
  BY Zenon, <1>4 DEF TriggerIpi, TriggerIpiGeneric, TriggerIpiSev
<1>5. ASSUME NEW t \in Threads, CompareGeneration(t) PROVE GenerationTracksHandler'
  BY <1>5 DEF CompareGeneration
<1>6. ASSUME NEW t \in Threads, WakeupHandler(t) PROVE GenerationTracksHandler'
  BY <1>6 DEF WakeupHandler
<1>7. ASSUME NEW t \in Threads, InterruptReturn(t) \/ InterruptRelease(t)
      PROVE  GenerationTracksHandler'
  BY <1>7 DEF InterruptReturn, InterruptRelease, ResetSuspendCheck
<1>8. CASE UNCHANGED vars
  BY Zenon, <1>8 DEF vars
<1> QED
  BY Zenon, <1>1, <1>2, <1>3, <1>4, <1>5, <1>6, <1>7, <1>8 DEF Next, ReleaseStep, Interrupt

\* Every step keeps the promise that somebody will notify the waiter.
LEMMA WakeupStep ==
    ASSUME Platform = "generic", WakeupInv, [Next]_vars
    PROVE  NoLostWakeup'
<1> USE DEF WakeupInv, Inv, TypeOK, WaiterIsRegistered, NoLostWakeup, Committed, WillNotify,
            Runs, Goto, semVars, acqVars, relVars, pingVars, coreVars
<1>1. ASSUME NEW t \in Threads, Acquire(t) PROVE NoLostWakeup'
  BY <1>1 DEF Acquire
<1>2. ASSUME NEW t \in Threads, LoadValue(t) PROVE NoLostWakeup'
  BY <1>2 DEF LoadValue
<1>3. ASSUME NEW t \in Threads, TestValue(t) PROVE NoLostWakeup'
  BY <1>3 DEF TestValue
<1>4. ASSUME NEW t \in Threads, Hlt(t) PROVE NoLostWakeup'
  BY <1>4 DEF Hlt
<1>5. ASSUME NEW t \in Threads, CompareExchange(t) PROVE NoLostWakeup'
  BY <1>5 DEF CompareExchange
<1>6. ASSUME NEW t \in Threads, ClearWaiter(t) PROVE NoLostWakeup'
  BY <1>6 DEF ClearWaiter
<1>7. ASSUME NEW t \in Threads, Release(t) PROVE NoLostWakeup'
  BY <1>7 DEF Release
<1>8. ASSUME NEW t \in Threads, LoadWaiter(t) PROVE NoLostWakeup'
  BY <1>8 DEF LoadWaiter, MustPing
<1>9. ASSUME NEW t \in Threads, PingCoreSync(t) PROVE NoLostWakeup'
  BY <1>9 DEF PingCoreSync
<1>10. ASSUME NEW t \in Threads, TriggerIpi(t) PROVE NoLostWakeup'
  BY <1>10 DEF TriggerIpi, TriggerIpiGeneric, TriggerIpiSev
<1>11. ASSUME NEW t \in Threads, CompareGeneration(t) PROVE NoLostWakeup'
  BY <1>11 DEF CompareGeneration, GenerationTracksHandler
<1>12. ASSUME NEW t \in Threads, WakeupHandler(t) PROVE NoLostWakeup'
  BY <1>12 DEF WakeupHandler
<1>13. ASSUME NEW t \in Threads, InterruptReturn(t) PROVE NoLostWakeup'
  BY <1>13 DEF InterruptReturn, ResetSuspendCheck
<1>14. ASSUME NEW t \in Threads, InterruptRelease(t) PROVE NoLostWakeup'
  BY <1>14 DEF InterruptRelease, MustPing
<1>15. CASE UNCHANGED vars
  BY <1>15 DEF vars
<1> QED
  BY Zenon, <1>1, <1>2, <1>3, <1>4, <1>5, <1>6, <1>7, <1>8, <1>9, <1>10, <1>11, <1>12,
     <1>13, <1>14, <1>15 DEF Next, AcquireStep, ReleaseStep, Interrupt

\* The inductive invariant behind NoLostWakeup, where interrupts are delivered.
LEMMA WakeupInvAlways ==
    ASSUME Platform = "generic"
    PROVE  Spec => []WakeupInv
<1>1. Init => WakeupInv
  <2>1. Init => GenerationTracksHandler /\ NoLostWakeup
    BY Zenon DEF Init, GenerationTracksHandler, NoLostWakeup, Committed
  <2> QED
    BY Zenon, <2>1, InvInit DEF WakeupInv
<1>2. WakeupInv /\ [Next]_vars => WakeupInv'
  BY Zenon, InvStep, GenerationStep, WakeupStep DEF WakeupInv
<1> QED
  BY <1>1, <1>2, PTL DEF Spec

\* With the generic trigger_ipi no notification is ever lost: a core never
\* stays in hlt beside a token unless an interrupt is on its way to it.
THEOREM NotificationsAreNotLost ==
    ASSUME Platform = "generic"
    PROVE  Spec => []NoLostWakeup
BY WakeupInvAlways, PTL DEF WakeupInv

\* With the generic trigger_ipi, ping_core_sync keeps its documented promise.
THEOREM PingIsSynchronous ==
    ASSUME Platform = "generic"
    PROVE  Spec => PingRunsHandler
<1>1. ASSUME WakeupInv, [Next]_vars, NEW t \in Threads,
             pc[t] = "compare", pc'[t] = "idle"
      PROVE  handled[t]
  <2> USE <1>1 DEF WakeupInv, Inv, TypeOK, Runs, Goto
  <2>0. PICK u \in Threads : \/ Acquire(u) \/ AcquireStep(u) \/ Release(u) \/ ReleaseStep(u)
                             \/ Interrupt(u) \/ InterruptRelease(u)
    BY DEF Next, vars
  <2>a. pc' # pc BY Zenon
  <2>b. ASSUME NEW point, Runs(u, point), point # "compare", NEW q, Goto(u, q) PROVE FALSE
    BY <2>b
  <2>1. CompareGeneration(u) \/ Interrupt(u)
    <3>1. ~Acquire(u) /\ ~Release(u) BY <2>a, <2>b DEF Acquire, Release
    <3>2. ~LoadValue(u) /\ ~TestValue(u) /\ ~Hlt(u) BY <2>b DEF LoadValue, TestValue, Hlt
    <3>3. ~CompareExchange(u) /\ ~ClearWaiter(u) BY <2>b DEF CompareExchange, ClearWaiter
    <3>4. ~LoadWaiter(u) /\ ~PingCoreSync(u) BY <2>b DEF LoadWaiter, PingCoreSync
    <3>5. ~TriggerIpi(u) BY <2>b DEF TriggerIpi, TriggerIpiGeneric, TriggerIpiSev
    <3>6. ~InterruptRelease(u) BY <2>a DEF InterruptRelease
    <3> QED BY Zenon, <2>0, <3>1, <3>2, <3>3, <3>4, <3>5, <3>6 DEF AcquireStep, ReleaseStep
  <2>2. CASE CompareGeneration(u)
    BY <2>2 DEF CompareGeneration, GenerationTracksHandler
  <2>3. CASE Interrupt(u)
    BY <2>3 DEF Interrupt, WakeupHandler, InterruptReturn, ResetSuspendCheck
  <2> QED
    BY Zenon, <2>1, <2>2, <2>3
<1>2. WakeupInv /\ [Next]_vars =>
        [\A t \in Threads : pc[t] = "compare" /\ pc'[t] = "idle" => handled[t]]_vars
  BY Zenon, <1>1
<1> QED
  BY <1>2, WakeupInvAlways, PTL DEF Spec, PingRunsHandler

-----------------------------------------------------------------------------
\* The code implements CountingSemaphore: each step is one of its steps or
\* leaves its state alone.  This needs Inv only, so it holds on any platform.
THEOREM ImplementsCountingSafely == Spec => CountsTokens
<1>1. Init => Counting!Init
  BY Zenon DEF Init, Counting!Init, Place
<1>2. Inv /\ [Next]_vars => [Counting!Next]_(Counting!vars)
  <2> SUFFICES ASSUME Inv, [Next]_vars PROVE [Counting!Next]_(Counting!vars)
    BY Zenon
  <2> USE DEF Inv, TypeOK, WaiterIsRegistered, CasIsPositive, Runs, Goto,
              semVars, acqVars, relVars, pingVars, coreVars, Place
  <2>1. ASSUME NEW t \in Threads, Acquire(t) PROVE Counting!Enter(t) \/ UNCHANGED Counting!vars
    BY ZenonT(60), <2>1 DEF Acquire, Counting!Enter, Counting!vars
  <2>2. ASSUME NEW t \in Threads, LoadValue(t) \/ TestValue(t) \/ Hlt(t)
        PROVE  UNCHANGED Counting!vars
    BY Zenon, <2>2 DEF LoadValue, TestValue, Hlt, Counting!vars
  <2>3. ASSUME NEW t \in Threads, CompareExchange(t)
        PROVE  Counting!Take(t) \/ UNCHANGED Counting!vars
    BY ZenonT(60), <2>3 DEF CompareExchange, Counting!Take, Counting!vars
  <2>4. ASSUME NEW t \in Threads, ClearWaiter(t) PROVE Counting!Leave(t)
    BY Zenon, <2>4 DEF ClearWaiter, Counting!Leave
  <2>5. ASSUME NEW t \in Threads, Release(t) \/ InterruptRelease(t) PROVE Counting!Post
    BY <2>5 DEF Release, InterruptRelease, Counting!Post
  <2>6. ASSUME NEW t \in Threads, ReleaseStep(t) PROVE UNCHANGED Counting!vars
    BY <2>6 DEF ReleaseStep, LoadWaiter, PingCoreSync, TriggerIpi, TriggerIpiGeneric,
                   TriggerIpiSev, CompareGeneration, Counting!vars
  <2>7. ASSUME NEW t \in Threads, Interrupt(t) PROVE UNCHANGED Counting!vars
    BY <2>7 DEF Interrupt, WakeupHandler, InterruptReturn, ResetSuspendCheck, Counting!vars
  <2>8. CASE UNCHANGED vars
    BY Zenon, <2>8 DEF vars, Counting!vars
  <2> QED
    BY Zenon, <2>1, <2>2, <2>3, <2>4, <2>5, <2>6, <2>7, <2>8 DEF Next, AcquireStep, Counting!Next
<1> QED
  BY <1>1, <1>2, InvAlways, PTL DEF Spec, Counting!Spec, CountsTokens

=============================================================================
