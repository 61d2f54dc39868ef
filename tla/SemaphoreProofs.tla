-------------------------- MODULE SemaphoreProofs --------------------------
(***************************************************************************)
(* The semaphore's invariants and the list of suspended threads it is      *)
(* composed with, for every number of threads, every capacity and every    *)
(* number of gives.                                                        *)
(***************************************************************************)
EXTENDS SemaphoreWait, SequenceTheorems, TLAPS

-----------------------------------------------------------------------------
(* The semaphore alone.                                                    *)

\* The three invariants are inductive together.
SemInv == TypeOK /\ NoTokenWhileWaiting /\ TokensConserved

LEMMA SemInit == Init => SemInv
BY SemaphoreAssumption
DEF Init, SemInv, TypeOK, NoTokenWhileWaiting, TokensConserved

LEMMA SemStep == SemInv /\ [Next]_vars => SemInv'
<1> SUFFICES ASSUME SemInv, [Next]_vars PROVE SemInv'
    OBVIOUS
<1> USE SemaphoreAssumption DEF SemInv, TypeOK, NoTokenWhileWaiting, TokensConserved
<1>1. CASE TryTake
    BY <1>1 DEF TryTake, TakeToken
<1>2. ASSUME NEW t \in Threads, TakeFastFails(t) PROVE SemInv'
    BY <1>2 DEF TakeFastFails
<1>3. ASSUME NEW t \in Threads, TakeSlow(t) PROVE SemInv'
    <2>1. CASE count > 0
        BY <1>3, <2>1 DEF TakeSlow, TakeToken
    <2>2. CASE count = 0
        BY <1>3, <2>2 DEF TakeSlow, TakeToken
    <2>3. QED
        BY <2>1, <2>2
<1>4. CASE Give
    BY <1>4 DEF Give
<1>5. CASE UNCHANGED vars
    BY <1>5 DEF vars
<1>6. QED
    BY <1>1, <1>2, <1>3, <1>4, <1>5 DEF Next

\* No give is lost: a thread never sleeps in take while a token is stored.
THEOREM NoGiveLost == Spec => []NoTokenWhileWaiting
<1>1. SemInv => NoTokenWhileWaiting
    BY DEF SemInv
<1>2. QED
    BY <1>1, SemInit, SemStep, PTL DEF Spec

\* Storing and handing off neither lose nor duplicate a token.
THEOREM ConservationCorrect == Spec => []TokensConserved
<1>1. SemInv => TokensConserved
    BY DEF SemInv
<1>2. QED
    BY <1>1, SemInit, SemStep, PTL DEF Spec

\* The stored count stays between zero and max_count, so neither the decrement
\* of try_take nor the increment of give wraps around.
THEOREM CountInRange == Spec => []TypeOK
<1>1. SemInv => TypeOK
    BY DEF SemInv
<1>2. QED
    BY <1>1, SemInit, SemStep, PTL DEF Spec

-----------------------------------------------------------------------------
(* The doubly linked list.                                                 *)

Pointers == Threads \cup {NoThread}

Lists ==
    [head : Pointers, tail : Pointers,
     prev : [Threads -> Pointers], next : [Threads -> Pointers]]

\* s[i], or the null pointer beyond either end
Elem(s, i) == IF i \in 1 .. Len(s) THEN s[i] ELSE NoThread

Distinct(s) == \A i, j \in 1 .. Len(s) : s[i] = s[j] => i = j

In(t, s) == \E i \in 1 .. Len(s) : s[i] = t

\* l links the threads of s in this order, and no others.
Represents(l, s) ==
    /\ l.head = Elem(s, 1)
    /\ l.tail = Elem(s, Len(s))
    /\ \A i \in 1 .. Len(s) : l.next[s[i]] = Elem(s, i + 1) /\ l.prev[s[i]] = Elem(s, i - 1)
    /\ \A t \in Threads : ~In(t, s) => l.next[t] = NoThread /\ l.prev[t] = NoThread

LEMMA AppendElem ==
    ASSUME NEW s \in Seq(Threads), NEW t \in Threads
    PROVE  /\ Append(s, t) \in Seq(Threads)
           /\ Len(Append(s, t)) = Len(s) + 1
           /\ \A i \in 1 .. Len(s) : Append(s, t)[i] = s[i]
           /\ Append(s, t)[Len(s) + 1] = t
OBVIOUS

LEMMA RemoveAtElem ==
    ASSUME NEW s \in Seq(Threads), NEW k \in 1 .. Len(s)
    PROVE  /\ RemoveAt(s, k) \in Seq(Threads)
           /\ Len(RemoveAt(s, k)) = Len(s) - 1
           /\ \A i \in 1 .. Len(s) - 1 :
                 RemoveAt(s, k)[i] = IF i < k THEN s[i] ELSE s[i + 1]
<1> DEFINE a == SubSeq(s, 1, k - 1)
           b == SubSeq(s, k + 1, Len(s))
<1>1. Len(s) \in Nat
    OBVIOUS
<1>2. /\ a \in Seq(Threads) /\ Len(a) = k - 1
      /\ \A i \in 1 .. k - 1 : a[i] = s[i]
    OBVIOUS
<1>3. /\ b \in Seq(Threads) /\ Len(b) = Len(s) - k
      /\ \A i \in 1 .. Len(s) - k : b[i] = s[k + i]
    OBVIOUS
<1>4. RemoveAt(s, k) = a \o b
    BY DEF RemoveAt
<1> HIDE DEF a, b
<1>5. /\ a \o b \in Seq(Threads)
      /\ Len(a \o b) = Len(a) + Len(b)
      /\ \A i \in 1 .. Len(a) + Len(b) :
            (a \o b)[i] = IF i <= Len(a) THEN a[i] ELSE b[i - Len(a)]
    BY <1>2, <1>3, ConcatProperties
<1>6. QED
    BY <1>1, <1>2, <1>3, <1>4, <1>5

\* A list is null at its tail only when it is empty.
LEMMA TailEmpty ==
    ASSUME NEW s \in Seq(Threads), NEW l, Represents(l, s)
    PROVE  l.tail = NoThread <=> Len(s) = 0
BY NoThreadAssumption DEF Represents, Elem

\* push_back appends.
LEMMA PushBackRepresents ==
    ASSUME NEW l \in Lists, NEW s \in Seq(Threads), Distinct(s), Represents(l, s),
           NEW t \in Threads, ~In(t, s)
    PROVE  /\ L!PushBack(l, t) \in Lists
           /\ Distinct(Append(s, t))
           /\ Represents(L!PushBack(l, t), Append(s, t))
<1> DEFINE n == Len(s)
           r == Append(s, t)
           p == L!PushBack(l, t)
<1>1. /\ r \in Seq(Threads) /\ n \in Nat /\ Len(r) = n + 1
      /\ \A i \in 1 .. n : r[i] = s[i]
      /\ r[n + 1] = t
    BY AppendElem
<1>2. /\ \A i \in 1 .. n : s[i] \in Threads /\ s[i] # t
      /\ l.next[t] = NoThread /\ l.prev[t] = NoThread
    BY DEF In, Represents
<1> HIDE DEF r
<1>3. Distinct(r)
    BY <1>1, <1>2 DEF Distinct
<1>4. \A x \in Threads : In(x, r) <=> In(x, s) \/ x = t
    BY <1>1 DEF In
<1>5. CASE l.tail = NoThread
    <2>1. n = 0
        BY <1>5, TailEmpty
    <2>2. p = [l EXCEPT !.head = t, !.tail = t]
        BY <1>5 DEF L!PushBack
    <2>3. /\ p \in Lists /\ p.head = t /\ p.tail = t
          /\ p.next = l.next /\ p.prev = l.prev
        BY <2>2 DEF Lists, Pointers
    <2> HIDE DEF p
    <2>4. Represents(p, r)
        BY <1>1, <1>2, <1>4, <2>1, <2>3 DEF Represents, Elem
    <2>5. QED
        BY <1>3, <2>3, <2>4 DEF p, r
<1>6. CASE l.tail # NoThread
    <2>1. n > 0 /\ l.tail = s[n]
        BY <1>1, <1>6, TailEmpty DEF Represents, Elem
    <2>2. p = [l EXCEPT !.next[l.tail] = t, !.prev[t] = l.tail, !.tail = t]
        BY <1>6 DEF L!PushBack
    <2>3. /\ p \in Lists /\ p.head = l.head /\ p.tail = t
          /\ p.next = [l.next EXCEPT ![l.tail] = t]
          /\ p.prev = [l.prev EXCEPT ![t] = l.tail]
        <3> DEFINE nx == [l.next EXCEPT ![l.tail] = t]
                   pv == [l.prev EXCEPT ![t] = l.tail]
        <3>1. l.tail \in Threads
            BY <1>2, <2>1
        <3>2. nx \in [Threads -> Pointers] /\ pv \in [Threads -> Pointers]
            BY <3>1 DEF Lists, Pointers
        <3>3. p = [l EXCEPT !.next = nx, !.prev = pv, !.tail = t]
            BY <2>2 DEF Lists
        <3> HIDE DEF nx, pv, p
        <3>4. /\ p \in Lists /\ p.head = l.head /\ p.tail = t
              /\ p.next = nx /\ p.prev = pv
            BY <3>2, <3>3 DEF Lists, Pointers
        <3>5. QED
            BY <3>4 DEF nx, pv
    <2>4. l.next \in [Threads -> Pointers] /\ l.prev \in [Threads -> Pointers]
        BY DEF Lists
    <2> HIDE DEF p, n
    <2>5. p.head = Elem(r, 1) /\ p.tail = Elem(r, Len(r))
        BY <1>1, <2>1, <2>3 DEF Represents, Elem, n
    <2>6. ASSUME NEW i \in 1 .. Len(r)
          PROVE  p.next[r[i]] = Elem(r, i + 1) /\ p.prev[r[i]] = Elem(r, i - 1)
        <3>1. CASE i = n + 1
            <4>1. r[i] = t /\ p.next[t] = NoThread /\ p.prev[t] = s[n]
                BY <1>1, <1>2, <2>1, <2>3, <2>4, <3>1 DEF n
            <4>2. Elem(r, i + 1) = NoThread /\ Elem(r, i - 1) = s[n]
                BY <1>1, <2>1, <3>1 DEF Elem
            <4>3. QED
                BY <4>1, <4>2
        <3>2. CASE i = n
            <4>1. r[i] = s[n] /\ s[n] # t /\ s[n] \in Threads
                BY <1>1, <1>2, <2>1, <3>2 DEF n
            <4>2. p.next[r[i]] = t /\ p.prev[r[i]] = l.prev[s[n]]
                BY <2>1, <2>3, <2>4, <4>1
            <4>3. l.prev[s[n]] = Elem(s, n - 1)
                BY <1>1, <2>1 DEF Represents, n
            <4>4. Elem(r, i + 1) = t /\ Elem(r, i - 1) = Elem(s, n - 1)
                BY <1>1, <2>1, <3>2 DEF Elem, n
            <4>5. QED
                BY <4>2, <4>3, <4>4
        <3>3. CASE i < n
            <4>1. r[i] = s[i] /\ s[i] # t /\ s[i] \in Threads /\ s[i] # s[n]
                BY <1>1, <1>2, <2>1, <3>3 DEF n, Distinct
            <4>2. p.next[r[i]] = l.next[s[i]] /\ p.prev[r[i]] = l.prev[s[i]]
                BY <2>1, <2>3, <2>4, <4>1
            <4>3. l.next[s[i]] = Elem(s, i + 1) /\ l.prev[s[i]] = Elem(s, i - 1)
                BY <1>1, <3>3 DEF Represents, n
            <4>4. Elem(r, i + 1) = Elem(s, i + 1) /\ Elem(r, i - 1) = Elem(s, i - 1)
                BY <1>1, <3>3 DEF Elem, n
            <4>5. QED
                BY <4>2, <4>3, <4>4
        <3>4. QED
            BY <1>1, <3>1, <3>2, <3>3
    <2>7. ASSUME NEW x \in Threads, ~In(x, r)
          PROVE  p.next[x] = NoThread /\ p.prev[x] = NoThread
        <3>1. ~In(x, s) /\ x # t /\ x # s[n]
            BY <1>1, <1>4, <2>1, <2>7 DEF In, n
        <3>2. QED
            BY <2>1, <2>3, <2>4, <3>1 DEF Represents
    <2>8. QED
        BY <1>3, <2>3, <2>5, <2>6, <2>7 DEF Represents, p, r
<1>7. QED
    BY <1>5, <1>6

\* remove takes a thread out of any place of the list.
LEMMA UnlinkRepresents ==
    ASSUME NEW l \in Lists, NEW s \in Seq(Threads), Distinct(s), Represents(l, s),
           NEW k \in 1 .. Len(s)
    PROVE  /\ L!Unlink(l, s[k]) \in Lists
           /\ Distinct(RemoveAt(s, k))
           /\ Represents(L!Unlink(l, s[k]), RemoveAt(s, k))
           /\ \A x \in Threads : In(x, RemoveAt(s, k)) <=> In(x, s) /\ x # s[k]
<1> DEFINE n == Len(s)
           e == s[k]
           r == RemoveAt(s, k)
           q == L!Unlink(l, e)
<1>1. /\ r \in Seq(Threads) /\ n \in Nat /\ Len(r) = n - 1
      /\ \A i \in 1 .. n - 1 : r[i] = IF i < k THEN s[i] ELSE s[i + 1]
    <2>1. n \in Nat
        OBVIOUS
    <2>2. /\ r \in Seq(Threads) /\ Len(r) = n - 1
          /\ \A i \in 1 .. n - 1 : r[i] = IF i < k THEN s[i] ELSE s[i + 1]
        BY RemoveAtElem, Zenon
    <2>3. QED
        BY <2>1, <2>2
<1>2. e \in Threads /\ k \in 1 .. n /\ \A i \in 1 .. n : s[i] \in Threads
    OBVIOUS
<1>3. l.prev[e] = Elem(s, k - 1) /\ l.next[e] = Elem(s, k + 1)
    BY DEF Represents
<1> DEFINE before == Elem(s, k - 1)
           after  == Elem(s, k + 1)
<1>4. q = [head |-> IF before = NoThread THEN after ELSE l.head,
           tail |-> IF after = NoThread THEN before ELSE l.tail,
           prev |-> [x \in Threads |-> IF x = e THEN NoThread
                                       ELSE IF x = after THEN before ELSE l.prev[x]],
           next |-> [x \in Threads |-> IF x = e THEN NoThread
                                       ELSE IF x = before THEN after ELSE l.next[x]]]
    BY <1>3 DEF L!Unlink
<1>5. before \in Pointers /\ after \in Pointers
    BY <1>2 DEF Elem, Pointers
<1> HIDE DEF n, e, r, q, before, after
<1>6. /\ q \in Lists
      /\ q.head = IF before = NoThread THEN after ELSE l.head
      /\ q.tail = IF after = NoThread THEN before ELSE l.tail
      /\ \A x \in Threads :
            /\ q.prev[x] = IF x = e THEN NoThread
                           ELSE IF x = after THEN before ELSE l.prev[x]
            /\ q.next[x] = IF x = e THEN NoThread
                           ELSE IF x = before THEN after ELSE l.next[x]
    BY <1>4, <1>5 DEF Lists, Pointers
<1>7. /\ before = NoThread <=> k = 1
      /\ k > 1 => before = s[k - 1]
      /\ after = NoThread <=> k = n
      /\ k < n => after = s[k + 1]
    BY <1>1, <1>2, NoThreadAssumption DEF before, after, Elem, n
<1>8. Distinct(r)
    BY <1>1, <1>2 DEF Distinct, n
<1>9. \A x \in Threads : In(x, r) <=> In(x, s) /\ x # e
    <2>1. ASSUME NEW x \in Threads, In(x, r) PROVE In(x, s) /\ x # e
        BY <1>1, <1>2, <2>1 DEF In, Distinct, n, e
    <2>2. ASSUME NEW x \in Threads, In(x, s), x # e PROVE In(x, r)
        <3>1. PICK j \in 1 .. n : s[j] = x
            BY <2>2 DEF In, n
        <3>2. CASE j < k
            <4>1. j \in 1 .. Len(r) /\ r[j] = x
                BY <1>1, <1>2, <3>1, <3>2
            <4>2. QED
                BY <4>1 DEF In
        <3>3. CASE j > k
            <4>1. j - 1 \in 1 .. Len(r) /\ r[j - 1] = x
                BY <1>1, <1>2, <3>1, <3>3
            <4>2. QED
                BY <4>1 DEF In
        <3>4. QED
            BY <1>1, <1>2, <2>2, <3>1, <3>2, <3>3 DEF e
    <2>3. QED
        BY <2>1, <2>2
<1>10. q.head = Elem(r, 1) /\ q.tail = Elem(r, Len(r))
    <2>1. l.head = s[1] /\ l.tail = s[n]
        BY <1>1, <1>2 DEF Represents, Elem, n
    <2>2. q.head = Elem(r, 1)
        BY <1>1, <1>2, <1>6, <1>7, <2>1 DEF Elem
    <2>3. q.tail = Elem(r, Len(r))
        BY <1>1, <1>2, <1>6, <1>7, <2>1 DEF Elem
    <2>4. QED
        BY <2>2, <2>3
<1>11. ASSUME NEW i \in 1 .. Len(r)
       PROVE  q.next[r[i]] = Elem(r, i + 1) /\ q.prev[r[i]] = Elem(r, i - 1)
    <2> DEFINE j == IF i < k THEN i ELSE i + 1
    <2>1. /\ j \in 1 .. n /\ j # k /\ r[i] = s[j] /\ s[j] \in Threads /\ s[j] # e
          /\ i \in 1 .. n - 1
        BY <1>1, <1>2 DEF Distinct, n, e
    <2>2. l.next[s[j]] = Elem(s, j + 1) /\ l.prev[s[j]] = Elem(s, j - 1)
        BY <2>1 DEF Represents, n
    <2>3. /\ s[j] = before <=> j = k - 1
          /\ s[j] = after <=> j = k + 1
        BY <1>1, <1>2, <1>7, <2>1, NoThreadAssumption DEF Distinct, n
    <2>4. /\ q.next[s[j]] = IF j = k - 1 THEN after ELSE Elem(s, j + 1)
          /\ q.prev[s[j]] = IF j = k + 1 THEN before ELSE Elem(s, j - 1)
        BY <1>6, <2>1, <2>2, <2>3
    <2>5. Elem(r, i + 1) = IF j = k - 1 THEN after ELSE Elem(s, j + 1)
        BY <1>1, <1>2, <1>7, <2>1 DEF Elem, n
    <2>6. Elem(r, i - 1) = IF j = k + 1 THEN before ELSE Elem(s, j - 1)
        BY <1>1, <1>2, <1>7, <2>1 DEF Elem, n
    <2>7. QED
        BY <2>1, <2>4, <2>5, <2>6
<1>12. ASSUME NEW x \in Threads, ~In(x, r)
       PROVE  q.next[x] = NoThread /\ q.prev[x] = NoThread
    <2>1. CASE x = e
        BY <1>6, <2>1
    <2>2. CASE x # e
        <3>1. ~In(x, s)
            BY <1>9, <1>12, <2>2
        <3>2. x # before /\ x # after
            BY <1>1, <1>2, <1>7, <3>1, NoThreadAssumption DEF In, n
        <3>3. QED
            BY <1>6, <2>2, <3>1, <3>2 DEF Represents
    <2>3. QED
        BY <2>1, <2>2
<1>13. Represents(q, r)
    BY <1>10, <1>11, <1>12 DEF Represents
<1>14. QED
    BY <1>6, <1>8, <1>9, <1>13 DEF q, r, e

-----------------------------------------------------------------------------
(* The semaphore and the list together.                                    *)

\* The list holds exactly the threads that wait, each once.
WaitInv ==
    /\ SemInv
    /\ list \in Lists
    /\ arrivals \in Seq(Threads)
    /\ Distinct(arrivals)
    /\ Represents(list, arrivals)
    /\ \A t \in Threads : t \in waiters <=> In(t, arrivals)

LEMMA WaitInvInit == WaitInit => WaitInv
<1> SUFFICES ASSUME WaitInit PROVE WaitInv
    OBVIOUS
<1>1. SemInv /\ waiters = {}
    BY SemInit DEF WaitInit, Init
<1>2. list \in Lists
    BY DEF WaitInit, L!EmptyList, Lists, Pointers
<1>3. arrivals \in Seq(Threads) /\ Len(arrivals) = 0
    BY DEF WaitInit
<1>4. Represents(list, arrivals)
    BY <1>3 DEF WaitInit, L!EmptyList, Represents, Elem, In
<1>5. QED
    BY <1>1, <1>2, <1>3, <1>4 DEF WaitInv, Distinct, In

\* A step adds one waiter, or removes one, or leaves them all.
LEMMA OneAtATime ==
    ASSUME SemInv, Next
    PROVE  /\ \A t \in waiters' \ waiters : t \in Threads /\ waiters' = waiters \cup {t}
           /\ \A t \in waiters \ waiters' : t \in Threads /\ waiters' = waiters \ {t}
BY DEF SemInv, TypeOK, Next, TryTake, TakeFastFails, TakeSlow, TakeToken, Give

LEMMA WaitInvNext == WaitInv /\ [WaitNext]_allVars => WaitInv'
<1> SUFFICES ASSUME WaitInv, [WaitNext]_allVars PROVE WaitInv'
    OBVIOUS
<1>1. CASE UNCHANGED allVars
    <2>1. SemInv'
        BY <1>1, SemStep DEF allVars, WaitInv
    <2>2. UNCHANGED <<list, arrivals, waiters>>
        BY <1>1 DEF allVars, vars
    <2>3. QED
        BY <2>1, <2>2 DEF WaitInv
<1>2. CASE WaitNext
    <2>1. Next /\ ListFollows
        BY <1>2 DEF WaitNext, Next
    <2>2. SemInv'
        BY <2>1, SemStep DEF WaitInv
    <2>3. /\ \A t \in waiters' \ waiters : t \in Threads /\ waiters' = waiters \cup {t}
          /\ \A t \in waiters \ waiters' : t \in Threads /\ waiters' = waiters \ {t}
        BY <2>1, OneAtATime DEF WaitInv
    <2>4. ASSUME NEW t \in waiters' \ waiters,
                 list' = L!PushBack(list, t), arrivals' = Append(arrivals, t)
          PROVE  WaitInv'
        <3>1. t \in Threads /\ waiters' = waiters \cup {t} /\ ~In(t, arrivals)
            BY <2>3 DEF WaitInv
        <3>2. list' \in Lists /\ Distinct(arrivals') /\ Represents(list', arrivals')
            BY <2>4, <3>1, PushBackRepresents DEF WaitInv
        <3>3. /\ arrivals' \in Seq(Threads) /\ Len(arrivals') = Len(arrivals) + 1
              /\ \A i \in 1 .. Len(arrivals) : arrivals'[i] = arrivals[i]
              /\ arrivals'[Len(arrivals) + 1] = t
              /\ Len(arrivals) \in Nat
            BY <2>4, <3>1, AppendElem DEF WaitInv
        <3>4. \A x \in Threads : x \in waiters' <=> In(x, arrivals')
            BY <3>1, <3>3 DEF WaitInv, In
        <3>5. QED
            BY <2>2, <3>2, <3>3, <3>4 DEF WaitInv
    <2>5. ASSUME NEW t \in waiters \ waiters', NEW k \in DOMAIN arrivals,
                 arrivals[k] = t, list' = L!Unlink(list, t),
                 arrivals' = RemoveAt(arrivals, k)
          PROVE  WaitInv'
        <3>1. k \in 1 .. Len(arrivals) /\ waiters' = waiters \ {t}
            BY <2>3 DEF WaitInv
        <3>2. /\ list' \in Lists /\ Distinct(arrivals') /\ Represents(list', arrivals')
              /\ \A x \in Threads : In(x, arrivals') <=> In(x, arrivals) /\ x # t
            BY <2>5, <3>1, UnlinkRepresents DEF WaitInv
        <3>3. arrivals' \in Seq(Threads)
            BY <2>5, <3>1, RemoveAtElem DEF WaitInv
        <3>4. QED
            BY <2>2, <3>1, <3>2, <3>3 DEF WaitInv
    <2>6. CASE waiters' = waiters /\ UNCHANGED <<list, arrivals>>
        BY <2>2, <2>6 DEF WaitInv
    <2>7. QED
        BY <2>1, <2>4, <2>5, <2>6 DEF ListFollows
<1>3. QED
    BY <1>1, <1>2

LEMMA RepresentsInOrder == WaitInv => ListInArrivalOrder
<1> SUFFICES ASSUME WaitInv PROVE ListInArrivalOrder
    OBVIOUS
<1>1. /\ arrivals \in Seq(Threads) /\ DOMAIN arrivals = 1 .. Len(arrivals)
      /\ Len(arrivals) \in Nat /\ \A i \in 1 .. Len(arrivals) : arrivals[i] \in Threads
    BY DEF WaitInv
<1>2. \A i \in Int : At(i) = Elem(arrivals, i)
    BY <1>1 DEF At, Elem
<1>3. ASSUME NEW i \in 0 .. Len(arrivals)
      PROVE  L!NextSuspended(list, At(i)) = At(i + 1)
    <2>1. CASE i = 0
        <3>1. At(i) = NoThread /\ At(i + 1) = Elem(arrivals, 1)
            BY <1>1, <1>2, <2>1 DEF Elem
        <3>2. QED
            BY <3>1 DEF L!NextSuspended, WaitInv, Represents
    <2>2. CASE i > 0
        <3>1. i \in 1 .. Len(arrivals) /\ At(i) = arrivals[i] /\ arrivals[i] # NoThread
            BY <1>1, <1>2, <2>2, NoThreadAssumption DEF Elem
        <3>2. list.next[arrivals[i]] = At(i + 1)
            BY <1>2, <3>1 DEF WaitInv, Represents
        <3>3. QED
            BY <3>1, <3>2 DEF L!NextSuspended
    <2>3. QED
        BY <2>1, <2>2
<1>4. \A i \in 1 .. Len(arrivals) : list.prev[At(i)] = At(i - 1)
    BY <1>1, <1>2 DEF WaitInv, Represents, Elem
<1>5. list.tail = At(Len(arrivals))
    BY <1>1, <1>2 DEF WaitInv, Represents
<1>6. ASSUME NEW t \in Threads \ waiters PROVE L!Detached(list, t)
    <2>1. ~In(t, arrivals)
        BY DEF WaitInv
    <2>2. list.head # t /\ list.tail # t
        BY <1>1, <2>1, NoThreadAssumption DEF WaitInv, Represents, Elem, In
    <2>3. QED
        BY <2>1, <2>2 DEF L!Detached, WaitInv, Represents
<1>7. QED
    BY <1>3, <1>4, <1>5, <1>6 DEF ListInArrivalOrder

\* The suspended list keeps the order of arrival, whatever order give takes the
\* waiters out of it (waitq.rs, SuspendedWaitList).
THEOREM ListCorrect == WaitSpec => []ListInArrivalOrder
<1>1. QED
    BY WaitInvInit, WaitInvNext, RepresentsInOrder, PTL DEF WaitSpec

\* The semaphore behaves with the list as it does alone, so everything proved
\* of it holds of the two together.
THEOREM ListKeepsSemaphore == WaitSpec => Spec
<1>1. WaitInit => Init
    BY DEF WaitInit
<1>2. [WaitNext]_allVars => [Next]_vars
    BY DEF WaitNext, Next, allVars
<1>3. QED
    BY <1>1, <1>2, PTL DEF WaitSpec, Spec

=============================================================================
