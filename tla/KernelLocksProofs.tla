------------------------- MODULE KernelLocksProofs -------------------------
(***************************************************************************)
(* The locking discipline of KernelLocks, for every log level, target and  *)
(* set of interrupts and failing assertions.                               *)
(***************************************************************************)
EXTENDS KernelLocks, TLAPS

\* The operations of the programs.
Sites == {"plain", "locked"}
Ops == [op : {"lock", "unlock"}, on : Locks] \cup [op : {"assert"}, on : Sites]

\* The k-th operation of p takes, or releases, l.
Acquires(p, k, l) == p[k].op = "lock" /\ p[k].on = l
Releases(p, k, l) == p[k].op = "unlock" /\ p[k].on = l

\* The next operation on l is its release: l is held.
Holds(p, l) == \E j \in 1 .. Len(p) :
                 Releases(p, j, l) /\ \A i \in 1 .. (j - 1) : p[i].on # l

\* No release of l comes before an acquisition of it: l is not held.
Without(p, l) == \A j \in 1 .. Len(p) :
                   Releases(p, j, l) => \E i \in 1 .. (j - 1) : Acquires(p, i, l)

\* l is held where p has come to its k-th operation.
HeldAt(p, k, l) == \E j \in k .. Len(p) :
                     Releases(p, j, l) /\ \A i \in k .. (j - 1) : ~Acquires(p, i, l)

\* What is taken is released before it is taken again, in the order of Rank,
\* and an assertion outside the locks is outside them.
Disciplined(p) ==
  /\ p \in Seq(Ops)
  /\ \A i \in 1 .. Len(p), l \in Locks : Acquires(p, i, l) =>
       \E j \in (i + 1) .. Len(p) :
         Releases(p, j, l) /\ \A k \in (i + 1) .. (j - 1) : p[k].on # l
  /\ \A i \in 1 .. Len(p), l \in Locks : Releases(p, i, l) =>
       \A j \in (i + 1) .. Len(p) : Releases(p, j, l) =>
         \E k \in (i + 1) .. (j - 1) : Acquires(p, k, l)
  /\ \A i \in 1 .. Len(p), l, m \in Locks :
       Acquires(p, i, l) /\ HeldAt(p, i, m) => Rank[m] < Rank[l]
  /\ \A i \in 1 .. Len(p), m \in Locks :
       p[i].op = "assert" /\ p[i].on = "plain" => ~HeldAt(p, i, m)

\* A program that starts and ends with no lock.
Closed(p) == Disciplined(p) /\ \A l \in Locks : Without(p, l)

\* Code that may run under l.
Under(p, l) == \A i \in 1 .. Len(p) :
                 /\ p[i].op # "assert" => Rank[l] < Rank[p[i].on]
                 /\ p[i].op = "assert" => p[i].on # "plain"

\* Who runs, and what it has still to run.
Contexts == [who : Irqs \cup {"main", "panic"}, todo : Seq(Ops)]

\* A context holds exactly the locks its code has still to release.  The boot
\* thread is at the bottom and interrupts are on only while it runs.
LockInv ==
  /\ stack \in Seq(Contexts) /\ Len(stack) > 0
  /\ owner \in [Locks -> 0 .. Len(stack)]
  /\ intr \in BOOLEAN
  /\ \A d \in 1 .. Len(stack) : Disciplined(stack[d].todo)
  /\ \A d \in 1 .. Len(stack), l \in Locks :
       IF owner[l] = d THEN Holds(stack[d].todo, l) ELSE Without(stack[d].todo, l)
  /\ \A d \in 1 .. Len(stack) : stack[d].who = "main" <=> d = 1
  /\ \A d \in 1 .. Len(stack) : stack[d].who \in Irqs => d = 2
  /\ intr => Len(stack) = 1

\* With nothing but keystrokes and assertions outside the locks, a handler has
\* no lock to wait for and a panic finds all of them free.
QuietInv ==
  /\ \A d \in 1 .. Len(stack) : stack[d].who = "key" => stack[d].todo = <<>>
  /\ stack[Len(stack)].who = "panic" => \A l \in Locks : owner[l] \in {0, Len(stack)}

-----------------------------------------------------------------------------
(* Programs.                                                               *)

\* Every lock has a rank.
LEMMA Ranks == \A l \in Locks : Rank[l] \in 1 .. 3
BY DEF Rank

\* The empty program.
LEMMA Nothing == Closed(<<>>) /\ \A l \in Locks : Under(<<>>, l)
<1>1. <<>> \in Seq(Ops) /\ Len(<<>>) = 0
  OBVIOUS
<1>. QED  BY <1>1 DEF Closed, Disciplined, Without, Under

\* A single assertion.
LEMMA OneAssert ==
  ASSUME NEW site \in Sites
  PROVE  Closed(Assert(site)) /\ (site # "plain" => \A l \in Locks : Under(Assert(site), l))
<1> DEFINE p == Assert(site)
<1>1. p \in Seq(Ops) /\ Len(p) = 1 /\ p[1].op = "assert" /\ p[1].on = site
  BY DEF Assert, Ops
<1> HIDE DEF p
<1>2. \A k \in 1 .. Len(p) : p[k].op = "assert" /\ p[k].on = site
  BY <1>1
<1>3. \A k \in 1 .. Len(p), l \in Locks : ~Acquires(p, k, l) /\ ~Releases(p, k, l)
  BY Zenon, <1>2 DEF Acquires, Releases
<1>4. \A k \in 1 .. Len(p), l \in Locks : ~HeldAt(p, k, l)
  BY <1>1, <1>3 DEF HeldAt
<1>. QED  BY Zenon, <1>1, <1>2, <1>3, <1>4 DEF Closed, Disciplined, Without, Under, p

\* One program after another.
LEMMA Sequence ==
  ASSUME NEW p, NEW q, Closed(p), Closed(q)
  PROVE  /\ Closed(p \o q)
         /\ \A l \in Locks : Under(p, l) /\ Under(q, l) => Under(p \o q, l)
<1> DEFINE r == p \o q
           n == Len(p)
<1>1. p \in Seq(Ops) /\ q \in Seq(Ops) /\ n \in Nat /\ Len(q) \in Nat
  BY DEF Closed, Disciplined
<1>2. /\ r \in Seq(Ops) /\ Len(r) = n + Len(q)
      /\ \A k \in 1 .. n : r[k] = p[k]
      /\ \A k \in 1 .. Len(r) : k > n => k - n \in 1 .. Len(q) /\ r[k] = q[k - n]
      /\ \A k \in 1 .. Len(q) : n + k \in 1 .. Len(r) /\ r[n + k] = q[k]
  BY <1>1
<1> HIDE DEF r
<1>3. \A k \in 1 .. n : \A l : (Acquires(r, k, l) <=> Acquires(p, k, l)) /\ (Releases(r, k, l) <=> Releases(p, k, l))
  BY Zenon, <1>2 DEF Acquires, Releases
<1>4. \A k \in 1 .. Len(r) : \A l : k > n =>
        (Acquires(r, k, l) <=> Acquires(q, k - n, l)) /\ (Releases(r, k, l) <=> Releases(q, k - n, l))
  BY Zenon, <1>2 DEF Acquires, Releases
<1>5. \A k \in 1 .. Len(r) : k \in 1 .. n \/ k > n
  BY <1>1, <1>2
<1>6. \A k \in 1 .. n : k \in 1 .. Len(r)
  BY <1>1, <1>2
<1>7. ASSUME NEW l \in Locks, NEW j \in 1 .. Len(r), j > n, Releases(r, j, l)
      PROVE  \E i \in (n + 1) .. (j - 1) : Acquires(r, i, l)
  <2>1. j - n \in 1 .. Len(q) /\ Releases(q, j - n, l)
    BY Zenon, <1>2, <1>4, <1>7
  <2>2. PICK i \in 1 .. (j - n - 1) : Acquires(q, i, l)
    BY Zenon, <2>1 DEF Closed, Without
  <2>3. n + i \in (n + 1) .. (j - 1) /\ n + i \in 1 .. Len(r) /\ n + i > n /\ n + i - n = i
    BY <1>1, <1>2, <1>7, <2>2
  <2>4. Acquires(r, n + i, l)
    BY <1>4, <2>2, <2>3
  <2>. QED  BY Zenon, <2>3, <2>4
<1>8. ASSUME NEW i \in 1 .. Len(r), NEW l \in Locks, Acquires(r, i, l)
      PROVE  \E j \in (i + 1) .. Len(r) :
               Releases(r, j, l) /\ \A k \in (i + 1) .. (j - 1) : r[k].on # l
  <2>1. CASE i \in 1 .. n
    <3>1. PICK j \in (i + 1) .. n : Releases(p, j, l) /\ \A k \in (i + 1) .. (j - 1) : p[k].on # l
      BY Zenon, <1>3, <1>8, <2>1 DEF Closed, Disciplined
    <3>2. j \in 1 .. n /\ j \in (i + 1) .. Len(r) /\ \A k \in (i + 1) .. (j - 1) : k \in 1 .. n
      BY <1>1, <1>2, <2>1
    <3>. QED  BY Zenon, <1>2, <1>3, <3>1, <3>2
  <2>2. CASE i > n
    <3>1. i - n \in 1 .. Len(q) /\ Acquires(q, i - n, l)
      BY Zenon, <1>2, <1>4, <1>8, <2>2
    <3>2. PICK j \in (i - n + 1) .. Len(q) :
            Releases(q, j, l) /\ \A k \in (i - n + 1) .. (j - 1) : q[k].on # l
      BY Zenon, <3>1 DEF Closed, Disciplined
    <3>3. n + j \in (i + 1) .. Len(r) /\ n + j \in 1 .. Len(r) /\ n + j > n /\ n + j - n = j
      BY <1>1, <1>2, <2>2, <3>2
    <3>4. \A k \in (i + 1) .. (n + j - 1) :
            k \in 1 .. Len(r) /\ k > n /\ k - n \in (i - n + 1) .. (j - 1)
      BY <1>1, <1>2, <2>2, <3>2
    <3>5. Releases(r, n + j, l)
      BY <1>4, <3>2, <3>3
    <3>6. \A k \in (i + 1) .. (n + j - 1) : r[k].on # l
      <4> TAKE k \in (i + 1) .. (n + j - 1)
      <4>1. r[k] = q[k - n]
        BY Zenon, <1>2, <3>4
      <4>. QED  BY Zenon, <3>2, <3>4, <4>1
    <3>. QED  BY <3>3, <3>5, <3>6
  <2>. QED  BY Zenon, <1>5, <2>1, <2>2
<1>9. ASSUME NEW i \in 1 .. Len(r), NEW l \in Locks, Releases(r, i, l),
             NEW j \in (i + 1) .. Len(r), Releases(r, j, l)
      PROVE  \E k \in (i + 1) .. (j - 1) : Acquires(r, k, l)
  <2>0. j \in 1 .. Len(r)
    OBVIOUS
  <2>1. CASE j \in 1 .. n
    <3>1. i \in 1 .. n /\ j \in (i + 1) .. n
      BY <1>1, <2>1
    <3>2. PICK k \in (i + 1) .. (j - 1) : Acquires(p, k, l)
      BY Zenon, <1>3, <1>9, <2>1, <3>1 DEF Closed, Disciplined
    <3>3. k \in 1 .. n
      BY <1>1, <3>1, <3>2
    <3>. QED  BY Zenon, <1>3, <3>2, <3>3
  <2>2. CASE j > n /\ i \in 1 .. n
    <3>1. PICK k \in (n + 1) .. (j - 1) : Acquires(r, k, l)
      BY Zenon, <1>7, <1>9, <2>0, <2>2
    <3>2. k \in (i + 1) .. (j - 1)
      BY <1>1, <2>2, <3>1
    <3>. QED  BY Zenon, <3>1, <3>2
  <2>3. CASE j > n /\ i > n
    <3>1. i - n \in 1 .. Len(q) /\ j - n \in (i - n + 1) .. Len(q)
      BY <1>1, <1>2, <2>3
    <3>2. Releases(q, i - n, l) /\ Releases(q, j - n, l)
      BY Zenon, <1>4, <1>9, <2>0, <2>3
    <3>3. PICK k \in (i - n + 1) .. (j - n - 1) : Acquires(q, k, l)
      BY Zenon, <3>1, <3>2 DEF Closed, Disciplined
    <3>4. n + k \in (i + 1) .. (j - 1) /\ n + k \in 1 .. Len(r) /\ n + k > n /\ n + k - n = k
      BY <1>1, <1>2, <2>3, <3>3
    <3>. QED  BY <1>4, <3>3, <3>4
  <2>. QED  BY Zenon, <1>5, <2>0, <2>1, <2>2, <2>3
\* Where r holds a lock, the part that is there holds it.
<1>10. ASSUME NEW i \in 1 .. Len(r), NEW m \in Locks, HeldAt(r, i, m)
       PROVE  IF i \in 1 .. n THEN HeldAt(p, i, m) ELSE HeldAt(q, i - n, m)
  <2>1. PICK j \in i .. Len(r) : Releases(r, j, m) /\ \A k \in i .. (j - 1) : ~Acquires(r, k, m)
    BY Zenon, <1>10 DEF HeldAt
  <2>2. j \in 1 .. Len(r)
    BY <2>1
  <2>3. CASE i \in 1 .. n
    <3>1. ~(j > n)
      <4>1. SUFFICES ASSUME j > n PROVE FALSE
        OBVIOUS
      <4>2. PICK k \in (n + 1) .. (j - 1) : Acquires(r, k, m)
        BY Zenon, <1>7, <2>1, <2>2, <4>1
      <4>3. k \in i .. (j - 1)
        BY <1>1, <2>3, <4>2
      <4>. QED  BY Zenon, <2>1, <4>2, <4>3
    <3>2. j \in i .. n /\ j \in 1 .. n /\ \A k \in i .. (j - 1) : k \in 1 .. n
      BY <1>1, <1>2, <2>2, <2>3, <3>1
    <3>3. Releases(p, j, m) /\ \A k \in i .. (j - 1) : ~Acquires(p, k, m)
      BY Zenon, <1>3, <2>1, <3>2
    <3>. QED  BY Zenon, <2>3, <3>2, <3>3 DEF HeldAt
  <2>4. CASE i > n
    <3>1. j > n /\ j - n \in (i - n) .. Len(q) /\ i \notin 1 .. n
      BY <1>1, <1>2, <2>2, <2>4
    <3>2. \A k \in (i - n) .. (j - n - 1) : n + k \in i .. (j - 1) /\ n + k \in 1 .. Len(r)
                                              /\ n + k > n /\ n + k - n = k
      BY <1>1, <1>2, <2>2, <2>4, <3>1
    <3>3. Releases(q, j - n, m) /\ \A k \in (i - n) .. (j - n - 1) : ~Acquires(q, k, m)
      BY <1>4, <2>1, <2>2, <3>1, <3>2
    <3>. QED  BY Zenon, <3>1, <3>3 DEF HeldAt
  <2>. QED  BY Zenon, <1>5, <2>3, <2>4
<1>11. \A i \in 1 .. Len(r), l, m \in Locks :
         Acquires(r, i, l) /\ HeldAt(r, i, m) => Rank[m] < Rank[l]
  <2> TAKE i \in 1 .. Len(r), l \in Locks, m \in Locks
  <2> HAVE Acquires(r, i, l) /\ HeldAt(r, i, m)
  <2>1. CASE i \in 1 .. n
    BY Zenon, <1>3, <1>10, <2>1 DEF Closed, Disciplined
  <2>2. CASE i > n
    <3>1. i - n \in 1 .. Len(q) /\ Acquires(q, i - n, l) /\ i \notin 1 .. n
      BY <1>1, <1>2, <1>4, <2>2
    <3>. QED  BY Zenon, <1>10, <3>1 DEF Closed, Disciplined
  <2>. QED  BY Zenon, <1>5, <2>1, <2>2
<1>12. \A i \in 1 .. Len(r), m \in Locks :
         r[i].op = "assert" /\ r[i].on = "plain" => ~HeldAt(r, i, m)
  <2> TAKE i \in 1 .. Len(r), m \in Locks
  <2> HAVE r[i].op = "assert" /\ r[i].on = "plain"
  <2>1. CASE i \in 1 .. n
    BY Zenon, <1>2, <1>10, <2>1 DEF Closed, Disciplined
  <2>2. CASE i > n
    <3>1. i - n \in 1 .. Len(q) /\ r[i] = q[i - n] /\ i \notin 1 .. n
      BY <1>1, <1>2, <2>2
    <3>. QED  BY Zenon, <1>10, <3>1 DEF Closed, Disciplined
  <2>. QED  BY Zenon, <1>5, <2>1, <2>2
<1>13. ASSUME NEW l \in Locks PROVE Without(r, l)
  <2> SUFFICES ASSUME NEW j \in 1 .. Len(r), Releases(r, j, l)
               PROVE  \E i \in 1 .. (j - 1) : Acquires(r, i, l)
    BY Zenon DEF Without
  <2>1. CASE j \in 1 .. n
    <3>1. PICK i \in 1 .. (j - 1) : Acquires(p, i, l)
      BY Zenon, <1>3, <2>1 DEF Closed, Without
    <3>2. i \in 1 .. n
      BY <1>1, <2>1
    <3>. QED  BY Zenon, <1>3, <3>1, <3>2
  <2>2. CASE j > n
    <3>1. PICK i \in (n + 1) .. (j - 1) : Acquires(r, i, l)
      BY Zenon, <1>7, <2>2
    <3>2. i \in 1 .. (j - 1)
      BY <1>1
    <3>. QED  BY Zenon, <3>1, <3>2
  <2>. QED  BY Zenon, <1>5, <2>1, <2>2
<1>14. ASSUME NEW l \in Locks, Under(p, l), Under(q, l) PROVE Under(r, l)
  <2> SUFFICES ASSUME NEW k \in 1 .. Len(r)
               PROVE  /\ r[k].op # "assert" => Rank[l] < Rank[r[k].on]
                      /\ r[k].op = "assert" => r[k].on # "plain"
    BY Zenon DEF Under
  <2>1. CASE k \in 1 .. n
    BY Zenon, <1>2, <1>14, <2>1 DEF Under
  <2>2. CASE k > n
    BY <1>2, <1>14, <2>2 DEF Under
  <2>. QED  BY Zenon, <1>5, <2>1, <2>2
<1>15. Disciplined(r)
  BY Zenon, <1>2, <1>8, <1>9, <1>11, <1>12 DEF Disciplined
<1>. QED  BY Zenon, <1>13, <1>14, <1>15 DEF Closed, r

\* A program under a lock that ranks below all it takes.
LEMMA Locked ==
  ASSUME NEW l \in Locks, NEW b, Closed(b), Under(b, l)
  PROVE  /\ Closed(With(l, b))
         /\ \A m \in Locks : Rank[m] < Rank[l] /\ Under(b, m) => Under(With(l, b), m)
<1> DEFINE r == With(l, b)
           n == Len(b)
<1>1. b \in Seq(Ops) /\ n \in Nat
  BY DEF Closed, Disciplined
<1>2. [op |-> "lock", on |-> l] \in Ops /\ [op |-> "unlock", on |-> l] \in Ops
  BY Zenon DEF Ops
<1>3. /\ r \in Seq(Ops) /\ Len(r) = n + 2
      /\ r[1] = [op |-> "lock", on |-> l] /\ r[n + 2] = [op |-> "unlock", on |-> l]
      /\ \A k \in 2 .. (n + 1) : k - 1 \in 1 .. n /\ r[k] = b[k - 1]
  BY <1>1, <1>2 DEF With, Lock, Unlock
<1> HIDE DEF r
<1>4. \A k \in 1 .. Len(r) : k = 1 \/ k = n + 2 \/ k \in 2 .. (n + 1)
  BY <1>1, <1>3
<1>5. \A k \in 2 .. (n + 1) : \A m : (Acquires(r, k, m) <=> Acquires(b, k - 1, m))
                                 /\ (Releases(r, k, m) <=> Releases(b, k - 1, m))
  BY Zenon, <1>3 DEF Acquires, Releases
<1>6. \A k \in 1 .. n : k + 1 \in 2 .. (n + 1) /\ k + 1 - 1 = k
  BY <1>1
<1>7. \A k \in 1 .. n : \A m : (Acquires(r, k + 1, m) <=> Acquires(b, k, m))
                           /\ (Releases(r, k + 1, m) <=> Releases(b, k, m))
  BY <1>5, <1>6
<1>8. /\ \A m : Acquires(r, 1, m) <=> m = l
      /\ \A m : Releases(r, n + 2, m) <=> m = l
      /\ \A m : ~Releases(r, 1, m) /\ ~Acquires(r, n + 2, m)
  BY <1>3 DEF Acquires, Releases
<1>9. \A k \in 1 .. n : b[k].on # l
  <2> TAKE k \in 1 .. n
  <2>1. CASE b[k].op = "assert"
    <3>1. b[k] \in Ops
      BY <1>1
    <3>2. b[k].on \in Sites
      BY Zenon, <2>1, <3>1 DEF Ops
    <3>. QED  BY Zenon, <3>2 DEF Sites, Locks
  <2>2. CASE b[k].op # "assert"
    BY <2>2, Ranks DEF Under
  <2>. QED  BY Zenon, <2>1, <2>2
<1>10. \A k \in 2 .. (n + 1) : r[k].on # l
  BY Zenon, <1>3, <1>9
<1>11. \A k \in 2 .. (n + 1) : ~Acquires(r, k, l) /\ ~Releases(r, k, l)
  BY Zenon, <1>10 DEF Acquires, Releases
<1>12. ASSUME NEW i \in 1 .. Len(r), NEW m \in Locks, Acquires(r, i, m)
       PROVE  \E j \in (i + 1) .. Len(r) :
                Releases(r, j, m) /\ \A k \in (i + 1) .. (j - 1) : r[k].on # m
  <2>1. CASE i = 1
    <3>1. m = l /\ n + 2 \in (i + 1) .. Len(r) /\ \A k \in (i + 1) .. (n + 2 - 1) : k \in 2 .. (n + 1)
      BY <1>1, <1>3, <1>8, <1>12, <2>1
    <3>. QED  BY <1>8, <1>10, <3>1
  <2>2. CASE i \in 2 .. (n + 1)
    <3>1. i - 1 \in 1 .. n /\ Acquires(b, i - 1, m)
      BY Zenon, <1>3, <1>5, <1>12, <2>2
    <3>2. PICK j \in (i - 1 + 1) .. n : Releases(b, j, m) /\ \A k \in (i - 1 + 1) .. (j - 1) : b[k].on # m
      BY Zenon, <3>1 DEF Closed, Disciplined
    <3>3. j + 1 \in (i + 1) .. Len(r) /\ j + 1 \in 2 .. (n + 1) /\ j + 1 - 1 = j
      BY <1>1, <1>3, <2>2, <3>2
    <3>4. Releases(r, j + 1, m)
      BY <1>5, <3>2, <3>3
    <3>5. \A k \in (i + 1) .. (j + 1 - 1) : k \in 2 .. (n + 1) /\ k - 1 \in (i - 1 + 1) .. (j - 1)
      BY <1>1, <2>2, <3>2
    <3>6. \A k \in (i + 1) .. (j + 1 - 1) : r[k].on # m
      BY Zenon, <1>3, <3>2, <3>5
    <3>. QED  BY <3>3, <3>4, <3>6
  <2>. QED  BY Zenon, <1>4, <1>8, <1>12, <2>1, <2>2
<1>13. ASSUME NEW i \in 1 .. Len(r), NEW m \in Locks, Releases(r, i, m),
              NEW j \in (i + 1) .. Len(r), Releases(r, j, m)
       PROVE  \E k \in (i + 1) .. (j - 1) : Acquires(r, k, m)
  <2>1. i \in 2 .. (n + 1)
    <3>1. i # 1 /\ i # n + 2
      BY <1>1, <1>3, <1>8, <1>13
    <3>. QED  BY Zenon, <1>4, <3>1
  <2>2. m # l
    BY Zenon, <1>11, <1>13, <2>1
  <2>3. j \in 2 .. (n + 1) /\ i - 1 \in 1 .. n /\ j - 1 \in (i - 1 + 1) .. n
    <3>1. j # n + 2
      BY Zenon, <1>8, <1>13, <2>2
    <3>2. Len(r) = n + 2
      BY Zenon, <1>3
    <3>3. j \in 2 .. (n + 1) /\ j > i
      BY <1>1, <2>1, <3>1, <3>2
    <3>. QED  BY <1>1, <2>1, <3>3
  <2>4. Releases(b, i - 1, m) /\ Releases(b, j - 1, m)
    BY Zenon, <1>5, <1>13, <2>1, <2>3
  <2>5. PICK k \in (i - 1 + 1) .. (j - 1 - 1) : Acquires(b, k, m)
    BY Zenon, <2>3, <2>4 DEF Closed, Disciplined
  <2>6. k + 1 \in (i + 1) .. (j - 1) /\ k \in 1 .. n
    BY <1>1, <2>1, <2>3, <2>5
  <2>. QED  BY Zenon, <1>7, <2>5, <2>6
\* The locks held inside are those the body holds, and l.
<1>14. ASSUME NEW i \in 1 .. Len(r), NEW m \in Locks, HeldAt(r, i, m), m # l
       PROVE  i \in 2 .. (n + 1) /\ HeldAt(b, i - 1, m)
  <2>1. PICK j \in i .. Len(r) : Releases(r, j, m) /\ \A k \in i .. (j - 1) : ~Acquires(r, k, m)
    BY Zenon, <1>14 DEF HeldAt
  <2>2. j \in 2 .. (n + 1)
    <3>1. j \in 1 .. Len(r) /\ j # 1 /\ j # n + 2
      BY <1>8, <1>14, <2>1
    <3>. QED  BY Zenon, <1>4, <3>1
  <2>3. j - 1 \in 1 .. n /\ Releases(b, j - 1, m)
    BY Zenon, <1>3, <1>5, <2>1, <2>2
  <2>4. i # 1
    <3>1. PICK k \in 1 .. (j - 1 - 1) : Acquires(b, k, m)
      BY Zenon, <2>3 DEF Closed, Without
    <3>2. k + 1 \in 2 .. (n + 1) /\ k + 1 - 1 = k /\ (i = 1 => k + 1 \in i .. (j - 1))
      BY <1>1, <2>2, <2>3, <3>1
    <3>3. Acquires(r, k + 1, m)
      BY <1>5, <3>1, <3>2
    <3>. QED  BY Zenon, <2>1, <3>2, <3>3
  <2>5. i \in 2 .. (n + 1) /\ j - 1 \in (i - 1) .. n
    BY <1>1, <1>3, <2>1, <2>2, <2>4
  <2>6. \A k \in (i - 1) .. (j - 1 - 1) : k + 1 \in i .. (j - 1) /\ k \in 1 .. n
    BY <1>1, <2>2, <2>5
  <2>7. \A k \in (i - 1) .. (j - 1 - 1) : ~Acquires(b, k, m)
    BY Zenon, <1>7, <2>1, <2>6
  <2>. QED  BY Zenon, <2>3, <2>5, <2>7 DEF HeldAt
<1>15. \A m \in Locks : ~HeldAt(r, 1, m)
  <2> SUFFICES ASSUME HeldAt(r, 1, l) PROVE FALSE
    BY <1>1, <1>3, <1>14
  <2>1. PICK j \in 1 .. Len(r) : Releases(r, j, l) /\ \A k \in 1 .. (j - 1) : ~Acquires(r, k, l)
    BY Zenon DEF HeldAt
  <2>2. j # 1 /\ 1 \in 1 .. (j - 1)
    BY <1>8, <2>1
  <2>. QED  BY Zenon, <1>8, <2>1, <2>2
<1>16. \A i \in 1 .. Len(r), k, m \in Locks :
         Acquires(r, i, k) /\ HeldAt(r, i, m) => Rank[m] < Rank[k]
  <2> TAKE i \in 1 .. Len(r), k \in Locks, m \in Locks
  <2> HAVE Acquires(r, i, k) /\ HeldAt(r, i, m)
  <2>1. i \in 2 .. (n + 1)
    BY Zenon, <1>4, <1>8, <1>15
  <2>2. i - 1 \in 1 .. n /\ Acquires(b, i - 1, k)
    BY Zenon, <1>3, <1>5, <2>1
  <2>3. CASE m = l
    BY Zenon, <2>2, <2>3 DEF Under, Acquires
  <2>4. CASE m # l
    BY Zenon, <1>14, <2>2, <2>4 DEF Closed, Disciplined
  <2>. QED  BY Zenon, <2>3, <2>4
<1>17. \A i \in 1 .. Len(r), m \in Locks :
         r[i].op = "assert" /\ r[i].on = "plain" => ~HeldAt(r, i, m)
  BY <1>3, <1>4 DEF Under
<1>18. ASSUME NEW m \in Locks PROVE Without(r, m)
  <2> SUFFICES ASSUME NEW j \in 1 .. Len(r), Releases(r, j, m)
               PROVE  \E i \in 1 .. (j - 1) : Acquires(r, i, m)
    BY Zenon DEF Without
  <2>1. CASE m = l
    <3>1. j # 1 /\ 1 \in 1 .. (j - 1)
      BY <1>8
    <3>. QED  BY Zenon, <1>8, <2>1, <3>1
  <2>2. CASE m # l
    <3>1. j \in 2 .. (n + 1)
      BY Zenon, <1>4, <1>8, <2>2
    <3>2. j - 1 \in 1 .. n /\ Releases(b, j - 1, m)
      BY Zenon, <1>3, <1>5, <3>1
    <3>3. PICK k \in 1 .. (j - 1 - 1) : Acquires(b, k, m)
      BY Zenon, <3>2 DEF Closed, Without
    <3>4. k + 1 \in 1 .. (j - 1) /\ k \in 1 .. n
      BY <1>1, <3>1, <3>3
    <3>. QED  BY Zenon, <1>7, <3>3, <3>4
  <2>. QED  BY Zenon, <2>1, <2>2
<1>19. ASSUME NEW m \in Locks, Rank[m] < Rank[l], Under(b, m) PROVE Under(r, m)
  <2> SUFFICES ASSUME NEW k \in 1 .. Len(r)
               PROVE  /\ r[k].op # "assert" => Rank[m] < Rank[r[k].on]
                      /\ r[k].op = "assert" => r[k].on # "plain"
    BY Zenon DEF Under
  <2>1. CASE k = 1 \/ k = n + 2
    BY <1>3, <1>19, <2>1
  <2>2. CASE k \in 2 .. (n + 1)
    BY Zenon, <1>3, <1>19, <2>2 DEF Under
  <2>. QED  BY Zenon, <1>4, <2>1, <2>2
<1>20. Disciplined(r)
  BY Zenon, <1>3, <1>12, <1>13, <1>16, <1>17 DEF Disciplined
<1>. QED  BY Zenon, <1>18, <1>19, <1>20 DEF Closed, r

\* Code that can run anywhere: it takes only locks under which nothing is taken.
Leaf(p) == Closed(p) /\ \A l \in Locks : Rank[l] < 3 => Under(p, l)

\* One leaf after the other.
LEMMA LeafSequence ==
  ASSUME NEW p, NEW q, Leaf(p), Leaf(q)
  PROVE  Leaf(p \o q)
BY Zenon, Sequence DEF Leaf

\* A lock taken and released at once.
LEMMA Touches ==
  ASSUME NEW l \in Locks
  PROVE  Closed(Touch(l)) /\ (Rank[l] = 3 => Leaf(Touch(l)))
<1>1. Closed(<<>>) /\ \A m \in Locks : Under(<<>>, m)
  BY Zenon, Nothing
<1>. QED  BY Zenon, <1>1, Locked DEF Touch, Leaf

\* The order of the locks.
LEMMA RankValues ==
  /\ Rank["PT_POOL"] = 1 /\ Rank["MASKS"] = 1 /\ Rank["STATE"] = 1 /\ Rank["PMM"] = 2
  /\ Rank["CONFIG"] = 3 /\ Rank["ENABLED"] = 3 /\ Rank["COM1"] = 3 /\ Rank["WRITER"] = 3
BY Zenon DEF Rank, Locks

\* A record is written one lock at a time, whatever its level and target.
LEMMA Logs == \A level : Leaf(log(level))
<1>1. /\ Leaf(Touch("CONFIG")) /\ Leaf(Touch("ENABLED"))
      /\ Leaf(Touch("COM1")) /\ Leaf(Touch("WRITER"))
  BY Zenon, Touches, RankValues DEF Locks
<1>2. Leaf(<<>>)
  BY Zenon, Nothing DEF Leaf
<1>3. Leaf(now_micros) /\ Leaf(write_serial) /\ Leaf(write_vga)
  BY Zenon, <1>1, <1>2 DEF now_micros, write_serial, write_vga
<1>. QED  BY Zenon, <1>1, <1>3, LeafSequence DEF log

\* A table frame: the pool, and the PMM under its lock.
LEMMA Allocations == Closed(pt_alloc)
<1>1. Closed(Assert("locked")) /\ \A l \in Locks : Under(Assert("locked"), l)
  BY Zenon, OneAssert DEF Sites
<1>2. "PMM" \in Locks /\ "PT_POOL" \in Locks
  BY Zenon DEF Locks
<1>3. Closed(allocate_frame) /\ Under(allocate_frame, "PT_POOL")
  BY <1>1, <1>2, Locked, RankValues DEF allocate_frame
<1>. QED  BY Zenon, <1>2, <1>3, Locked DEF pt_alloc

\* Logging under a lock of the drivers.
LEMMA LoggedUnder ==
  ASSUME NEW l \in {"PMM", "MASKS", "STATE"}, NEW p, Leaf(p)
  PROVE  Closed(With(l, p))
<1>1. l \in Locks /\ Rank[l] < 3
  BY RankValues DEF Locks
<1>. QED  BY Zenon, <1>1, Locked DEF Leaf

\* Every piece of code of the model.
LEMMA Programs ==
  /\ \A b \in DOMAIN Boot : Closed(Boot[b])
  /\ \A i \in DOMAIN Idle : Closed(Idle[i])
  /\ \A h \in DOMAIN Handler : Closed(Handler[h])
  /\ Closed(panic_report)
<1>1. \A level : Leaf(log(level)) /\ Closed(log(level))
  BY Zenon, Logs DEF Leaf
<1>2. \A l \in Locks : Closed(Touch(l))
  BY Zenon, Touches
<1>3. \A p, q : Closed(p) /\ Closed(q) => Closed(p \o q)
  BY Zenon, Sequence
<1>4. Closed(Assert("plain")) /\ Closed(pt_alloc) /\ Closed(<<>>)
  BY Zenon, OneAssert, Allocations, Nothing DEF Sites
<1>5. Closed(panic_report)
  BY Zenon, <1>2, <1>3 DEF panic_report, Locks
<1>6. ASSUME NEW b \in DOMAIN Boot PROVE Closed(Boot[b])
  <2>1. /\ Closed(Touch("COM1") \o Touch("WRITER") \o log(Info))
        /\ Closed(Touch("CONFIG")) /\ Closed(Touch("PMM"))
    BY Zenon, <1>1, <1>2, <1>3 DEF Locks
  <2>2. Closed(With("PMM", log(Warn) \o log(Debug) \o log(Info)))
    BY Zenon, <1>1, LeafSequence, LoggedUnder
  <2>3. Closed(Assert("plain") \o pt_alloc \o Touch("KERNEL_PML4"))
    BY Zenon, <1>2, <1>3, <1>4 DEF Locks
  <2>4. Closed(Touch("NX_AVAILABLE") \o pt_alloc \o log(Trace))
    BY Zenon, <1>1, <1>2, <1>3, <1>4 DEF Locks
  <2>5. Closed(Assert("plain") \o Touch("ALLOCATOR") \o log(Info))
    BY Zenon, <1>1, <1>2, <1>3, <1>4 DEF Locks
  <2>6. Closed(Touch("MASKS") \o Touch("REMAPPED") \o log(Info)) /\ Closed(Touch("ENABLED") \o log(Info))
    BY Zenon, <1>1, <1>2, <1>3 DEF Locks
  <2>7. Closed(With("MASKS", log(Debug)))
    BY Zenon, <1>1, LoggedUnder
  <2>8. Closed(log(Info) \o Touch("STATE") \o log(Info))
    BY Zenon, <1>1, <1>2, <1>3 DEF Locks
  <2>9. b \in {"console_init", "configure", "pmm_init", "reserve_range", "vmm_init", "map_4k", "heap_init", "remap", "pit_init", "unmask", "keyboard_init"}
    BY Zenon DEF Boot
  <2>10. /\ Boot["console_init"] = Touch("COM1") \o Touch("WRITER") \o log(Info)
        /\ Boot["configure"] = Touch("CONFIG")
        /\ Boot["pmm_init"] = With("PMM", log(Warn) \o log(Debug) \o log(Info))
        /\ Boot["reserve_range"] = Touch("PMM")
        /\ Boot["vmm_init"] = Assert("plain") \o pt_alloc \o Touch("KERNEL_PML4")
        /\ Boot["map_4k"] = Touch("NX_AVAILABLE") \o pt_alloc \o log(Trace)
        /\ Boot["heap_init"] = Assert("plain") \o Touch("ALLOCATOR") \o log(Info)
        /\ Boot["remap"] = Touch("MASKS") \o Touch("REMAPPED") \o log(Info)
        /\ Boot["pit_init"] = Touch("ENABLED") \o log(Info)
        /\ Boot["unmask"] = With("MASKS", log(Debug))
        /\ Boot["keyboard_init"] = log(Info) \o Touch("STATE") \o log(Info)
    BY Zenon DEF Boot
  <2>. QED  BY Zenon, <2>1, <2>2, <2>3, <2>4, <2>5, <2>6, <2>7, <2>8, <2>9, <2>10
<1>7. ASSUME NEW i \in DOMAIN Idle PROVE Closed(Idle[i])
  <2>1. Closed(Touch("STATE")) /\ Closed(With("STATE", log(Trace)))
    BY Zenon, <1>1, <1>2, LoggedUnder DEF Locks
  <2>2. Closed(log(Info) \o Touch("STATE") \o log(Info)) /\ Closed(log(Debug))
        /\ Closed(log(Info) \o log(Warn))
    BY Zenon, <1>1, <1>2, <1>3 DEF Locks
  <2>3. Closed(Touch("COM1") \o Touch("WRITER") \o log(Warn))
        /\ Closed(Touch("ENABLED") \o Touch("STATE") \o log(Trace))
    BY Zenon, <1>1, <1>2, <1>3 DEF Locks
  <2>4. i \in {"translate", "translate_unknown", "handle_ctrl_c", "handle_no_char", "handle_escape", "handle_char", "report"}
    BY Zenon DEF Idle
  <2>5. /\ Idle["translate"] = Touch("STATE")
        /\ Idle["translate_unknown"] = With("STATE", log(Trace))
        /\ Idle["handle_ctrl_c"] = log(Info) \o Touch("STATE") \o log(Info)
        /\ Idle["handle_no_char"] = log(Debug)
        /\ Idle["handle_escape"] = log(Info) \o log(Warn)
        /\ Idle["handle_char"] = Touch("COM1") \o Touch("WRITER") \o log(Warn)
        /\ Idle["report"] = Touch("ENABLED") \o Touch("STATE") \o log(Trace)
    BY Zenon DEF Idle
  <2>. QED  BY Zenon, <2>1, <2>2, <2>3, <2>4, <2>5
<1>8. ASSUME NEW h \in DOMAIN Handler PROVE Closed(Handler[h])
  <2>1. Closed(irq_timer) /\ Closed(irq_timer \o Touch("ENABLED") \o log(Debug))
    BY Zenon, <1>1, <1>2, <1>3 DEF irq_timer, Locks
  <2>2. Closed(log(Error) \o Touch("MASKS")) /\ Closed(log(Warn)) /\ Closed(log(Trace))
    BY Zenon, <1>1, <1>2, <1>3 DEF Locks
  <2>3. h \in {"key", "key_fault", "key_noise", "timer", "heartbeat", "unexpected"}
    BY Zenon DEF Handler
  <2>4. /\ Handler["key"] = irq_key
        /\ Handler["key_fault"] = log(Warn)
        /\ Handler["key_noise"] = log(Trace)
        /\ Handler["timer"] = irq_timer
        /\ Handler["heartbeat"] = irq_timer \o Touch("ENABLED") \o log(Debug)
        /\ Handler["unexpected"] = log(Error) \o Touch("MASKS")
    BY Zenon DEF Handler
  <2>. QED  BY Zenon, <1>4, <2>1, <2>2, <2>3, <2>4 DEF irq_key
<1>. QED  BY Zenon, <1>5, <1>6, <1>7, <1>8

\* The kernel's code after its first operation.
LEMMA TailDisciplined ==
  ASSUME NEW p, Disciplined(p), p # <<>>
  PROVE  /\ Disciplined(Tail(p))
         /\ Head(p) \in Ops /\ Head(p) = p[1] /\ 1 \in 1 .. Len(p)
         /\ \A l \in Locks : Head(p).on # l =>
              (Holds(p, l) => Holds(Tail(p), l)) /\ (Without(p, l) => Without(Tail(p), l))
         /\ \A l \in Locks : Acquires(p, 1, l) => Holds(Tail(p), l) /\ ~Holds(p, l)
         /\ \A l \in Locks : Releases(p, 1, l) => Without(Tail(p), l) /\ ~Without(p, l)
         /\ \A l, m \in Locks : Acquires(p, 1, l) /\ Holds(p, m) => Rank[m] < Rank[l]
         /\ \A l \in Locks : Head(p).op = "assert" /\ Head(p).on = "plain" => ~Holds(p, l)
<1> DEFINE t == Tail(p)
           n == Len(t)
<1>1. /\ p \in Seq(Ops) /\ t \in Seq(Ops) /\ n \in Nat /\ Len(p) = n + 1
      /\ Head(p) \in Ops /\ Head(p) = p[1] /\ 1 \in 1 .. Len(p)
      /\ \A k \in 1 .. n : k + 1 \in 1 .. Len(p) /\ t[k] = p[k + 1]
  BY DEF Disciplined
<1> HIDE DEF t
<1>2. \A k \in 1 .. n : \A l : (Acquires(t, k, l) <=> Acquires(p, k + 1, l))
                           /\ (Releases(t, k, l) <=> Releases(p, k + 1, l))
  BY Zenon, <1>1 DEF Acquires, Releases
<1>3. \A l : (Acquires(p, 1, l) => Head(p).on = l) /\ (Releases(p, 1, l) => Head(p).on = l)
  BY Zenon, <1>1 DEF Acquires, Releases
<1>4. \A j \in 1 .. Len(p) : j = 1 \/ (j - 1 \in 1 .. n /\ j - 1 + 1 = j)
  BY <1>1
<1>5. ASSUME NEW l \in Locks, NEW j \in 2 .. Len(p), Releases(p, j, l), \A k \in 2 .. (j - 1) : p[k].on # l
      PROVE  Holds(t, l)
  <2>1. j - 1 \in 1 .. n /\ j - 1 + 1 = j /\ \A k \in 1 .. (j - 1 - 1) : k \in 1 .. n /\ k + 1 \in 2 .. (j - 1)
    BY <1>1
  <2>2. Releases(t, j - 1, l)
    BY Zenon, <1>2, <1>5, <2>1
  <2>3. \A k \in 1 .. (j - 1 - 1) : t[k].on # l
    <3> TAKE k \in 1 .. (j - 1 - 1)
    <3>1. t[k] = p[k + 1] /\ k + 1 \in 2 .. (j - 1)
      BY Zenon, <1>1, <2>1
    <3>. QED  BY Zenon, <1>5, <3>1
  <2>. QED  BY Zenon, <2>1, <2>2, <2>3 DEF Holds
<1>6. ASSUME NEW l \in Locks, \A j \in 2 .. Len(p) : Releases(p, j, l) => \E k \in 2 .. (j - 1) : Acquires(p, k, l)
      PROVE  Without(t, l)
  <2> SUFFICES ASSUME NEW j \in 1 .. n, Releases(t, j, l)
               PROVE  \E k \in 1 .. (j - 1) : Acquires(t, k, l)
    BY Zenon DEF Without
  <2>1. Releases(p, j + 1, l) /\ j + 1 \in 2 .. Len(p)
    BY <1>1, <1>2
  <2>2. PICK k \in 2 .. (j + 1 - 1) : Acquires(p, k, l)
    BY <1>6, <2>1
  <2>3. k - 1 \in 1 .. n /\ k - 1 + 1 = k /\ k - 1 \in 1 .. (j - 1)
    BY <1>1, <2>2
  <2>. QED  BY Zenon, <1>2, <2>2, <2>3
<1>7. ASSUME NEW l \in Locks, Head(p).on # l, Holds(p, l) PROVE Holds(t, l)
  <2>1. PICK j \in 1 .. Len(p) : Releases(p, j, l) /\ \A i \in 1 .. (j - 1) : p[i].on # l
    BY Zenon, <1>7 DEF Holds
  <2>2. j \in 2 .. Len(p) /\ \A k \in 2 .. (j - 1) : k \in 1 .. (j - 1)
    BY <1>3, <1>4, <1>7, <2>1
  <2>. QED  BY Zenon, <1>5, <2>1, <2>2
<1>8. ASSUME NEW l \in Locks, Head(p).on # l, Without(p, l) PROVE Without(t, l)
  <2>1. ASSUME NEW j \in 2 .. Len(p), Releases(p, j, l)
        PROVE  \E k \in 2 .. (j - 1) : Acquires(p, k, l)
    <3>1. j \in 1 .. Len(p)
      OBVIOUS
    <3>2. PICK k \in 1 .. (j - 1) : Acquires(p, k, l)
      BY Zenon, <1>8, <2>1, <3>1 DEF Without
    <3>3. k \in 2 .. (j - 1)
      BY <1>3, <1>8, <3>2
    <3>. QED  BY Zenon, <3>2, <3>3
  <2>. QED  BY Zenon, <1>6, <2>1
<1>9. ASSUME NEW l \in Locks, Acquires(p, 1, l) PROVE Holds(t, l) /\ ~Holds(p, l)
  <2>1. PICK j \in (1 + 1) .. Len(p) : Releases(p, j, l) /\ \A k \in (1 + 1) .. (j - 1) : p[k].on # l
    BY Zenon, <1>1, <1>9 DEF Disciplined
  <2>2. Holds(t, l)
    BY <1>5, <2>1
  <2>3. ~Holds(p, l)
    <3> SUFFICES ASSUME NEW i \in 1 .. Len(p), Releases(p, i, l), \A k \in 1 .. (i - 1) : p[k].on # l
                 PROVE  FALSE
      BY Zenon DEF Holds
    <3>1. ~Releases(p, 1, l) /\ p[1].on = l
      BY Zenon, <1>9 DEF Acquires, Releases
    <3>2. i # 1 /\ 1 \in 1 .. (i - 1)
      BY <3>1
    <3>. QED  BY Zenon, <3>1, <3>2
  <2>. QED  BY Zenon, <2>2, <2>3
<1>10. ASSUME NEW l \in Locks, Releases(p, 1, l) PROVE Without(t, l) /\ ~Without(p, l)
  <2>1. \A j \in 2 .. Len(p) : Releases(p, j, l) => \E k \in 2 .. (j - 1) : Acquires(p, k, l)
    BY <1>1, <1>10 DEF Disciplined
  <2>2. ~Without(p, l)
    BY <1>1, <1>10 DEF Without
  <2>. QED  BY Zenon, <1>6, <2>1, <2>2
<1>11. ASSUME NEW m \in Locks, Holds(p, m) PROVE HeldAt(p, 1, m)
  <2>1. PICK j \in 1 .. Len(p) : Releases(p, j, m) /\ \A i \in 1 .. (j - 1) : p[i].on # m
    BY Zenon, <1>11 DEF Holds
  <2>2. \A i \in 1 .. (j - 1) : ~Acquires(p, i, m)
    BY Zenon, <2>1 DEF Acquires
  <2>. QED  BY Zenon, <2>1, <2>2 DEF HeldAt
<1>12. \A l, m \in Locks : Acquires(p, 1, l) /\ Holds(p, m) => Rank[m] < Rank[l]
  BY Zenon, <1>1, <1>11 DEF Disciplined
<1>13. \A l \in Locks : Head(p).op = "assert" /\ Head(p).on = "plain" => ~Holds(p, l)
  BY Zenon, <1>1, <1>11 DEF Disciplined
<1>14. Disciplined(t)
  <2>1. ASSUME NEW i \in 1 .. n, NEW l \in Locks, Acquires(t, i, l)
        PROVE  \E j \in (i + 1) .. n : Releases(t, j, l) /\ \A k \in (i + 1) .. (j - 1) : t[k].on # l
    <3>1. i + 1 \in 1 .. Len(p) /\ Acquires(p, i + 1, l)
      BY Zenon, <1>1, <1>2, <2>1
    <3>2. PICK j \in (i + 1 + 1) .. Len(p) :
            Releases(p, j, l) /\ \A k \in (i + 1 + 1) .. (j - 1) : p[k].on # l
      BY Zenon, <3>1 DEF Disciplined
    <3>3. j - 1 \in 1 .. n /\ j - 1 + 1 = j /\ j - 1 \in (i + 1) .. n
      BY <1>1, <3>2
    <3>4. Releases(t, j - 1, l)
      BY Zenon, <1>2, <3>2, <3>3
    <3>5. \A k \in (i + 1) .. (j - 1 - 1) : t[k].on # l
      <4> TAKE k \in (i + 1) .. (j - 1 - 1)
      <4>1. k \in 1 .. n /\ k + 1 \in (i + 1 + 1) .. (j - 1)
        BY <1>1, <3>2
      <4>2. t[k] = p[k + 1]
        BY Zenon, <1>1, <4>1
      <4>. QED  BY Zenon, <3>2, <4>1, <4>2
    <3>. QED  BY Zenon, <3>3, <3>4, <3>5
  <2>2. ASSUME NEW i \in 1 .. n, NEW l \in Locks, Releases(t, i, l), NEW j \in (i + 1) .. n, Releases(t, j, l)
        PROVE  \E k \in (i + 1) .. (j - 1) : Acquires(t, k, l)
    <3>1. i + 1 \in 1 .. Len(p) /\ j \in 1 .. n /\ j + 1 \in (i + 1 + 1) .. Len(p)
      BY <1>1
    <3>2. Releases(p, i + 1, l) /\ Releases(p, j + 1, l)
      BY Zenon, <1>2, <2>2, <3>1
    <3>3. PICK k \in (i + 1 + 1) .. (j + 1 - 1) : Acquires(p, k, l)
      BY <3>1, <3>2 DEF Disciplined
    <3>4. k - 1 \in 1 .. n /\ k - 1 + 1 = k /\ k - 1 \in (i + 1) .. (j - 1)
      BY <1>1, <3>3
    <3>. QED  BY Zenon, <1>2, <3>3, <3>4
  <2>3. ASSUME NEW i \in 1 .. n, NEW m \in Locks, HeldAt(t, i, m) PROVE HeldAt(p, i + 1, m)
    <3>1. PICK j \in i .. n : Releases(t, j, m) /\ \A k \in i .. (j - 1) : ~Acquires(t, k, m)
      BY Zenon, <2>3 DEF HeldAt
    <3>2. j \in 1 .. n /\ j + 1 \in (i + 1) .. Len(p)
      BY <1>1
    <3>3. Releases(p, j + 1, m)
      BY Zenon, <1>2, <3>1, <3>2
    <3>4. \A k \in (i + 1) .. (j + 1 - 1) : ~Acquires(p, k, m)
      <4> TAKE k \in (i + 1) .. (j + 1 - 1)
      <4>1. k - 1 \in 1 .. n /\ k - 1 + 1 = k /\ k - 1 \in i .. (j - 1)
        BY <1>1, <3>2
      <4>. QED  BY Zenon, <1>2, <3>1, <4>1
    <3>. QED  BY <3>2, <3>3, <3>4 DEF HeldAt
  <2>4. \A i \in 1 .. n, l, m \in Locks : Acquires(t, i, l) /\ HeldAt(t, i, m) => Rank[m] < Rank[l]
    BY Zenon, <1>1, <1>2, <2>3 DEF Disciplined
  <2>5. \A i \in 1 .. n, m \in Locks : t[i].op = "assert" /\ t[i].on = "plain" => ~HeldAt(t, i, m)
    <3> TAKE i \in 1 .. n, m \in Locks
    <3>1. i + 1 \in 1 .. Len(p) /\ t[i] = p[i + 1]
      BY Zenon, <1>1
    <3>. QED  BY Zenon, <2>3, <3>1 DEF Disciplined
  <2>. QED  BY Zenon, <1>1, <2>1, <2>2, <2>4, <2>5 DEF Disciplined
<1>. QED  BY Zenon, <1>1, <1>7, <1>8, <1>9, <1>10, <1>12, <1>13, <1>14 DEF t

-----------------------------------------------------------------------------
(* Steps.                                                                  *)

\* An interrupt is neither the boot thread nor a panic.
LEMMA IrqNames == Irqs \subseteq DOMAIN Handler /\ "main" \notin Irqs /\ "panic" \notin Irqs
<1>1. "main" \notin DOMAIN Handler /\ "panic" \notin DOMAIN Handler
  BY Zenon DEF Handler
<1>. QED  BY Zenon, <1>1, LocksAssumption

\* Before the first call.
LEMMA InitEstablishesLockInv == Init => LockInv
<1> SUFFICES ASSUME Init PROVE LockInv
  OBVIOUS
<1>1. [who |-> "main", todo |-> <<>>] \in Contexts
  BY DEF Contexts
<1>2. stack \in Seq(Contexts) /\ Len(stack) = 1 /\ stack[1].who = "main" /\ stack[1].todo = <<>>
  BY <1>1 DEF Init
<1>3. Disciplined(<<>>) /\ \A l \in Locks : Without(<<>>, l)
  BY Zenon, Nothing DEF Closed
<1>4. owner \in [Locks -> 0 .. Len(stack)] /\ \A l \in Locks : owner[l] = 0
  BY <1>2 DEF Init
<1>5. \A d \in 1 .. Len(stack) : d = 1
  BY <1>2
<1>6. \A d \in 1 .. Len(stack) : /\ Disciplined(stack[d].todo)
                                 /\ stack[d].who = "main" <=> d = 1
                                 /\ stack[d].who \in Irqs => d = 2
  BY Zenon, <1>2, <1>3, <1>5, IrqNames
<1>7. \A d \in 1 .. Len(stack), l \in Locks :
        IF owner[l] = d THEN Holds(stack[d].todo, l) ELSE Without(stack[d].todo, l)
  BY <1>2, <1>3, <1>4, <1>5
<1>8. intr \in BOOLEAN /\ ~intr
  BY Zenon DEF Init
<1>. QED  BY <1>2, <1>4, <1>6, <1>7, <1>8 DEF LockInv

\* The running context is past its next operation.
LEMMA RestFacts ==
  ASSUME LockInv, Top.todo # <<>>
  PROVE  /\ Depth \in 1 .. Depth /\ Depth \in Nat /\ Depth = Len(stack)
         /\ Disciplined(Top.todo) /\ Disciplined(Tail(Top.todo))
         /\ Rest \in Seq(Contexts) /\ Len(Rest) = Depth
         /\ \A d \in 1 .. Depth :
              /\ Rest[d].who = stack[d].who
              /\ Rest[d].todo = IF d = Depth THEN Tail(Top.todo) ELSE stack[d].todo
<1>1. stack \in Seq(Contexts) /\ Len(stack) > 0 /\ Depth = Len(stack) /\ Depth \in Nat /\ Depth \in 1 .. Depth
  BY DEF LockInv, Depth
<1>2. Disciplined(Top.todo) /\ Top \in Contexts
  BY <1>1 DEF LockInv, Top
<1>3. Disciplined(Tail(Top.todo))
  BY Zenon, <1>2, TailDisciplined
<1>4. Tail(Top.todo) \in Seq(Ops)
  BY Zenon, <1>3 DEF Disciplined
<1>5. Rest = [stack EXCEPT ![Depth] = [Top EXCEPT !.todo = Tail(Top.todo)]]
  BY Zenon, <1>1 DEF Rest, Top
<1>6. [Top EXCEPT !.todo = Tail(Top.todo)] \in Contexts
  BY Zenon, <1>2, <1>4 DEF Contexts
<1>7. Rest \in Seq(Contexts) /\ Len(Rest) = Depth
  BY <1>1, <1>5, <1>6
<1>8. \A d \in 1 .. Depth : Rest[d] = IF d = Depth THEN [Top EXCEPT !.todo = Tail(Top.todo)] ELSE stack[d]
  BY <1>1, <1>5
<1>9. \A d \in 1 .. Depth : stack[d] \in Contexts
  BY <1>1
<1>10. \A d \in 1 .. Depth :
              /\ Rest[d].who = stack[d].who
              /\ Rest[d].todo = IF d = Depth THEN Tail(Top.todo) ELSE stack[d].todo
  BY Zenon, <1>2, <1>8, <1>9 DEF Contexts, Top
<1>. QED  BY Zenon, <1>1, <1>2, <1>3, <1>7, <1>10

\* A step of the running code that leaves every other lock alone.
LEMMA OperationStep ==
  ASSUME LockInv, Top.todo # <<>>, stack' = Rest, UNCHANGED intr,
         owner' \in [Locks -> 0 .. Depth],
         \A l \in Locks : NextOp.on # l => owner'[l] = owner[l],
         \A l \in Locks : NextOp.on = l =>
           \/ Acquires(Top.todo, 1, l) /\ owner[l] = 0 /\ owner'[l] = Depth
           \/ Releases(Top.todo, 1, l) /\ owner'[l] = 0
  PROVE  LockInv'
<1>1. /\ Depth \in 1 .. Depth /\ Depth \in Nat /\ Depth = Len(stack)
      /\ Disciplined(Top.todo) /\ Disciplined(Tail(Top.todo))
      /\ stack' \in Seq(Contexts) /\ Len(stack') = Depth
      /\ \A d \in 1 .. Depth :
              /\ stack'[d].who = stack[d].who
              /\ stack'[d].todo = IF d = Depth THEN Tail(Top.todo) ELSE stack[d].todo
  BY Zenon, RestFacts
<1>2. \A d \in 1 .. Len(stack') : Disciplined(stack'[d].todo)
  BY Zenon, <1>1 DEF LockInv
<1>3. ASSUME NEW d \in 1 .. Len(stack'), NEW l \in Locks
      PROVE  IF owner'[l] = d THEN Holds(stack'[d].todo, l) ELSE Without(stack'[d].todo, l)
  <2>0. d \in 1 .. Depth /\ d \in 1 .. Len(stack) /\ Top = stack[Depth]
    BY Zenon, <1>1 DEF Top
  <2>1. CASE d = Depth /\ NextOp.on # l
    <3>1. IF owner[l] = d THEN Holds(Top.todo, l) ELSE Without(Top.todo, l)
      BY Zenon, <2>0, <2>1 DEF LockInv
    <3>2. (Holds(Top.todo, l) => Holds(Tail(Top.todo), l)) /\ (Without(Top.todo, l) => Without(Tail(Top.todo), l))
      BY Zenon, <1>1, <2>1, TailDisciplined DEF NextOp
    <3>. QED  BY Zenon, <1>1, <2>0, <2>1, <3>1, <3>2
  <2>2. CASE d = Depth /\ NextOp.on = l
    <3>1. CASE Acquires(Top.todo, 1, l) /\ owner'[l] = Depth
      <4>1. Holds(Tail(Top.todo), l)
        BY Zenon, <1>1, <3>1, TailDisciplined
      <4>. QED  BY Zenon, <1>1, <2>0, <2>2, <3>1, <4>1
    <3>2. CASE Releases(Top.todo, 1, l) /\ owner'[l] = 0
      <4>1. Without(Tail(Top.todo), l)
        BY Zenon, <1>1, <3>2, TailDisciplined
      <4>. QED  BY <1>1, <2>0, <2>2, <3>2, <4>1
    <3>. QED  BY Zenon, <2>2, <3>1, <3>2
  <2>3. CASE d # Depth
    <3>1. IF owner[l] = d THEN Holds(stack[d].todo, l) ELSE Without(stack[d].todo, l)
      BY Zenon, <2>0 DEF LockInv
    <3>2. owner'[l] = d <=> owner[l] = d
      <4>1. CASE NextOp.on # l
        BY Zenon, <4>1
      <4>2. CASE Acquires(Top.todo, 1, l) /\ owner[l] = 0 /\ owner'[l] = Depth
        BY <2>0, <2>3, <4>2
      <4>3. CASE Releases(Top.todo, 1, l) /\ owner'[l] = 0
        <5>1. ~Without(Top.todo, l)
          BY Zenon, <1>1, <4>3, TailDisciplined
        <5>2. owner[l] = Depth
          BY Zenon, <1>1, <2>0, <5>1 DEF LockInv
        <5>. QED  BY <2>0, <2>3, <4>3, <5>2
      <4>. QED  BY Zenon, <4>1, <4>2, <4>3
    <3>. QED  BY Zenon, <1>1, <2>0, <2>3, <3>1, <3>2
  <2>. QED  BY Zenon, <2>1, <2>2, <2>3
<1>4. \A d \in 1 .. Len(stack') : (stack'[d].who = "main" <=> d = 1) /\ (stack'[d].who \in Irqs => d = 2)
  BY Zenon, <1>1 DEF LockInv
<1>5. owner' \in [Locks -> 0 .. Len(stack')] /\ intr' \in BOOLEAN /\ (intr' => Len(stack') = 1)
  BY Zenon, <1>1 DEF LockInv
<1>. QED  BY Zenon, <1>1, <1>2, <1>3, <1>4, <1>5 DEF LockInv

\* A context entered above the running one.
LEMMA EnterStep ==
  ASSUME LockInv, NEW c \in Contexts, c.who # "main", c.who \in Irqs => Len(stack) = 1,
         Closed(c.todo), stack' = Append(stack, c), intr' = FALSE, UNCHANGED owner
  PROVE  LockInv'
<1>1. stack \in Seq(Contexts) /\ Len(stack) > 0 /\ Len(stack) \in Nat
  BY DEF LockInv
<1>2. /\ stack' \in Seq(Contexts) /\ Len(stack') = Len(stack) + 1
      /\ stack'[Len(stack) + 1] = c
      /\ \A d \in 1 .. Len(stack) : stack'[d] = stack[d]
  BY <1>1
<1>3. \A d \in 1 .. Len(stack') : d = Len(stack) + 1 \/ d \in 1 .. Len(stack)
  BY <1>1, <1>2
<1>4. owner' \in [Locks -> 0 .. Len(stack')] /\ \A l \in Locks : owner'[l] = owner[l] /\ owner[l] # Len(stack) + 1
  BY <1>1, <1>2 DEF LockInv
<1>5. Disciplined(c.todo) /\ \A l \in Locks : Without(c.todo, l)
  BY Zenon DEF Closed
<1>6. \A d \in 1 .. Len(stack') : Disciplined(stack'[d].todo)
  BY Zenon, <1>2, <1>3, <1>5 DEF LockInv
<1>7. ASSUME NEW d \in 1 .. Len(stack'), NEW l \in Locks
      PROVE  IF owner'[l] = d THEN Holds(stack'[d].todo, l) ELSE Without(stack'[d].todo, l)
  <2>1. CASE d \in 1 .. Len(stack)
    BY Zenon, <1>2, <1>4, <2>1 DEF LockInv
  <2>2. CASE d = Len(stack) + 1
    BY Zenon, <1>2, <1>4, <1>5, <2>2
  <2>. QED  BY Zenon, <1>3, <2>1, <2>2
<1>8. \A d \in 1 .. Len(stack') : (stack'[d].who = "main" <=> d = 1) /\ (stack'[d].who \in Irqs => d = 2)
  <2> TAKE d \in 1 .. Len(stack')
  <2>1. CASE d \in 1 .. Len(stack)
    BY Zenon, <1>2, <2>1 DEF LockInv
  <2>2. CASE d = Len(stack) + 1
    BY <1>1, <1>2, <2>2
  <2>. QED  BY Zenon, <1>3, <2>1, <2>2
<1>9. intr' \in BOOLEAN /\ ~intr'
  OBVIOUS
<1>. QED  BY <1>1, <1>2, <1>4, <1>6, <1>7, <1>8, <1>9 DEF LockInv

\* Every step.
LEMMA NextPreservesLockInv == LockInv /\ [Next]_vars => LockInv'
<1> SUFFICES ASSUME LockInv, [Next]_vars PROVE LockInv'
  OBVIOUS
<1>0. stack \in Seq(Contexts) /\ Len(stack) > 0 /\ Len(stack) \in Nat /\ Depth = Len(stack)
      /\ owner \in [Locks -> 0 .. Depth] /\ Top = stack[Len(stack)] /\ Len(stack) \in 1 .. Len(stack)
  BY DEF LockInv, Depth, Top
<1>01. Top \in Contexts
  BY <1>0
<1>1. CASE start
  <2>1. PICK p : Closed(p) /\ stack' = <<[who |-> "main", todo |-> p]>>
    BY Zenon, <1>1, Programs DEF start
  <2>2. p \in Seq(Ops) /\ Disciplined(p) /\ \A l \in Locks : Without(p, l)
    BY Zenon, <2>1 DEF Closed, Disciplined
  <2>3. [who |-> "main", todo |-> p] \in Contexts
    BY Zenon, <2>2 DEF Contexts
  <2>4. stack' \in Seq(Contexts) /\ Len(stack') = 1 /\ stack'[1].who = "main" /\ stack'[1].todo = p
    BY <2>1, <2>3
  <2>5. Depth = 1 /\ Top.todo = <<>> /\ UNCHANGED <<owner, intr>>
    BY Zenon, <1>1 DEF start
  <2>6. \A l \in Locks : owner'[l] = 0
    <3>1. \A l \in Locks : ~Holds(<<>>, l)
      BY DEF Holds
    <3>2. \A l \in Locks : owner[l] # 1
      BY Zenon, <1>0, <2>5, <3>1 DEF LockInv
    <3>. QED  BY <1>0, <2>5, <3>2
  <2>7. owner' \in [Locks -> 0 .. Len(stack')]
    BY Zenon, <1>0, <2>4, <2>5
  <2>8. \A d \in 1 .. Len(stack') : d = 1
    BY <2>4
  <2>9. \A d \in 1 .. Len(stack'), l \in Locks :
          IF owner'[l] = d THEN Holds(stack'[d].todo, l) ELSE Without(stack'[d].todo, l)
    BY <2>2, <2>4, <2>6, <2>8
  <2>10. intr' \in BOOLEAN
    BY Zenon, <2>5 DEF LockInv
  <2>. QED  BY <2>2, <2>4, <2>7, <2>8, <2>9, <2>10, IrqNames DEF LockInv
<1>2. CASE test_timer_interrupt \/ test_timer_done \/ enable_interrupts
  <2>1. UNCHANGED <<stack, owner>> /\ Len(stack) = 1 /\ intr' \in BOOLEAN
    BY Zenon, <1>0, <1>2 DEF test_timer_interrupt, test_timer_done, enable_interrupts
  <2>. QED  BY Zenon, <2>1 DEF LockInv
<1>3. ASSUME NEW i \in Irqs, interrupt(i) PROVE LockInv'
  <2> DEFINE c == [who |-> i, todo |-> Handler[i]]
  <2>1. Closed(Handler[i]) /\ Handler[i] \in Seq(Ops)
    BY Zenon, IrqNames, Programs DEF Closed, Disciplined
  <2>2. c \in Contexts /\ c.who = i /\ c.todo = Handler[i]
    BY Zenon, <2>1 DEF Contexts
  <2>3. stack' = Append(stack, c) /\ intr' = FALSE /\ UNCHANGED owner /\ Len(stack) = 1
    BY Zenon, <1>3 DEF interrupt, LockInv
  <2> HIDE DEF c
  <2>. QED  BY Zenon, <2>1, <2>2, <2>3, IrqNames, EnterStep
<1>4. CASE lock
  <2>1. /\ Top.todo # <<>> /\ NextOp.op = "lock" /\ owner[NextOp.on] = 0
        /\ owner' = [owner EXCEPT ![NextOp.on] = Depth] /\ stack' = Rest /\ UNCHANGED intr
    BY Zenon, <1>4 DEF lock
  <2>2. Disciplined(Top.todo)
    BY Zenon, <2>1, RestFacts
  <2>3. NextOp = Top.todo[1] /\ NextOp \in Ops
    BY Zenon, <2>1, <2>2, TailDisciplined DEF NextOp
  <2>4. Acquires(Top.todo, 1, NextOp.on) /\ NextOp.on \in Locks
    BY Zenon, <2>1, <2>3 DEF Acquires, Ops
  <2>5. /\ owner' \in [Locks -> 0 .. Depth] /\ owner'[NextOp.on] = Depth
        /\ \A l \in Locks : NextOp.on # l => owner'[l] = owner[l]
    BY <1>0, <2>1, <2>4
  <2>. QED  BY Zenon, <2>1, <2>4, <2>5, OperationStep
<1>5. CASE unlock
  <2>1. /\ Top.todo # <<>> /\ NextOp.op = "unlock"
        /\ owner' = [owner EXCEPT ![NextOp.on] = 0] /\ stack' = Rest /\ UNCHANGED intr
    BY Zenon, <1>5 DEF unlock
  <2>2. Disciplined(Top.todo)
    BY Zenon, <2>1, RestFacts
  <2>3. NextOp = Top.todo[1] /\ NextOp \in Ops
    BY Zenon, <2>1, <2>2, TailDisciplined DEF NextOp
  <2>4. Releases(Top.todo, 1, NextOp.on) /\ NextOp.on \in Locks
    BY Zenon, <2>1, <2>3 DEF Releases, Ops
  <2>5. /\ owner' \in [Locks -> 0 .. Depth] /\ owner'[NextOp.on] = 0
        /\ \A l \in Locks : NextOp.on # l => owner'[l] = owner[l]
    BY <1>0, <2>1, <2>4
  <2>. QED  BY Zenon, <2>1, <2>4, <2>5, OperationStep
<1>6. CASE assert_holds
  <2>1. /\ Top.todo # <<>> /\ NextOp.op = "assert" /\ stack' = Rest /\ UNCHANGED <<owner, intr>>
    BY Zenon, <1>6 DEF assert_holds
  <2>2. Disciplined(Top.todo)
    BY Zenon, <2>1, RestFacts
  <2>3. NextOp \in Ops
    BY Zenon, <2>1, <2>2, TailDisciplined DEF NextOp
  <2>4. NextOp.on \in Sites
    BY Zenon, <2>1, <2>3 DEF Ops
  <2>5. \A l \in Locks : NextOp.on # l
    BY Zenon, <2>4 DEF Sites, Locks
  <2>. QED  BY Zenon, <1>0, <2>1, <2>5, OperationStep
<1>7. CASE assert_fails
  <2> DEFINE c == [who |-> "panic", todo |-> panic_report]
  <2>1. Closed(panic_report) /\ panic_report \in Seq(Ops)
    BY Zenon, Programs DEF Closed, Disciplined
  <2>2. c \in Contexts /\ c.who = "panic" /\ c.todo = panic_report
    BY Zenon, <2>1 DEF Contexts
  <2>3. stack' = Append(stack, c) /\ intr' = FALSE /\ UNCHANGED owner
    BY Zenon, <1>7 DEF assert_fails
  <2> HIDE DEF c
  <2>. QED  BY Zenon, <2>1, <2>2, <2>3, IrqNames, EnterStep
<1>8. CASE iret
  <2>1. Top.who \in Irqs /\ Top.todo = <<>> /\ stack' = SubSeq(stack, 1, Depth - 1) /\ intr' = TRUE /\ UNCHANGED owner
    BY Zenon, <1>8 DEF iret
  <2>2. Len(stack) = 2
    BY Zenon, <1>0, <2>1 DEF LockInv
  <2>3. stack' \in Seq(Contexts) /\ Len(stack') = 1 /\ stack'[1] = stack[1]
    <3>1. stack' = SubSeq(stack, 1, 1)
      BY <1>0, <2>1, <2>2
    <3>2. SubSeq(stack, 1, 1) = [k \in 1 .. 1 |-> stack[k]]
      BY <1>0, <2>2
    <3>3. stack[1] \in Contexts
      BY <1>0
    <3>. QED  BY <3>1, <3>2, <3>3
  <2>4. \A d \in 1 .. Len(stack') : d = 1 /\ d \in 1 .. Len(stack)
    BY <2>2, <2>3
  <2>5. \A l \in Locks : owner[l] # 2
    <3>1. \A l \in Locks : ~Holds(<<>>, l)
      BY DEF Holds
    <3>. QED  BY Zenon, <1>0, <2>1, <2>2, <3>1 DEF LockInv
  <2>6. owner' \in [Locks -> 0 .. Len(stack')] /\ owner' = owner
    BY <1>0, <2>1, <2>2, <2>3, <2>5
  <2>7. \A d \in 1 .. Len(stack'), l \in Locks :
          IF owner'[l] = d THEN Holds(stack'[d].todo, l) ELSE Without(stack'[d].todo, l)
    BY Zenon, <2>3, <2>4, <2>6 DEF LockInv
  <2>8. \A d \in 1 .. Len(stack') : /\ Disciplined(stack'[d].todo)
                                    /\ stack'[d].who = "main" <=> d = 1
                                    /\ stack'[d].who \in Irqs => d = 2
    BY Zenon, <2>3, <2>4 DEF LockInv
  <2>9. intr' \in BOOLEAN
    BY Zenon, <2>1
  <2>. QED  BY <2>3, <2>6, <2>7, <2>8, <2>9 DEF LockInv
<1>9. CASE panic_action
  BY Zenon, <1>9 DEF panic_action, LockInv
<1>10. CASE UNCHANGED vars
  BY Zenon, <1>10 DEF vars, LockInv
<1>. QED  BY Zenon, <1>1, <1>2, <1>3, <1>4, <1>5, <1>6, <1>7, <1>8, <1>9, <1>10 DEF Next, run

\* Through every boot call, log line, interrupt and failed assertion, each
\* context holds exactly the locks its code has still to release.
THEOREM LockInvariant == Spec => []LockInv
BY InitEstablishesLockInv, NextPreservesLockInv, PTL DEF Spec

-----------------------------------------------------------------------------
(* What follows.                                                           *)

\* The running code never waits for a lock of its own.
LEMMA OwnLocks ==
  ASSUME LockInv, Top.todo # <<>>, NextOp.op = "lock"
  PROVE  NextOp.on \in Locks /\ owner[NextOp.on] \in 0 .. (Depth - 1)
<1>1. Disciplined(Top.todo) /\ Depth \in 1 .. Depth /\ Depth \in Nat /\ Depth = Len(stack)
  BY Zenon, RestFacts
<1>2. NextOp = Top.todo[1] /\ NextOp \in Ops
  BY Zenon, <1>1, TailDisciplined DEF NextOp
<1>3. Acquires(Top.todo, 1, NextOp.on) /\ NextOp.on \in Locks
  BY Zenon, <1>2 DEF Acquires, Ops
<1>4. ~Holds(Top.todo, NextOp.on)
  BY Zenon, <1>1, <1>3, TailDisciplined
<1>5. owner[NextOp.on] # Depth /\ owner[NextOp.on] \in 0 .. Depth
  BY Zenon, <1>1, <1>3, <1>4 DEF LockInv, Top
<1>. QED  BY <1>1, <1>3, <1>5

\* Whatever is interrupted and whatever assertion fails, the boot thread never
\* waits, and a handler or the panic handler waits only for a lock held by
\* what it runs on top of: no piece of the kernel's code takes a lock twice.
WaitsOnlyForWhatItInterrupted ==
  Waiting => Depth > 1 /\ Top.who # "main" /\ owner[NextOp.on] \in 1 .. (Depth - 1)

\* The boot thread of kmain.rs never waits for a lock, and no handler waits
\* for one of its own.
THEOREM NobodyWaitsForItself == Spec => []WaitsOnlyForWhatItInterrupted
<1>1. LockInv => WaitsOnlyForWhatItInterrupted
  <2> SUFFICES ASSUME LockInv, Waiting
               PROVE  Depth > 1 /\ Top.who # "main" /\ owner[NextOp.on] \in 1 .. (Depth - 1)
    BY Zenon DEF WaitsOnlyForWhatItInterrupted
  <2>1. owner[NextOp.on] \in 0 .. (Depth - 1) /\ owner[NextOp.on] # 0
    BY Zenon, OwnLocks DEF Waiting
  <2>2. Depth \in Nat /\ Depth = Len(stack) /\ Depth \in 1 .. Len(stack)
    BY DEF LockInv, Depth
  <2>3. Depth > 1 /\ owner[NextOp.on] \in 1 .. (Depth - 1)
    BY <2>1, <2>2
  <2>. QED  BY <2>2, <2>3 DEF LockInv, Top
<1>. QED  BY <1>1, LockInvariant, PTL

\* Locks nest in one order on every path of the code: the pool, the mask and
\* the keyboard state before the frame allocator, and those before the log's.
THEOREM LocksAlwaysNestInOrder == Spec => LocksNestInOrder
<1> DEFINE A == \A l, m \in Locks : owner[l] = 0 /\ owner'[l] # 0 /\ owner[m] = owner'[l]
                                      => Rank[m] < Rank[l]
<1>1. LockInv /\ [Next]_vars => [A]_vars
  <2> SUFFICES ASSUME LockInv, Next, NEW l \in Locks, NEW m \in Locks,
                      owner[l] = 0, owner'[l] # 0, owner[m] = owner'[l]
               PROVE  Rank[m] < Rank[l]
    OBVIOUS
  <2>1. owner \in [Locks -> 0 .. Len(stack)] /\ Depth = Len(stack)
    BY Zenon DEF LockInv, Depth
  <2>2. ~UNCHANGED owner
    OBVIOUS
  <2>3. ~unlock
    <3> SUFFICES ASSUME unlock PROVE FALSE
      OBVIOUS
    <3>1. owner' = [owner EXCEPT ![NextOp.on] = 0]
      BY Zenon DEF unlock
    <3>. QED  BY Zenon, <2>1, <3>1
  <2>4. lock
    BY Zenon, <2>2, <2>3 DEF Next, run, start, test_timer_interrupt, test_timer_done, enable_interrupts,
                      interrupt, assert_holds, assert_fails, iret, panic_action
  <2>5. Top.todo # <<>> /\ NextOp.op = "lock" /\ owner' = [owner EXCEPT ![NextOp.on] = Depth]
    BY Zenon, <2>4 DEF lock
  <2>6. l = NextOp.on /\ owner'[l] = Depth
    BY Zenon, <2>1, <2>5
  <2>7. Disciplined(Top.todo) /\ Depth \in 1 .. Depth
    BY Zenon, <2>5, RestFacts
  <2>8. NextOp = Top.todo[1]
    BY Zenon, <2>5, <2>7, TailDisciplined DEF NextOp
  <2>9. Acquires(Top.todo, 1, l)
    BY Zenon, <2>5, <2>6, <2>8 DEF Acquires
  <2>10. Holds(Top.todo, m)
    BY Zenon, <2>1, <2>6, <2>7 DEF LockInv, Top
  <2>. QED  BY Zenon, <2>5, <2>7, <2>9, <2>10, TailDisciplined
<1>2. Spec => [][A]_vars
  BY <1>1, LockInvariant, PTL DEF Spec
<1>. QED  BY Zenon, <1>2 DEF LocksNestInOrder

\* Keystrokes that decode without a fault, and assertions that fail outside
\* the locks, leave nobody spinning, whatever the log level and the target:
\* irq_key takes no lock, and the panic handler finds every lock free.
THEOREM NobodyEverSpins ==
  ASSUME Irqs \subseteq {"key"}, RAISE \subseteq {"plain"}
  PROVE  Spec => []NobodySpins
<1>1. Init => QuietInv
  <2> SUFFICES ASSUME Init PROVE QuietInv
    OBVIOUS
  <2>1. Len(stack) = 1 /\ stack[1].who = "main"
    BY Zenon DEF Init
  <2>2. \A d \in 1 .. Len(stack) : d = 1
    BY <2>1
  <2>. QED  BY Zenon, <2>1, <2>2 DEF QuietInv
<1>2. LockInv /\ QuietInv /\ [Next]_vars => QuietInv'
  <2> SUFFICES ASSUME LockInv, QuietInv, [Next]_vars PROVE QuietInv'
    OBVIOUS
  <2>0. stack \in Seq(Contexts) /\ Len(stack) > 0 /\ Len(stack) \in Nat /\ Depth = Len(stack)
        /\ owner \in [Locks -> 0 .. Len(stack)] /\ Top = stack[Len(stack)] /\ Len(stack) \in 1 .. Len(stack)
    BY DEF LockInv, Depth, Top
  <2>1. CASE start
    <3>1. PICK p : stack' = <<[who |-> "main", todo |-> p]>>
      BY Zenon, <2>1 DEF start
    <3>2. Len(stack') = 1 /\ stack'[1].who = "main" /\ \A d \in 1 .. Len(stack') : d = 1
      BY <3>1
    <3>. QED  BY Zenon, <3>2 DEF QuietInv
  <2>2. ASSUME UNCHANGED <<stack, owner>> PROVE QuietInv'
    BY Zenon, <2>2 DEF QuietInv
  <2>3. ASSUME NEW i \in Irqs, interrupt(i) PROVE QuietInv'
    <3>1. i = "key" /\ Handler[i] = <<>>
      BY DEF Handler, irq_key
    <3>2. stack' = Append(stack, [who |-> "key", todo |-> <<>>])
      BY Zenon, <2>3, <3>1 DEF interrupt
    <3>3. /\ Len(stack') = Len(stack) + 1 /\ \A d \in 1 .. Len(stack) : stack'[d] = stack[d]
          /\ stack'[Len(stack) + 1] = [who |-> "key", todo |-> <<>>]
      BY <2>0, <3>2
    <3>4. \A d \in 1 .. Len(stack') : d = Len(stack) + 1 \/ d \in 1 .. Len(stack)
      BY <2>0, <3>3
    <3>. QED  BY <3>3, <3>4 DEF QuietInv
  <2>4. ASSUME Top.todo # <<>>, stack' = Rest,
               \A l \in Locks : owner'[l] \in {owner[l], 0, Depth}
        PROVE  QuietInv'
    <3>1. /\ Len(stack') = Depth
          /\ \A d \in 1 .. Depth :
              /\ stack'[d].who = stack[d].who
              /\ stack'[d].todo = IF d = Depth THEN Tail(Top.todo) ELSE stack[d].todo
      BY Zenon, <2>4, RestFacts
    <3>2. \A d \in 1 .. Len(stack') : stack'[d].who = "key" => stack'[d].todo = <<>>
      BY <2>0, <2>4, <3>1 DEF QuietInv
    <3>3. stack'[Len(stack')].who = "panic" => \A l \in Locks : owner'[l] \in {0, Len(stack')}
      BY Zenon, <2>0, <2>4, <3>1 DEF QuietInv
    <3>. QED  BY Zenon, <3>2, <3>3 DEF QuietInv
  <2>5. CASE lock
    <3>1. Top.todo # <<>> /\ stack' = Rest /\ owner' = [owner EXCEPT ![NextOp.on] = Depth]
      BY Zenon, <2>5 DEF lock
    <3>2. \A l \in Locks : owner'[l] \in {owner[l], 0, Depth}
      BY Zenon, <2>0, <3>1
    <3>. QED  BY Zenon, <2>4, <3>1, <3>2
  <2>6. CASE unlock
    <3>1. Top.todo # <<>> /\ stack' = Rest /\ owner' = [owner EXCEPT ![NextOp.on] = 0]
      BY Zenon, <2>6 DEF unlock
    <3>2. \A l \in Locks : owner'[l] \in {owner[l], 0, Depth}
      BY Zenon, <2>0, <3>1
    <3>. QED  BY Zenon, <2>4, <3>1, <3>2
  <2>7. CASE assert_holds
    BY Zenon, <2>4, <2>7 DEF assert_holds
  <2>8. CASE assert_fails
    <3>1. /\ Top.todo # <<>> /\ NextOp.op = "assert" /\ NextOp.on = "plain"
          /\ stack' = Append(stack, [who |-> "panic", todo |-> panic_report]) /\ UNCHANGED owner
      BY Zenon, <2>8 DEF assert_fails
    <3>2. Disciplined(Top.todo)
      BY Zenon, <3>1, RestFacts
    <3>3. \A l \in Locks : ~Holds(Top.todo, l)
      BY Zenon, <3>1, <3>2, TailDisciplined DEF NextOp
    <3>4. \A l \in Locks : owner[l] # Len(stack)
      BY Zenon, <2>0, <3>3 DEF LockInv
    <3>5. \A l \in Locks : owner[l] = 0
      <4>1. CASE Len(stack) = 1
        BY <2>0, <3>4, <4>1
      <4>2. CASE Len(stack) # 1
        <5>1. Top \in Contexts /\ Top.who # "main"
          BY <2>0, <4>2 DEF LockInv
        <5>2. Top.who # "key"
          BY Zenon, <2>0, <3>1 DEF QuietInv
        <5>3. Top.who = "panic"
          BY Zenon, <5>1, <5>2 DEF Contexts
        <5>. QED  BY Zenon, <2>0, <3>4, <5>3 DEF QuietInv
      <4>. QED  BY Zenon, <4>1, <4>2
    <3>6. /\ Len(stack') = Len(stack) + 1 /\ \A d \in 1 .. Len(stack) : stack'[d] = stack[d]
          /\ stack'[Len(stack) + 1] = [who |-> "panic", todo |-> panic_report]
      BY <2>0, <3>1
    <3>7. \A d \in 1 .. Len(stack') : d = Len(stack) + 1 \/ d \in 1 .. Len(stack)
      BY <2>0, <3>6
    <3>8. \A d \in 1 .. Len(stack') : stack'[d].who = "key" => stack'[d].todo = <<>>
      BY <3>6, <3>7 DEF QuietInv
    <3>. QED  BY Zenon, <3>1, <3>5, <3>8 DEF QuietInv
  <2>9. CASE iret
    <3>1. Top.who \in Irqs /\ stack' = SubSeq(stack, 1, Depth - 1)
      BY Zenon, <2>9 DEF iret
    <3>2. Len(stack) = 2
      BY Zenon, <2>0, <3>1 DEF LockInv
    <3>3. stack' = [k \in 1 .. 1 |-> stack[k]]
      BY <2>0, <3>1, <3>2
    <3>4. Len(stack') = 1 /\ stack'[1] = stack[1] /\ stack[1].who = "main"
          /\ \A d \in 1 .. Len(stack') : d = 1
      BY <2>0, <3>3 DEF LockInv
    <3>. QED  BY Zenon, <3>4 DEF QuietInv
  <2>. QED  BY Zenon, <2>1, <2>2, <2>3, <2>5, <2>6, <2>7, <2>8, <2>9
            DEF Next, run, vars, test_timer_interrupt, test_timer_done, enable_interrupts, panic_action
<1>3. LockInv /\ QuietInv => NobodySpins
  <2> SUFFICES ASSUME LockInv, QuietInv, Waiting PROVE FALSE
    BY Zenon DEF NobodySpins
  <2>1. Top.todo # <<>> /\ NextOp.on \in Locks /\ owner[NextOp.on] \in 0 .. (Depth - 1) /\ owner[NextOp.on] # 0
    BY Zenon, OwnLocks DEF Waiting
  <2>2. Len(stack) \in Nat /\ Len(stack) \in 1 .. Len(stack) /\ Depth = Len(stack) /\ Top = stack[Len(stack)]
        /\ Top \in Contexts
    BY DEF LockInv, Depth, Top
  <2>3. Top.who # "main"
    BY <2>1, <2>2 DEF LockInv
  <2>4. Top.who # "key"
    BY Zenon, <2>1, <2>2 DEF QuietInv
  <2>5. Top.who = "panic"
    BY Zenon, <2>2, <2>3, <2>4 DEF Contexts
  <2>. QED  BY <2>1, <2>2, <2>5 DEF QuietInv
<1>. QED  BY <1>1, <1>2, <1>3, LockInvariant, PTL DEF Spec

=============================================================================
