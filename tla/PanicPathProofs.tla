-------------------------- MODULE PanicPathProofs --------------------------
(***************************************************************************)
(* The safety properties of PanicPath, for every set of exceptions, any    *)
(* number of them and every size of the stacks.                            *)
(***************************************************************************)
EXTENDS PanicPath, FiniteSetTheorems, TLAPS

\* The operations of the programs, and what they operate on.
OpNames == {"lock", "unlock", "mark", "alloc", "panic", "return", "action",
            "assert", "backtrace", "frame"}
Ons == Locks \cup Addresses
       \cup {"-", "BEGIN", "END", "RECURSIVE", "FATAL-BEGIN", "FATAL-END"}
Ops == [op : OpNames, on : Ons, n : Nat]
\* The memory a context runs on, and who it can be.
Areas == {"kernel", "IST1", "IST2", "IST3", "IST5", "none"}
Names == Exceptions \cup {"main", "oom", "panic", "PF"}
Contexts == [who : Names, area : Areas, todo : Seq(Ops), intact : BOOLEAN, intr : BOOLEAN]

\* What matters of the code a context still has to run.
HasReturn(p) == \E k \in 1 .. Len(p) : p[k].op = "return"
HasMark(p, m) == \E k \in 1 .. Len(p) : p[k].op = "mark" /\ p[k].on = m
Plain(p) == /\ p \in Seq(Ops) /\ ~HasReturn(p)
            /\ ~HasMark(p, "BEGIN") /\ ~HasMark(p, "RECURSIVE")

\* A context that may return runs on the stack of the one below it, and what
\* has overwritten the one has overwritten the other.
StackInv(s) ==
  /\ s \in Seq(Contexts) /\ Len(s) > 0
  /\ s[Len(s)].intact
  /\ \A k \in 2 .. Len(s) : HasReturn(s[k].todo) =>
       s[k].area = s[k - 1].area /\ s[k].intact = s[k - 1].intact

\* Above the first panic interrupts were off when each context was entered,
\* so no return turns them on; the panic itself does not return.
PanicInv(s, p, b, i) ==
  p => /\ b \in 2 .. Len(s)
       /\ ~i
       /\ ~HasReturn(s[b].todo)
       /\ \A k \in b .. Len(s) : s[k].who # "irq"
       /\ \A k \in (b + 1) .. Len(s) : ~s[k].intr

\* The line t has been written.
Marked(m, t) == \E i \in 1 .. Len(m) : m[i] = t

\* Only the first panic has the first line of the report to write.  While it
\* has, what is above it came by an exception, and a recursive report is
\* written by a context above it that does not return.
ReportInv(s, p, b, m) ==
  /\ \A k \in 1 .. Len(s) : HasMark(s[k].todo, "BEGIN") => p /\ k = b
  /\ \A k \in 1 .. Len(s) : HasMark(s[k].todo, "RECURSIVE") =>
       p /\ k > b /\ ~HasReturn(s[k].todo)
  /\ Marked(m, "BEGIN") \/ Marked(m, "RECURSIVE") => p
  /\ \A i, j \in 1 .. Len(m) : m[i] = "BEGIN" /\ m[j] = "BEGIN" => i = j
  /\ Marked(m, "BEGIN") => ~HasMark(s[b].todo, "BEGIN")
  /\ p /\ ~Marked(m, "BEGIN") =>
       /\ s[b].todo = panic_report
       /\ Len(s) > b => s[b + 1].who \notin {"oom", "panic"}
  /\ ~Marked(m, "BEGIN") /\ Marked(m, "RECURSIVE") =>
       \E k \in (b + 1) .. Len(s) : ~HasReturn(s[k].todo)

\* The types of what is not a stack.
TypeInv == /\ intr \in BOOLEAN /\ PANICKING \in BOOLEAN
           /\ base \in Nat /\ marks \in Seq(Ons)

\* The inductive invariant.
DyingInv == /\ TypeInv
            /\ StackInv(stack)
            /\ PanicInv(stack, PANICKING, base, intr)
            /\ ReportInv(stack, PANICKING, base, marks)

-----------------------------------------------------------------------------
(* Programs.                                                               *)

\* One operation is a program, plain unless it returns or is a first line.
LEMMA OneOp ==
  ASSUME NEW op \in OpNames, NEW on \in Ons
  PROVE  /\ Do(op, on) \in Seq(Ops)
         /\ Len(Do(op, on)) = 1
         /\ Do(op, on)[1].op = op /\ Do(op, on)[1].on = on
         /\ op \notin {"return", "mark"} => Plain(Do(op, on))
         /\ op = "mark" /\ on \notin {"BEGIN", "RECURSIVE"} => Plain(Do(op, on))
<1>1. [op |-> op, on |-> on, n |-> 0] \in Ops
  BY Zenon DEF Ops
<1>. QED  BY <1>1 DEF Do, Plain, HasReturn, HasMark

\* Plain code after plain code is plain.
LEMMA PlainConcat ==
  ASSUME NEW p, NEW q, Plain(p), Plain(q)
  PROVE  Plain(p \o q)
<1>1. p \in Seq(Ops) /\ q \in Seq(Ops)
  BY Zenon DEF Plain
<1>2. p \o q \in Seq(Ops) /\ Len(p \o q) = Len(p) + Len(q)
  BY <1>1
<1>3. \A k \in 1 .. Len(p \o q) :
        \/ \E j \in 1 .. Len(p) : (p \o q)[k] = p[j]
        \/ \E j \in 1 .. Len(q) : (p \o q)[k] = q[j]
  <2> TAKE k \in 1 .. Len(p \o q)
  <2>1. CASE k <= Len(p)
    BY <1>1, <1>2, <2>1
  <2>2. CASE k > Len(p)
    <3>1. k - Len(p) \in 1 .. Len(q) /\ (p \o q)[k] = q[k - Len(p)]
      BY <1>1, <1>2, <2>2
    <3>. QED  BY Zenon, <3>1
  <2>. QED  BY <1>1, <2>1, <2>2
<1>. QED  BY Zenon, <1>1, <1>2, <1>3 DEF Plain, HasReturn, HasMark

\* log, oom and the fatal path are plain.
LEMMA PlainPrograms ==
  /\ Plain(log) /\ Plain(oom) /\ Plain(fatal_exception) /\ Plain(Panic) /\ Plain(Alloc)
  /\ \A l \in Locks : Plain(Lock(l)) /\ Plain(Unlock(l)) /\ Plain(Touch(l))
  /\ Plain(Mark("END")) /\ Plain(Act) /\ Plain(Do("backtrace", "-")) /\ Plain(Do("assert", "-"))
<1> USE OneOp DEF OpNames, Ons
<1>1. Plain(Panic)
  BY Zenon DEF Panic
<1>2. Plain(Alloc)
  BY Zenon DEF Alloc, Locks
<1>3. \A l \in Locks : Plain(Lock(l)) /\ Plain(Unlock(l))
  BY Zenon DEF Lock, Unlock
<1>4. Plain(Mark("END")) /\ Plain(Mark("FATAL-BEGIN")) /\ Plain(Mark("FATAL-END"))
  BY Zenon DEF Mark
<1>5. Plain(Act) /\ Plain(Do("backtrace", "-")) /\ Plain(Do("assert", "-"))
  BY DEF Act
<1>6. Plain(<<>>)
  BY DEF Plain, HasReturn, HasMark
<1>7. \A l \in Locks : Plain(Touch(l))
  BY Zenon, <1>3, <1>6, PlainConcat DEF Touch, With
<1>8. Plain(log)
  BY Zenon, <1>7 DEF log, Locks
<1>9. Plain(oom)
  BY Zenon, <1>1, <1>8, PlainConcat DEF oom
<1>10. Plain(fatal_exception)
  BY Zenon, <1>1, <1>2, <1>4, PlainConcat DEF fatal_exception
<1>. QED  BY Zenon, <1>1, <1>2, <1>3, <1>4, <1>5, <1>7, <1>8, <1>9, <1>10

\* Only handlers without a stack of their own return.
LEMMA Handlers ==
  ASSUME NEW e
  PROVE  /\ handler(e) \in Seq(Ops)
         /\ HasReturn(handler(e)) => ist_of(e) = "none"
         /\ ~HasMark(handler(e), "BEGIN") /\ ~HasMark(handler(e), "RECURSIVE")
<1> DEFINE Good(p) == p \in Seq(Ops) /\ ~HasMark(p, "BEGIN") /\ ~HasMark(p, "RECURSIVE")
<1>1. Plain(log \o log \o Panic) /\ Plain(log \o log \o log \o Panic)
  BY Zenon, PlainPrograms, PlainConcat
<1>2. Plain(Alloc \o log \o log \o fatal_exception) /\ Plain(log \o fatal_exception)
  BY Zenon, PlainPrograms, PlainConcat
<1>3. Good(Return)
  BY OneOp DEF Return, OpNames, Ons, HasMark
<1>4. Good(log \o Return)
  <2>1. \A p \in Seq(Ops), q \in Seq(Ops) : Good(p) /\ Good(q) => Good(p \o q)
    BY DEF HasMark
  <2>2. Good(log)
    BY Zenon, PlainPrograms DEF Plain
  <2>. QED  BY Zenon, <1>3, <2>1, <2>2
<1>5. \A p : Plain(p) => Good(p) /\ ~HasReturn(p)
  BY Zenon DEF Plain
<1>6. CASE e \in {"BP", "DB-debugger", "irq"}
  BY Zenon, <1>3, <1>4, <1>6 DEF handler, on_breakpoint, on_debug, ist_of
<1>7. CASE e \notin {"BP", "DB-debugger", "irq"}
  <2>1. Plain(handler(e))
    BY Zenon, <1>1, <1>2, <1>7, PlainPrograms
       DEF handler, on_debug, on_nmi, on_double_fault, on_machine_check, on_page_fault,
           explained_fault, on_unassigned
  <2>. QED  BY Zenon, <1>5, <2>1
<1>. QED  BY Zenon, <1>6, <1>7

\* What is left of a program after its first operation.
LEMMA TailOf ==
  ASSUME NEW p \in Seq(Ops), p # <<>>
  PROVE  /\ Tail(p) \in Seq(Ops) /\ Len(Tail(p)) = Len(p) - 1
         /\ HasReturn(Tail(p)) => HasReturn(p)
         /\ \A m : HasMark(Tail(p), m) => HasMark(p, m)
         /\ \A m : Head(p).op = "mark" /\ Head(p).on = m => HasMark(p, m)
         /\ Head(p).op = "return" => HasReturn(p)
         /\ HasReturn(p) /\ Head(p).op # "return" => HasReturn(Tail(p))
         /\ \A m : HasMark(p, m) => HasMark(Tail(p), m) \/ (Head(p).op = "mark" /\ Head(p).on = m)
<1>1. /\ Len(Tail(p)) = Len(p) - 1 /\ Len(p) > 0 /\ Tail(p) \in Seq(Ops)
      /\ \A k \in 1 .. Len(Tail(p)) : Tail(p)[k] = p[k + 1]
      /\ Head(p) = p[1]
  OBVIOUS
<1>2. \A k \in 1 .. Len(Tail(p)) : k + 1 \in 1 .. Len(p)
  BY <1>1
<1>3. 1 \in 1 .. Len(p)
  BY <1>1
<1>4. \A k \in 1 .. Len(p) : k = 1 \/ (k - 1 \in 1 .. Len(Tail(p)) /\ p[k] = Tail(p)[k - 1])
  BY <1>1
<1>. QED  BY ZenonT(30), <1>1, <1>2, <1>3, <1>4 DEF HasReturn, HasMark

\* A program with one first line, at its head, and plain code after it.
Report(p, m) == /\ p \in Seq(Ops) /\ Len(p) > 0
                /\ Head(p).op = "mark" /\ Head(p).on = m
                /\ Plain(Tail(p))

\* A report goes on with plain code.
LEMMA ReportConcat ==
  ASSUME NEW m, NEW p, NEW q, Report(p, m), Plain(q)
  PROVE  Report(p \o q, m)
<1>1. p \in Seq(Ops) /\ q \in Seq(Ops) /\ Len(p) > 0
  BY Zenon DEF Report, Plain
<1>2. Head(p \o q) = Head(p) /\ Len(p \o q) > 0 /\ p \o q \in Seq(Ops)
  BY <1>1
<1>3. Tail(p \o q) = Tail(p) \o q
  BY <1>1
<1>. QED  BY Zenon, <1>2, <1>3, PlainConcat DEF Report

\* The two reports of the panic handler.
LEMMA Reports == Report(panic_report, "BEGIN") /\ Report(recursive_report, "RECURSIVE")
<1>1. ASSUME NEW m \in {"BEGIN", "RECURSIVE"} PROVE Report(Mark(m), m)
  <2>1. /\ Mark(m) \in Seq(Ops) /\ Len(Mark(m)) = 1
        /\ Head(Mark(m)).op = "mark" /\ Head(Mark(m)).on = m
    BY <1>1, OneOp DEF Mark, OpNames, Ons
  <2>2. Tail(Mark(m)) \in Seq(Ops) /\ Len(Tail(Mark(m))) = 0
    <3>1. Mark(m) # <<>>
      BY Zenon DEF Mark, Do
    <3>. QED  BY <2>1, <3>1, TailOf
  <2>3. \A p \in Seq(Ops) : Len(p) = 0 => Plain(p)
    BY DEF Plain, HasReturn, HasMark
  <2>4. Plain(Tail(Mark(m)))
    BY Zenon, <2>1, <2>2, <2>3
  <2>. QED  BY <2>1, <2>4 DEF Report
<1>2. Report(recursive_report, "RECURSIVE")
  BY Zenon, <1>1, ReportConcat, PlainPrograms DEF recursive_report
<1>3. Report(panic_report, "BEGIN")
  BY Zenon, <1>1, ReportConcat, PlainPrograms DEF panic_report, Locks
<1>. QED  BY Zenon, <1>2, <1>3

\* A report does not return and has one first line.
LEMMA ReportFacts ==
  ASSUME NEW m, NEW p, Report(p, m)
  PROVE  /\ p \in Seq(Ops) /\ p # <<>> /\ ~HasReturn(p)
         /\ \A t \in {"BEGIN", "RECURSIVE"} : HasMark(p, t) => t = m
BY TailOf DEF Report, Plain

-----------------------------------------------------------------------------
(* Stacks.                                                                 *)

\* No more returns and first lines than before.
Less(q, p) == /\ q \in Seq(Ops)
              /\ HasReturn(q) => HasReturn(p)
              /\ \A m \in {"BEGIN", "RECURSIVE"} : HasMark(q, m) => HasMark(p, m)

\* The running context goes on with q.
Advance(s, q) == [s EXCEPT ![Len(s)].todo = q]

\* The running context goes on to q: nothing else changes.
LEMMA AdvanceFrame ==
  ASSUME NEW s \in Seq(Contexts), Len(s) > 0, NEW q \in Seq(Ops)
  PROVE  /\ Advance(s, q) \in Seq(Contexts) /\ Len(Advance(s, q)) = Len(s)
         /\ \A k \in 1 .. Len(s) :
              /\ Advance(s, q)[k].who = s[k].who /\ Advance(s, q)[k].area = s[k].area
              /\ Advance(s, q)[k].intact = s[k].intact /\ Advance(s, q)[k].intr = s[k].intr
              /\ Advance(s, q)[k].todo = IF k = Len(s) THEN q ELSE s[k].todo
<1>1. s[Len(s)] \in Contexts
  OBVIOUS
<1>2. [s[Len(s)] EXCEPT !.todo = q] \in Contexts
  BY Zenon, <1>1 DEF Contexts
<1>3. Advance(s, q) = [s EXCEPT ![Len(s)] = [s[Len(s)] EXCEPT !.todo = q]]
  BY Zenon DEF Advance
<1>4. Advance(s, q) \in Seq(Contexts) /\ Len(Advance(s, q)) = Len(s)
  BY <1>2, <1>3
<1>5. \A k \in 1 .. Len(s) : Advance(s, q)[k] = IF k = Len(s) THEN [s[Len(s)] EXCEPT !.todo = q] ELSE s[k]
  BY <1>3
<1>6. \A k \in 1 .. Len(s) : s[k] \in Contexts
  OBVIOUS
<1>. QED  BY ZenonT(30), <1>1, <1>2, <1>4, <1>5, <1>6 DEF Contexts

\* Going on keeps the invariant of the stack.
LEMMA AdvanceKeeps ==
  ASSUME NEW s, NEW q, StackInv(s), Less(q, s[Len(s)].todo),
         NEW p, NEW b \in Nat, NEW i, PanicInv(s, p, b, i)
  PROVE  StackInv(Advance(s, q)) /\ PanicInv(Advance(s, q), p, b, i)
<1> DEFINE t == Advance(s, q)
<1>1. s \in Seq(Contexts) /\ Len(s) > 0 /\ q \in Seq(Ops)
  BY Zenon DEF StackInv, Less
<1>2. /\ t \in Seq(Contexts) /\ Len(t) = Len(s)
      /\ \A k \in 1 .. Len(s) :
              /\ t[k].who = s[k].who /\ t[k].area = s[k].area
              /\ t[k].intact = s[k].intact /\ t[k].intr = s[k].intr
              /\ t[k].todo = IF k = Len(s) THEN q ELSE s[k].todo
  BY Zenon, <1>1, AdvanceFrame
<1> HIDE DEF t
<1>3. \A k \in 1 .. Len(s) : HasReturn(t[k].todo) => HasReturn(s[k].todo)
  BY Zenon, <1>2 DEF Less
<1>4. StackInv(t)
  <2>1. Len(s) \in 1 .. Len(s) /\ \A k \in 2 .. Len(s) : k \in 1 .. Len(s) /\ k - 1 \in 1 .. Len(s)
    BY <1>1
  <2>2. t[Len(t)].intact
    BY Zenon, <1>2, <2>1 DEF StackInv
  <2>3. \A k \in 2 .. Len(t) : HasReturn(t[k].todo) =>
          t[k].area = t[k - 1].area /\ t[k].intact = t[k - 1].intact
    BY <1>2, <1>3, <2>1 DEF StackInv
  <2>. QED  BY Zenon, <1>1, <1>2, <2>2, <2>3 DEF StackInv
<1>5. PanicInv(t, p, b, i)
  <2> SUFFICES ASSUME p PROVE PanicInv(t, p, b, i)
    BY Zenon DEF PanicInv
  <2>1. b \in 2 .. Len(s) /\ ~i /\ ~HasReturn(s[b].todo)
    BY Zenon DEF PanicInv
  <2>2. \A k \in b .. Len(s) : k \in 1 .. Len(s)
    BY <1>1, <2>1
  <2>3. \A k \in (b + 1) .. Len(s) : k \in 1 .. Len(s)
    BY <1>1, <2>1
  <2>4. b \in 1 .. Len(s)
    BY <1>1, <2>1
  <2>5. ~HasReturn(t[b].todo)
    BY Zenon, <1>3, <2>1, <2>4
  <2>6. \A k \in b .. Len(t) : t[k].who # "irq"
    BY Zenon, <1>2, <2>2 DEF PanicInv
  <2>7. \A k \in (b + 1) .. Len(t) : ~t[k].intr
    BY Zenon, <1>2, <2>3 DEF PanicInv
  <2>. QED  BY Zenon, <1>2, <2>1, <2>5, <2>6, <2>7 DEF PanicInv
<1>. QED  BY Zenon, <1>4, <1>5 DEF t

\* The same for the report, unless the context is the first panic before its
\* first line.
LEMMA AdvanceKeepsReport ==
  ASSUME NEW s, NEW q, StackInv(s), Less(q, s[Len(s)].todo),
         NEW p, NEW b \in Nat, NEW i, PanicInv(s, p, b, i),
         NEW m, ReportInv(s, p, b, m), p /\ Len(s) = b => Marked(m, "BEGIN")
  PROVE  ReportInv(Advance(s, q), p, b, m)
<1> DEFINE t == Advance(s, q)
<1>1. s \in Seq(Contexts) /\ Len(s) > 0 /\ q \in Seq(Ops)
  BY Zenon DEF StackInv, Less
<1>2. /\ t \in Seq(Contexts) /\ Len(t) = Len(s)
      /\ \A k \in 1 .. Len(s) :
              /\ t[k].who = s[k].who
              /\ t[k].todo = IF k = Len(s) THEN q ELSE s[k].todo
  BY Zenon, <1>1, AdvanceFrame
<1> HIDE DEF t
<1>3. \A k \in 1 .. Len(s) :
        /\ HasReturn(t[k].todo) => HasReturn(s[k].todo)
        /\ HasMark(t[k].todo, "BEGIN") => HasMark(s[k].todo, "BEGIN")
        /\ HasMark(t[k].todo, "RECURSIVE") => HasMark(s[k].todo, "RECURSIVE")
  BY Zenon, <1>2 DEF Less
<1>4. p => b \in 2 .. Len(s)
  BY Zenon DEF PanicInv
<1>5. p /\ ~Marked(m, "BEGIN") => b < Len(s) /\ t[b].todo = s[b].todo /\ t[b + 1].who = s[b + 1].who
  BY <1>1, <1>2, <1>4
<1>6. \A k \in 1 .. Len(t) : HasMark(t[k].todo, "BEGIN") => p /\ k = b
  BY Zenon, <1>2, <1>3 DEF ReportInv
<1>7. \A k \in 1 .. Len(t) : HasMark(t[k].todo, "RECURSIVE") =>
        p /\ k > b /\ ~HasReturn(t[k].todo)
  BY Zenon, <1>2, <1>3 DEF ReportInv
<1>8. Marked(m, "BEGIN") \/ Marked(m, "RECURSIVE") => p
  BY Zenon DEF ReportInv
<1>9. Marked(m, "BEGIN") => ~HasMark(t[b].todo, "BEGIN")
  BY <1>3, <1>4, <1>8 DEF ReportInv
<1>10. p /\ ~Marked(m, "BEGIN") =>
       /\ t[b].todo = panic_report
       /\ Len(t) > b => t[b + 1].who \notin {"oom", "panic"}
  BY Zenon, <1>2, <1>5 DEF ReportInv
<1>11. ~Marked(m, "BEGIN") /\ Marked(m, "RECURSIVE") =>
       \E k \in (b + 1) .. Len(t) : ~HasReturn(t[k].todo)
  BY <1>1, <1>2, <1>3 DEF ReportInv
<1>12. \A j, k \in 1 .. Len(m) : m[j] = "BEGIN" /\ m[k] = "BEGIN" => j = k
  BY Zenon DEF ReportInv
<1>. QED  BY Zenon, <1>6, <1>7, <1>8, <1>9, <1>10, <1>11, <1>12 DEF ReportInv, t

\* An IST stack entered again: only the intact flags of that area change.
Overwritten(s, o, hit, a) ==
  /\ o \in Seq(Contexts) /\ Len(o) = Len(s)
  /\ \A k \in 1 .. Len(s) :
       /\ o[k].who = s[k].who /\ o[k].area = s[k].area
       /\ o[k].todo = s[k].todo /\ o[k].intr = s[k].intr
       /\ o[k].intact = (s[k].intact /\ ~(hit /\ s[k].area = a))

\* An entry on the stack in use overwrites nothing.
LEMMA Untouched ==
  ASSUME NEW s \in Seq(Contexts)
  PROVE  Overwritten(s, s, FALSE, "none")
<1>1. \A k \in 1 .. Len(s) : s[k] \in Contexts
  OBVIOUS
<1>2. \A k \in 1 .. Len(s) : s[k].intact \in BOOLEAN
  BY Zenon, <1>1 DEF Contexts
<1>. QED  BY Zenon, <1>2 DEF Overwritten

\* A context c entered above s, over what was on its stack.
LEMMA PushKeeps ==
  ASSUME NEW s, StackInv(s), NEW a, NEW hit \in BOOLEAN, NEW o, Overwritten(s, o, hit, a),
         NEW c \in Contexts, c.intact,
         HasReturn(c.todo) => ~hit /\ c.area = s[Len(s)].area,
         NEW p, NEW b \in Nat, NEW i, PanicInv(s, p, b, i),
         NEW j, p => ~j /\ ~c.intr /\ c.who # "irq"
  PROVE  StackInv(Append(o, c)) /\ PanicInv(Append(o, c), p, b, j)
<1> DEFINE t == Append(o, c)
<1>1. s \in Seq(Contexts) /\ Len(s) > 0 /\ o \in Seq(Contexts) /\ Len(o) = Len(s)
  BY Zenon DEF StackInv, Overwritten
<1>2. /\ t \in Seq(Contexts) /\ Len(t) = Len(s) + 1
      /\ t[Len(s) + 1] = c
      /\ \A k \in 1 .. Len(s) : t[k] = o[k]
  BY <1>1
<1> HIDE DEF t
<1>3. \A k \in 1 .. Len(s) :
       /\ t[k].who = s[k].who /\ t[k].area = s[k].area
       /\ t[k].todo = s[k].todo /\ t[k].intr = s[k].intr
       /\ t[k].intact = (s[k].intact /\ ~(hit /\ s[k].area = a))
  BY <1>2 DEF Overwritten
<1>4. \A k \in 2 .. Len(t) : k = Len(s) + 1 \/ k \in 2 .. Len(s)
  BY <1>1, <1>2
<1>5. StackInv(t)
  <2>1. \A k \in 2 .. Len(s) : k \in 1 .. Len(s) /\ k - 1 \in 1 .. Len(s)
    BY <1>1
  <2>2. ASSUME NEW k \in 2 .. Len(s), HasReturn(t[k].todo)
        PROVE  t[k].area = t[k - 1].area /\ t[k].intact = t[k - 1].intact
    <3>1. s[k].area = s[k - 1].area /\ s[k].intact = s[k - 1].intact
      BY Zenon, <1>3, <2>1, <2>2 DEF StackInv
    <3>. QED  BY <1>3, <2>1, <3>1
  <2>3. ASSUME HasReturn(c.todo)
        PROVE  t[Len(s)].area = c.area /\ t[Len(s)].intact = c.intact
    <3>1. Len(s) \in 1 .. Len(s) /\ s[Len(s)].intact
      BY <1>1 DEF StackInv
    <3>2. c.intact \in BOOLEAN
      BY Zenon DEF Contexts
    <3>3. t[Len(s)].intact
      BY Zenon, <1>3, <2>3, <3>1
    <3>4. t[Len(s)].intact \in BOOLEAN
      BY Zenon, <1>3, <3>1
    <3>. QED  BY Zenon, <1>3, <2>3, <3>1, <3>2, <3>3, <3>4
  <2>4. Len(s) + 1 - 1 = Len(s)
    BY <1>1
  <2>5. \A k \in 2 .. Len(t) : HasReturn(t[k].todo) =>
          t[k].area = t[k - 1].area /\ t[k].intact = t[k - 1].intact
    <3> TAKE k \in 2 .. Len(t)
    <3>1. CASE k \in 2 .. Len(s)
      BY Zenon, <2>2, <3>1
    <3>2. CASE k = Len(s) + 1
      <4>1. t[k] = c /\ t[k - 1] = t[Len(s)]
        BY <1>2, <2>4, <3>2
      <4>. QED  BY Zenon, <2>3, <4>1
    <3>. QED  BY Zenon, <1>4, <3>1, <3>2
  <2>. QED  BY <1>1, <1>2, <2>5 DEF StackInv
<1>6. PanicInv(t, p, b, j)
  <2> SUFFICES ASSUME p PROVE PanicInv(t, p, b, j)
    BY Zenon DEF PanicInv
  <2>1. b \in 2 .. Len(s) /\ ~HasReturn(s[b].todo)
    BY Zenon DEF PanicInv
  <2>2. b \in 1 .. Len(s) /\ b \in 2 .. Len(t)
    BY <1>1, <1>2, <2>1
  <2>3. \A k \in b .. Len(t) : k = Len(s) + 1 \/ (k \in b .. Len(s) /\ k \in 1 .. Len(s))
    BY <1>1, <1>2, <2>1
  <2>4. \A k \in (b + 1) .. Len(t) : k = Len(s) + 1 \/ (k \in (b + 1) .. Len(s) /\ k \in 1 .. Len(s))
    BY <1>1, <1>2, <2>1
  <2>5. ~HasReturn(t[b].todo)
    BY Zenon, <1>3, <2>1, <2>2
  <2>6. \A k \in b .. Len(t) : t[k].who # "irq"
    BY Zenon, <1>2, <1>3, <2>3 DEF PanicInv
  <2>7. \A k \in (b + 1) .. Len(t) : ~t[k].intr
    BY Zenon, <1>2, <1>3, <2>4 DEF PanicInv
  <2>. QED  BY Zenon, <2>2, <2>5, <2>6, <2>7 DEF PanicInv
<1>. QED  BY Zenon, <1>5, <1>6 DEF t

\* A new context leaves the report to the one that has to write it.
LEMMA PushKeepsReport ==
  ASSUME NEW s, StackInv(s), NEW a, NEW hit \in BOOLEAN, NEW o, Overwritten(s, o, hit, a),
         NEW c \in Contexts,
         NEW p, NEW b \in Nat, NEW i, PanicInv(s, p, b, i),
         NEW m, ReportInv(s, p, b, m),
         ~HasMark(c.todo, "BEGIN"),
         HasMark(c.todo, "RECURSIVE") => p /\ ~HasReturn(c.todo),
         p /\ Len(s) = b /\ ~Marked(m, "BEGIN") => c.who \notin {"oom", "panic"}
  PROVE  ReportInv(Append(o, c), p, b, m)
<1> DEFINE t == Append(o, c)
<1>1. s \in Seq(Contexts) /\ Len(s) > 0 /\ o \in Seq(Contexts) /\ Len(o) = Len(s)
  BY Zenon DEF StackInv, Overwritten
<1>2. /\ t \in Seq(Contexts) /\ Len(t) = Len(s) + 1
      /\ t[Len(s) + 1] = c
      /\ \A k \in 1 .. Len(s) : t[k] = o[k]
  BY <1>1
<1> HIDE DEF t
<1>3. \A k \in 1 .. Len(s) : t[k].who = s[k].who /\ t[k].todo = s[k].todo
  BY Zenon, <1>2 DEF Overwritten
<1>4. \A k \in 1 .. Len(t) : k = Len(s) + 1 \/ k \in 1 .. Len(s)
  BY <1>1, <1>2
<1>5. p => b \in 1 .. Len(s) /\ b <= Len(s)
  BY <1>1 DEF PanicInv
<1>6. \A k \in 1 .. Len(t) : HasMark(t[k].todo, "BEGIN") => p /\ k = b
  BY Zenon, <1>2, <1>3, <1>4 DEF ReportInv
<1>7. \A k \in 1 .. Len(t) : HasMark(t[k].todo, "RECURSIVE") =>
        p /\ k > b /\ ~HasReturn(t[k].todo)
  <2>1. p => Len(s) + 1 > b
    BY <1>1, <1>5
  <2>. QED  BY Zenon, <1>2, <1>3, <1>4, <2>1 DEF ReportInv
<1>8. Marked(m, "BEGIN") \/ Marked(m, "RECURSIVE") => p
  BY Zenon DEF ReportInv
<1>9. Marked(m, "BEGIN") => ~HasMark(t[b].todo, "BEGIN")
  BY Zenon, <1>3, <1>5, <1>8 DEF ReportInv
<1>10. ASSUME p, ~Marked(m, "BEGIN")
       PROVE  /\ t[b].todo = panic_report
              /\ Len(t) > b => t[b + 1].who \notin {"oom", "panic"}
  <2>1. t[b].todo = panic_report
    BY Zenon, <1>3, <1>5, <1>10 DEF ReportInv
  <2>2. CASE b = Len(s)
    BY Zenon, <1>2, <1>10, <2>1, <2>2
  <2>3. CASE b # Len(s)
    <3>1. b + 1 \in 1 .. Len(s) /\ Len(s) > b
      BY <1>1, <1>5, <1>10, <2>3
    <3>. QED  BY Zenon, <1>3, <1>10, <2>1, <3>1 DEF ReportInv
  <2>. QED  BY Zenon, <2>2, <2>3
<1>11. ASSUME ~Marked(m, "BEGIN"), Marked(m, "RECURSIVE")
       PROVE  \E k \in (b + 1) .. Len(t) : ~HasReturn(t[k].todo)
  <2>1. PICK k \in (b + 1) .. Len(s) : ~HasReturn(s[k].todo)
    BY Zenon, <1>11 DEF ReportInv
  <2>2. k \in 1 .. Len(s) /\ k \in (b + 1) .. Len(t)
    BY <1>1, <1>2
  <2>. QED  BY Zenon, <1>3, <2>1, <2>2
<1>12. \A j, k \in 1 .. Len(m) : m[j] = "BEGIN" /\ m[k] = "BEGIN" => j = k
  BY Zenon DEF ReportInv
<1>. QED  BY Zenon, <1>6, <1>7, <1>8, <1>9, <1>10, <1>11, <1>12 DEF ReportInv, t

\* A return: the context below runs again, intact and with interrupts off if
\* a panic is under way.
LEMMA PopKeeps ==
  ASSUME NEW s, StackInv(s), Len(s) > 1, HasReturn(s[Len(s)].todo),
         NEW p, NEW b \in Nat, NEW i, PanicInv(s, p, b, i),
         NEW m, ReportInv(s, p, b, m)
  PROVE  LET t == SubSeq(s, 1, Len(s) - 1)
         IN  StackInv(t) /\ ReportInv(t, p, b, m) /\ PanicInv(t, p, b, s[Len(s)].intr)
<1> DEFINE t == SubSeq(s, 1, Len(s) - 1)
<1>1. s \in Seq(Contexts) /\ Len(s) \in Nat /\ Len(s) > 1
  BY DEF StackInv
<1>2. t \in Seq(Contexts) /\ Len(t) = Len(s) - 1 /\ \A k \in 1 .. Len(t) : t[k] = s[k]
  BY <1>1
<1> HIDE DEF t
<1>3. StackInv(t)
  <2>1. Len(s) \in 2 .. Len(s) /\ Len(t) \in 1 .. Len(t)
    BY <1>1, <1>2
  <2>2. s[Len(s) - 1].intact
    BY Zenon, <2>1 DEF StackInv
  <2>3. t[Len(t)].intact
    BY Zenon, <1>2, <2>1, <2>2
  <2>4. \A k \in 2 .. Len(t) : k \in 1 .. Len(t) /\ k - 1 \in 1 .. Len(t) /\ k \in 2 .. Len(s)
    BY <1>1, <1>2
  <2>5. \A k \in 2 .. Len(t) : HasReturn(t[k].todo) =>
          t[k].area = t[k - 1].area /\ t[k].intact = t[k - 1].intact
    BY Zenon, <1>2, <2>4 DEF StackInv
  <2>. QED  BY <1>1, <1>2, <2>3, <2>5 DEF StackInv
<1>4. p => b \in 2 .. Len(s) /\ b # Len(s)
  BY Zenon DEF PanicInv
<1>5. p => /\ b \in 2 .. Len(t) /\ b \in 1 .. Len(t) /\ b \in 1 .. Len(s)
           /\ Len(s) \in (b + 1) .. Len(s)
  BY <1>1, <1>2, <1>4
<1>6. PanicInv(t, p, b, s[Len(s)].intr)
  <2> SUFFICES ASSUME p PROVE PanicInv(t, p, b, s[Len(s)].intr)
    BY Zenon DEF PanicInv
  <2>1. ~s[Len(s)].intr /\ ~HasReturn(t[b].todo)
    BY Zenon, <1>2, <1>5 DEF PanicInv
  <2>2. \A k \in b .. Len(t) : k \in 1 .. Len(t) /\ k \in b .. Len(s)
    BY <1>1, <1>2, <1>5
  <2>3. \A k \in (b + 1) .. Len(t) : k \in 1 .. Len(t) /\ k \in (b + 1) .. Len(s)
    BY <1>1, <1>2, <1>5
  <2>4. \A k \in b .. Len(t) : t[k].who # "irq"
    BY Zenon, <1>2, <2>2 DEF PanicInv
  <2>5. \A k \in (b + 1) .. Len(t) : ~t[k].intr
    BY Zenon, <1>2, <2>3 DEF PanicInv
  <2>. QED  BY Zenon, <1>5, <2>1, <2>4, <2>5 DEF PanicInv
<1>7. ReportInv(t, p, b, m)
  <2>1. \A k \in 1 .. Len(t) : k \in 1 .. Len(s)
    BY <1>1, <1>2
  <2>2. Marked(m, "BEGIN") \/ Marked(m, "RECURSIVE") => p
    BY Zenon DEF ReportInv
  <2>3. \A k \in 1 .. Len(t) : HasMark(t[k].todo, "BEGIN") => p /\ k = b
    BY Zenon, <1>2, <2>1 DEF ReportInv
  <2>4. \A k \in 1 .. Len(t) : HasMark(t[k].todo, "RECURSIVE") =>
          p /\ k > b /\ ~HasReturn(t[k].todo)
    BY Zenon, <1>2, <2>1 DEF ReportInv
  <2>5. Marked(m, "BEGIN") => ~HasMark(t[b].todo, "BEGIN")
    BY Zenon, <1>2, <1>5, <2>2 DEF ReportInv
  <2>6. p /\ ~Marked(m, "BEGIN") => t[b].todo = panic_report
    BY Zenon, <1>2, <1>5 DEF ReportInv
  <2>7. p /\ ~Marked(m, "BEGIN") /\ Len(t) > b => t[b + 1].who \notin {"oom", "panic"}
    <3>1. p /\ Len(t) > b => b + 1 \in 1 .. Len(t) /\ Len(s) > b
      BY <1>1, <1>2, <1>5
    <3>. QED  BY Zenon, <1>2, <3>1 DEF ReportInv
  <2>8. ASSUME ~Marked(m, "BEGIN"), Marked(m, "RECURSIVE")
        PROVE  \E k \in (b + 1) .. Len(t) : ~HasReturn(t[k].todo)
    <3>1. PICK k \in (b + 1) .. Len(s) : ~HasReturn(s[k].todo)
      BY Zenon, <2>8 DEF ReportInv
    <3>2. k # Len(s)
      BY Zenon, <3>1
    <3>3. k \in (b + 1) .. Len(t) /\ k \in 1 .. Len(t)
      BY <1>1, <1>2, <3>2
    <3>. QED  BY Zenon, <1>2, <3>1, <3>3
  <2>9. \A j, k \in 1 .. Len(m) : m[j] = "BEGIN" /\ m[k] = "BEGIN" => j = k
    BY Zenon DEF ReportInv
  <2>. QED  BY Zenon, <2>2, <2>3, <2>4, <2>5, <2>6, <2>7, <2>8, <2>9 DEF ReportInv
<1>. QED  BY Zenon, <1>3, <1>6, <1>7 DEF t

-----------------------------------------------------------------------------
(* Steps.                                                                  *)

\* At the start nothing has happened.
LEMMA InitEstablishesDyingInv == Init => DyingInv
<1> SUFFICES ASSUME Init PROVE DyingInv
  OBVIOUS
<1>1. [who |-> "main", area |-> "kernel", todo |-> <<>>, intact |-> TRUE, intr |-> FALSE] \in Contexts
  BY DEF Contexts, Names, Areas
<1>2. /\ stack \in Seq(Contexts) /\ Len(stack) = 1 /\ stack[1].intact
      /\ Len(stack[1].todo) = 0
  BY <1>1 DEF Init
<1>3. Len(marks) = 0 /\ marks \in Seq(Ons) /\ ~PANICKING
  BY DEF Init
<1>4. TypeInv
  BY Zenon, <1>3 DEF TypeInv, Init
<1>5. StackInv(stack)
  BY <1>2 DEF StackInv
<1>6. PanicInv(stack, PANICKING, base, intr)
  BY Zenon, <1>3 DEF PanicInv
<1>7. ~Marked(marks, "BEGIN") /\ ~Marked(marks, "RECURSIVE")
  BY <1>3 DEF Marked
<1>8. \A k \in 1 .. Len(stack) : ~HasMark(stack[k].todo, "BEGIN") /\ ~HasMark(stack[k].todo, "RECURSIVE")
  BY <1>2 DEF HasMark
<1>9. ReportInv(stack, PANICKING, base, marks)
  BY <1>3, <1>7, <1>8 DEF ReportInv
<1>. QED  BY Zenon, <1>4, <1>5, <1>6, <1>9 DEF DyingInv

\* An exception or a page fault is delivered to the code whose control stack
\* is s, which may be one operation ahead of stack.
LEMMA DeliverStep ==
  ASSUME DyingInv, NEW s, StackInv(s), PanicInv(s, PANICKING, base, intr),
         ReportInv(s, PANICKING, base, marks),
         NEW e \in Exceptions \cup {"PF"}, e = "irq" => intr, deliver(e, s),
         UNCHANGED <<PANICKING, base, marks>>
  PROVE  DyingInv'
<1>1. CASE ~idt
  BY Zenon, <1>1 DEF deliver, DyingInv, TypeInv
<1>2. CASE idt /\ ist_of(e) = "none" /\ ~room(s)
  BY Zenon, <1>2 DEF deliver, overrun, DyingInv, TypeInv
<1>3. CASE idt /\ ~(ist_of(e) = "none" /\ ~room(s))
  <2> DEFINE a == IF ist_of(e) = "none" THEN s[Len(s)].area ELSE ist_of(e)
             hit == ist_of(e) # "none"
             o == [k \in DOMAIN s |-> IF hit /\ s[k].area = a THEN [s[k] EXCEPT !.intact = FALSE] ELSE s[k]]
             c == [who |-> e, area |-> a, todo |-> handler(e), intact |-> TRUE, intr |-> intr]
  <2>1. stack' = Append(o, c) /\ intr' = FALSE
    BY Zenon, <1>3 DEF deliver
  <2>2. s \in Seq(Contexts) /\ Len(s) > 0
    BY Zenon DEF StackInv
  <2>3. a \in Areas
    <3>1. s[Len(s)] \in Contexts
      BY <2>2
    <3>2. s[Len(s)].area \in Areas
      BY Zenon, <3>1 DEF Contexts
    <3>. QED  BY Zenon, <3>2 DEF ist_of, Areas
  <2>4. e \in Names /\ e \notin {"oom", "panic"}
    BY Zenon, NamesAssumption DEF Names
  <2>5. c \in Contexts
    BY Zenon, <2>3, <2>4, Handlers DEF Contexts, DyingInv, TypeInv
  <2>6. Overwritten(s, o, hit, a)
    <3> HIDE DEF a, hit
    <3>1. \A k \in 1 .. Len(s) : s[k] \in Contexts
      BY <2>2
    <3>2. \A k \in 1 .. Len(s) : [s[k] EXCEPT !.intact = FALSE] \in Contexts
      BY Zenon, <3>1 DEF Contexts
    <3>3. DOMAIN s = 1 .. Len(s) /\ Len(s) \in Nat
      BY <2>2
    <3>4. o \in Seq(Contexts) /\ Len(o) = Len(s)
      BY <3>1, <3>2, <3>3
    <3>5. \A k \in 1 .. Len(s) : o[k] = IF hit /\ s[k].area = a THEN [s[k] EXCEPT !.intact = FALSE] ELSE s[k]
      BY Zenon, <3>3
    <3> HIDE DEF o
    <3>6. \A k \in 1 .. Len(s) : s[k].intact \in BOOLEAN
      BY Zenon, <3>1 DEF Contexts
    <3>7. \A k \in 1 .. Len(s) :
            /\ o[k].who = s[k].who /\ o[k].area = s[k].area
            /\ o[k].todo = s[k].todo /\ o[k].intr = s[k].intr
            /\ o[k].intact = (s[k].intact /\ ~(hit /\ s[k].area = a))
      BY Zenon, <3>1, <3>5, <3>6 DEF Contexts
    <3>. QED  BY Zenon, <3>4, <3>7 DEF Overwritten
  <2>7. c.todo = handler(e) /\ c.intact /\ c.who = e /\ c.intr = intr /\ c.area = a
    OBVIOUS
  <2>8. HasReturn(c.todo) => ~hit /\ c.area = s[Len(s)].area
    BY Zenon, <2>7, Handlers
  <2>9. PANICKING => ~intr' /\ ~c.intr /\ c.who # "irq"
    BY Zenon, <2>1, <2>7 DEF PanicInv
  <2>10. hit \in BOOLEAN /\ base \in Nat
    BY Zenon DEF DyingInv, TypeInv
  <2>11. ~HasMark(c.todo, "BEGIN") /\ ~HasMark(c.todo, "RECURSIVE")
    BY Zenon, <2>7, Handlers
  <2>12. c.who \notin {"oom", "panic"}
    BY Zenon, <2>4, <2>7
  <2> HIDE DEF a, hit, o, c
  <2>13. StackInv(stack') /\ PanicInv(stack', PANICKING, base, intr')
    BY <2>1, <2>5, <2>6, <2>7, <2>8, <2>9, <2>10, PushKeeps
  <2>14. ReportInv(stack', PANICKING, base, marks)
    BY <2>1, <2>5, <2>6, <2>10, <2>11, <2>12, PushKeepsReport
  <2>. QED  BY Zenon, <2>1, <2>13, <2>14 DEF DyingInv, TypeInv
<1>. QED  BY Zenon, <1>1, <1>2, <1>3

\* Before its first line the first panic can do nothing but write it.
LEMMA FirstLineFirst ==
  ASSUME DyingInv, PANICKING, Depth = base, ~Marked(marks, "BEGIN")
  PROVE  Top.todo = panic_report /\ Next1.op = "mark" /\ Next1.on = "BEGIN"
<1>1. Top.todo = panic_report
  BY Zenon DEF DyingInv, ReportInv, Top, Depth
<1>. QED  BY Zenon, <1>1, Reports DEF Report, Next1

\* The running context goes on to q, which holds no more than it had.
LEMMA AdvanceStep ==
  ASSUME DyingInv, NEW q, Less(q, Top.todo), stack' = Advance(stack, q),
         ~(Next1.op = "mark" /\ Next1.on = "BEGIN"),
         UNCHANGED <<intr, PANICKING, base, marks>>
  PROVE  DyingInv'
<1>1. PANICKING /\ Len(stack) = base => Marked(marks, "BEGIN")
  BY Zenon, FirstLineFirst DEF Depth
<1>2. Less(q, stack[Len(stack)].todo) /\ base \in Nat
  BY Zenon DEF Top, Depth, DyingInv, TypeInv
<1>3. StackInv(stack') /\ PanicInv(stack', PANICKING, base, intr)
  BY Zenon, <1>2, AdvanceKeeps DEF DyingInv
<1>4. ReportInv(stack', PANICKING, base, marks)
  BY Zenon, <1>1, <1>2, AdvanceKeepsReport DEF DyingInv
<1>. QED  BY Zenon, <1>3, <1>4 DEF DyingInv, TypeInv

\* What the operations of a context leave of it.
LEMMA TopFacts ==
  ASSUME DyingInv
  PROVE  /\ stack \in Seq(Contexts) /\ Len(stack) \in Nat /\ Len(stack) > 0
         /\ Top \in Contexts /\ Top.todo \in Seq(Ops)
         /\ Top.area \in Areas /\ Top.intr \in BOOLEAN /\ Top.intact
         /\ Done(stack) = Advance(stack, Tail(Top.todo))
         /\ \A o : Instead(stack, o) = Advance(stack, o \o Tail(Top.todo))
         /\ Top.todo # <<>> => Less(Tail(Top.todo), Top.todo)
         /\ \A o : Top.todo # <<>> /\ Plain(o) => Less(o \o Tail(Top.todo), Top.todo)
<1>1. stack \in Seq(Contexts) /\ Len(stack) > 0 /\ Len(stack) \in Nat /\ Top.intact
  BY DEF DyingInv, StackInv, Top, Depth
<1>2. Top \in Contexts
  BY <1>1 DEF Top, Depth
<1>3. Top.todo \in Seq(Ops) /\ Top.area \in Areas /\ Top.intr \in BOOLEAN
  BY Zenon, <1>2 DEF Contexts
<1>4. Done(stack) = Advance(stack, Tail(Top.todo))
  BY Zenon, <1>1 DEF Done, Advance, Top, Depth
<1>5. \A o : Instead(stack, o) = Advance(stack, o \o Tail(Top.todo))
  BY Zenon, <1>1 DEF Instead, Advance, Top, Depth
<1>6. Top.todo # <<>> => Less(Tail(Top.todo), Top.todo)
  BY Zenon, <1>3, TailOf DEF Less
<1>7. ASSUME NEW o, Top.todo # <<>>, Plain(o)
      PROVE  Less(o \o Tail(Top.todo), Top.todo)
  <2> DEFINE q == Tail(Top.todo)
  <2>1. Less(q, Top.todo) /\ q \in Seq(Ops)
    BY Zenon, <1>6, <1>7 DEF Less
  <2> HIDE DEF q
  <2>2. o \in Seq(Ops) /\ ~HasReturn(o) /\ ~HasMark(o, "BEGIN") /\ ~HasMark(o, "RECURSIVE")
    BY Zenon, <1>7 DEF Plain
  <2>3. o \o q \in Seq(Ops) /\ Len(o \o q) = Len(o) + Len(q)
    BY <2>1, <2>2
  <2>4. \A k \in 1 .. Len(o \o q) :
          \/ k \in 1 .. Len(o) /\ (o \o q)[k] = o[k]
          \/ k - Len(o) \in 1 .. Len(q) /\ (o \o q)[k] = q[k - Len(o)]
    BY <2>1, <2>2, <2>3
  <2>5. HasReturn(o \o q) => HasReturn(q)
    BY Zenon, <2>2, <2>4 DEF HasReturn
  <2>6. \A m \in {"BEGIN", "RECURSIVE"} : HasMark(o \o q, m) => HasMark(q, m)
    BY Zenon, <2>2, <2>4 DEF HasMark
  <2>. QED  BY Zenon, <2>1, <2>3, <2>5, <2>6 DEF Less, q
<1>. QED  BY Zenon, <1>1, <1>2, <1>3, <1>4, <1>5, <1>6, <1>7

\* A call that does not return, of plain code or of a recursive report.
LEMMA CallStep ==
  ASSUME DyingInv, NEW who \in {"oom", "panic"}, NEW prog,
         prog \in Seq(Ops), ~HasReturn(prog), ~HasMark(prog, "BEGIN"),
         HasMark(prog, "RECURSIVE") => PANICKING,
         call(who, prog), intr' \in BOOLEAN, PANICKING => ~intr',
         PANICKING /\ Depth = base => Marked(marks, "BEGIN"),
         UNCHANGED <<PANICKING, base, marks>>
  PROVE  DyingInv'
<1> DEFINE c == [who |-> who, area |-> Top.area, todo |-> prog, intact |-> TRUE, intr |-> intr]
<1>1. stack' = Append(stack, c)
  BY Zenon DEF call
<1>2. c \in Contexts
  BY Zenon, TopFacts DEF Contexts, Names, DyingInv, TypeInv
<1>3. c.todo = prog /\ c.intact /\ c.who = who /\ c.intr = intr /\ ~HasReturn(c.todo)
  OBVIOUS
<1> HIDE DEF c
<1>4. Overwritten(stack, stack, FALSE, "none")
  BY Zenon, TopFacts, Untouched
<1>5. PANICKING => ~intr' /\ ~c.intr /\ c.who # "irq"
  BY Zenon, <1>3 DEF DyingInv, PanicInv
<1>6. StackInv(stack) /\ PanicInv(stack, PANICKING, base, intr)
      /\ ReportInv(stack, PANICKING, base, marks) /\ base \in Nat
  BY Zenon DEF DyingInv, TypeInv
<1>7. StackInv(stack') /\ PanicInv(stack', PANICKING, base, intr')
  <2> DEFINE hit == FALSE
  <2>1. hit \in BOOLEAN /\ Overwritten(stack, stack, hit, "none")
    BY Zenon, <1>4
  <2>2. HasReturn(c.todo) => ~hit /\ c.area = stack[Len(stack)].area
    BY Zenon, <1>3
  <2> HIDE DEF hit
  <2>. QED  BY <1>1, <1>2, <1>3, <1>5, <1>6, <2>1, <2>2, PushKeeps
<1>8. ReportInv(stack', PANICKING, base, marks)
  <2>1. PANICKING /\ Len(stack) = base => Marked(marks, "BEGIN")
    BY Zenon DEF Depth
  <2>. QED  BY Zenon, <1>1, <1>2, <1>3, <1>4, <1>6, <2>1, PushKeepsReport
<1>. QED  BY Zenon, <1>7, <1>8 DEF DyingInv, TypeInv

\* The first panic: the swap of PANICKING, interrupts off, the report.
LEMMA FirstPanicStep ==
  ASSUME DyingInv, ~PANICKING, call("panic", panic_report), intr' = FALSE,
         PANICKING' = TRUE, base' = Depth + 1, UNCHANGED marks
  PROVE  DyingInv'
<1> DEFINE c == [who |-> "panic", area |-> Top.area, todo |-> panic_report, intact |-> TRUE, intr |-> intr]
           b == Len(stack) + 1
<1>1. stack' = Append(stack, c) /\ base' = b
  BY Zenon DEF call, Depth
<1>2. Report(panic_report, "BEGIN") /\ ~HasReturn(panic_report) /\ panic_report \in Seq(Ops)
      /\ ~HasMark(panic_report, "RECURSIVE")
  BY Zenon, Reports, ReportFacts
<1>3. c \in Contexts
  BY Zenon, <1>2, TopFacts DEF Contexts, Names, DyingInv, TypeInv
<1>4. c.todo = panic_report /\ c.intact /\ c.who = "panic"
  OBVIOUS
<1> HIDE DEF c
<1>5. Overwritten(stack, stack, FALSE, "none")
  BY Zenon, TopFacts, Untouched
<1>6. StackInv(stack) /\ base \in Nat /\ ReportInv(stack, PANICKING, base, marks)
  BY Zenon DEF DyingInv, TypeInv
<1>7. StackInv(stack')
  <2>1. PanicInv(stack, FALSE, base, intr)
    BY Zenon DEF PanicInv
  <2>. QED  BY Zenon, <1>1, <1>2, <1>3, <1>4, <1>5, <1>6, <2>1, PushKeeps
<1>8. /\ Len(stack) \in Nat /\ Len(stack) > 0 /\ Len(stack') = b
      /\ stack'[b] = c /\ \A k \in 1 .. Len(stack) : stack'[k] = stack[k]
  BY <1>1, <1>3, TopFacts
<1>9. PanicInv(stack', TRUE, b, FALSE)
  <2>1. b \in 2 .. Len(stack') /\ b .. Len(stack') = {b} /\ (b + 1) .. Len(stack') = {}
    BY <1>8
  <2>. QED  BY Zenon, <1>2, <1>4, <1>8, <2>1 DEF PanicInv
<1>10. ReportInv(stack', TRUE, b, marks)
  <2>1. ~Marked(marks, "BEGIN") /\ ~Marked(marks, "RECURSIVE")
    BY Zenon, <1>6 DEF ReportInv
  <2>2. \A k \in 1 .. Len(stack') : k = b \/ k \in 1 .. Len(stack)
    BY <1>8
  <2>3. \A k \in 1 .. Len(stack') : ~HasMark(stack'[k].todo, "RECURSIVE")
    BY Zenon, <1>2, <1>4, <1>6, <1>8, <2>2 DEF ReportInv
  <2>4. \A k \in 1 .. Len(stack') : HasMark(stack'[k].todo, "BEGIN") => k = b
    BY Zenon, <1>6, <1>8, <2>2 DEF ReportInv
  <2>5. stack'[b].todo = panic_report /\ ~(Len(stack') > b)
    BY <1>4, <1>8
  <2>6. \A j, k \in 1 .. Len(marks) : marks[j] = "BEGIN" /\ marks[k] = "BEGIN" => j = k
    BY Zenon, <1>6 DEF ReportInv
  <2>. QED  BY Zenon, <2>1, <2>3, <2>4, <2>5, <2>6 DEF ReportInv
<1>11. TypeInv'
  <2>1. base' \in Nat
    BY <1>1, <1>8
  <2>2. intr' \in BOOLEAN /\ PANICKING' \in BOOLEAN
    OBVIOUS
  <2>3. marks' \in Seq(Ons)
    BY Zenon DEF DyingInv, TypeInv
  <2>. QED  BY Zenon, <2>1, <2>2, <2>3 DEF TypeInv
<1>12. PanicInv(stack', PANICKING', base', intr') /\ ReportInv(stack', PANICKING', base', marks')
  <2>1. PanicInv(stack', PANICKING', b, intr')
    BY Zenon, <1>9 DEF PanicInv
  <2>2. ReportInv(stack', PANICKING', b, marks)
    BY Zenon, <1>10 DEF ReportInv
  <2>. QED  BY Zenon, <1>1, <2>1, <2>2
<1>. QED  BY Zenon, <1>7, <1>11, <1>12 DEF DyingInv

\* One more line written.
LEMMA AppendMarked ==
  ASSUME NEW m \in Seq(Ons), NEW x \in Ons
  PROVE  \A t : Marked(Append(m, x), t) <=> Marked(m, t) \/ x = t
<1>1. /\ Len(Append(m, x)) = Len(m) + 1 /\ Append(m, x)[Len(m) + 1] = x
      /\ \A k \in 1 .. Len(m) : Append(m, x)[k] = m[k]
  OBVIOUS
<1>2. \A k \in 1 .. Len(Append(m, x)) : k = Len(m) + 1 \/ k \in 1 .. Len(m)
  BY <1>1
<1>3. Len(m) + 1 \in 1 .. Len(Append(m, x)) /\ \A k \in 1 .. Len(m) : k \in 1 .. Len(Append(m, x))
  BY <1>1
<1>. QED  BY Zenon, <1>1, <1>2, <1>3 DEF Marked

\* Any other marker than the first line of the report leaves the account of it
\* as it is.
LEMMA OtherMark ==
  ASSUME NEW s, NEW p, NEW b, NEW m \in Seq(Ons), NEW x \in Ons, ReportInv(s, p, b, m),
         x # "BEGIN",
         x = "RECURSIVE" => p /\ \E k \in (b + 1) .. Len(s) : ~HasReturn(s[k].todo)
  PROVE  ReportInv(s, p, b, Append(m, x))
<1> DEFINE n == Append(m, x)
<1>1. Marked(n, "BEGIN") <=> Marked(m, "BEGIN")
  BY Zenon, AppendMarked
<1>2. Marked(n, "RECURSIVE") <=> Marked(m, "RECURSIVE") \/ x = "RECURSIVE"
  BY Zenon, AppendMarked
<1>3. \A j, k \in 1 .. Len(n) : n[j] = "BEGIN" /\ n[k] = "BEGIN" => j = k
  <2>1. \A k \in 1 .. Len(n) : n[k] = "BEGIN" => k \in 1 .. Len(m) /\ n[k] = m[k]
    OBVIOUS
  <2>. QED  BY Zenon, <2>1 DEF ReportInv
<1> HIDE DEF n
<1>. QED  BY Zenon, <1>1, <1>2, <1>3 DEF ReportInv, n

\* The first line of the report is written: by the first panic, once.
LEMMA FirstLineStep ==
  ASSUME DyingInv, At("mark"), Next1.on = "BEGIN", marks' = Append(marks, Next1.on),
         stack' = Done(stack), UNCHANGED <<intr, PANICKING, base>>
  PROVE  DyingInv'
<1>1. Top.todo # <<>> /\ Head(Top.todo).op = "mark" /\ Head(Top.todo).on = "BEGIN"
  BY Zenon DEF At, Next1
<1>2. Top.todo \in Seq(Ops) /\ Len(stack) \in 1 .. Len(stack)
  BY TopFacts
<1>3. HasMark(Top.todo, "BEGIN")
  BY Zenon, <1>1, <1>2, TailOf
<1>4. PANICKING /\ base = Len(stack)
  BY Zenon, <1>2, <1>3 DEF DyingInv, ReportInv, Top, Depth
<1>5. ~Marked(marks, "BEGIN")
  BY Zenon, <1>3, <1>4 DEF DyingInv, ReportInv, Top, Depth
<1>6. Top.todo = panic_report
  BY Zenon, <1>4, <1>5, FirstLineFirst DEF Depth
<1> DEFINE q == Tail(Top.todo)
<1>7. Plain(q)
  BY Zenon, <1>6, Reports DEF Report
<1>8. Less(q, Top.todo) /\ stack' = Advance(stack, q) /\ q \in Seq(Ops)
  BY Zenon, <1>1, TopFacts DEF Less
<1> HIDE DEF q
<1>9. StackInv(stack) /\ PanicInv(stack, PANICKING, base, intr) /\ base \in Nat
      /\ ReportInv(stack, PANICKING, base, marks) /\ marks \in Seq(Ons)
  BY Zenon DEF DyingInv, TypeInv
<1>10. StackInv(stack') /\ PanicInv(stack', PANICKING, base, intr)
  BY Zenon, <1>8, <1>9, AdvanceKeeps DEF Top, Depth
<1>11. "BEGIN" \in Ons
  BY Zenon DEF Ons
<1>12. marks' \in Seq(Ons) /\ Marked(marks', "BEGIN")
  BY <1>9, <1>11, AppendMarked
<1>13. /\ Len(stack') = Len(stack)
       /\ \A k \in 1 .. Len(stack) : stack'[k].todo = IF k = Len(stack) THEN q ELSE stack[k].todo
  <2>1. stack \in Seq(Contexts) /\ Len(stack) > 0
    BY Zenon, TopFacts
  <2>. QED  BY <1>8, <2>1, AdvanceFrame
<1>14. ~HasMark(q, "BEGIN") /\ ~HasMark(q, "RECURSIVE")
  BY Zenon, <1>7 DEF Plain
<1>15. \A k \in 1 .. Len(stack') : ~HasMark(stack'[k].todo, "BEGIN")
  BY Zenon, <1>4, <1>9, <1>13, <1>14 DEF ReportInv
<1>16. \A k \in 1 .. Len(stack') : ~HasMark(stack'[k].todo, "RECURSIVE")
  <2> TAKE k \in 1 .. Len(stack')
  <2>1. ~(k > base)
    BY <1>2, <1>4, <1>13
  <2>. QED  BY Zenon, <1>9, <1>13, <1>14, <2>1 DEF ReportInv
<1>17. \A j, k \in 1 .. Len(marks') : marks'[j] = "BEGIN" /\ marks'[k] = "BEGIN" => j = k
  <2>1. Len(marks') = Len(marks) + 1 /\ \A k \in 1 .. Len(marks) : marks'[k] = marks[k]
    BY <1>9
  <2>2. \A k \in 1 .. Len(marks) : marks'[k] # "BEGIN"
    BY Zenon, <1>5, <2>1 DEF Marked
  <2>3. \A k \in 1 .. Len(marks') : marks'[k] = "BEGIN" => k = Len(marks) + 1
    BY <1>9, <2>1, <2>2
  <2>. QED  BY Zenon, <2>3
<1>18. base \in 1 .. Len(stack')
  BY Zenon, <1>2, <1>4, <1>13
<1>19. ReportInv(stack', PANICKING, base, marks')
  BY Zenon, <1>4, <1>12, <1>15, <1>16, <1>17, <1>18 DEF ReportInv
<1>. QED  BY Zenon, <1>10, <1>12, <1>19 DEF DyingInv, TypeInv

\* Every other marker.
LEMMA OtherMarkStep ==
  ASSUME DyingInv, At("mark"), Next1.on # "BEGIN", marks' = Append(marks, Next1.on),
         stack' = Done(stack), UNCHANGED <<intr, PANICKING, base>>
  PROVE  DyingInv'
<1>1. Top.todo # <<>> /\ Head(Top.todo).op = "mark" /\ Next1 = Head(Top.todo)
  BY Zenon DEF At, Next1
<1>2. Top.todo \in Seq(Ops) /\ Len(stack) \in 1 .. Len(stack)
  BY TopFacts
<1>3. Next1.on \in Ons
  <2>1. Head(Top.todo) \in Ops
    BY <1>1, <1>2
  <2>. QED  BY Zenon, <1>1, <2>1 DEF Ops
<1> DEFINE q == Tail(Top.todo)
<1>4. Less(q, Top.todo) /\ stack' = Advance(stack, q) /\ q \in Seq(Ops)
  BY Zenon, <1>1, TopFacts DEF Less
<1>5. StackInv(stack) /\ PanicInv(stack, PANICKING, base, intr) /\ base \in Nat
      /\ ReportInv(stack, PANICKING, base, marks) /\ marks \in Seq(Ons)
  BY Zenon DEF DyingInv, TypeInv
<1>6. PANICKING /\ Len(stack) = base => Marked(marks, "BEGIN")
  BY Zenon, FirstLineFirst DEF Depth
<1>7. ASSUME Next1.on = "RECURSIVE"
      PROVE  /\ PANICKING
             /\ Len(stack) \in (base + 1) .. Len(stack) /\ ~HasReturn(q)
  <2>1. HasMark(Top.todo, "RECURSIVE")
    BY Zenon, <1>1, <1>2, <1>7, TailOf
  <2>2. PANICKING /\ Len(stack) > base /\ ~HasReturn(Top.todo)
    BY Zenon, <1>2, <1>5, <2>1 DEF ReportInv, Top, Depth
  <2>. QED  BY <1>2, <1>4, <1>5, <2>2 DEF Less
<1> HIDE DEF q
<1>8. StackInv(stack') /\ PanicInv(stack', PANICKING, base, intr)
  BY Zenon, <1>4, <1>5, AdvanceKeeps DEF Top, Depth
<1>9. ReportInv(stack', PANICKING, base, marks)
  BY Zenon, <1>4, <1>5, <1>6, AdvanceKeepsReport DEF Top, Depth
<1>10. /\ Len(stack') = Len(stack)
       /\ stack'[Len(stack)].todo = q
  <2>1. stack \in Seq(Contexts) /\ Len(stack) > 0
    BY Zenon, TopFacts
  <2>. QED  BY SMTT(30), <1>2, <1>4, <2>1, AdvanceFrame
<1>11. Next1.on = "RECURSIVE" =>
         PANICKING /\ \E k \in (base + 1) .. Len(stack') : ~HasReturn(stack'[k].todo)
  BY Zenon, <1>7, <1>10
<1>12. ReportInv(stack', PANICKING, base, marks')
  BY Zenon, <1>3, <1>5, <1>9, <1>11, OtherMark
<1>13. marks' \in Seq(Ons)
  BY <1>3, <1>5
<1>. QED  BY Zenon, <1>8, <1>12, <1>13 DEF DyingInv, TypeInv

-----------------------------------------------------------------------------
(* The actions.                                                            *)

\* A lock taken or released, a line written, an assertion that holds.
LEMMA StepPreserves == DyingInv /\ step => DyingInv'
<1> SUFFICES ASSUME DyingInv, step PROVE DyingInv'
  OBVIOUS
<1>1. stack' = Done(stack) /\ UNCHANGED <<intr, PANICKING, base>>
  BY Zenon DEF step, calm
<1>2. CASE At("mark") /\ marks' = Append(marks, Next1.on)
  BY Zenon, <1>1, <1>2, FirstLineStep, OtherMarkStep
<1>3. CASE (At("lock") \/ At("unlock") \/ At("assert")) /\ UNCHANGED marks
  <2>1. Top.todo # <<>> /\ Next1.op # "mark"
    BY Zenon, <1>3 DEF At
  <2>2. Less(Tail(Top.todo), Top.todo) /\ stack' = Advance(stack, Tail(Top.todo))
    BY Zenon, <1>1, <2>1, TopFacts
  <2>. QED  BY Zenon, <1>1, <1>3, <2>1, <2>2, AdvanceStep
<1>. QED  BY Zenon, <1>2, <1>3 DEF step

\* A handler of idt.rs returns.
LEMMA ReturnPreserves == DyingInv /\ return => DyingInv'
<1> SUFFICES ASSUME DyingInv, return PROVE DyingInv'
  OBVIOUS
<1>1. /\ Top.todo # <<>> /\ Head(Top.todo).op = "return" /\ Len(stack) > 1
      /\ stack' = SubSeq(stack, 1, Len(stack) - 1) /\ intr' = Top.intr
      /\ UNCHANGED <<PANICKING, base, marks>>
  BY Zenon DEF return, At, Next1, Depth, calm
<1>2. Top.todo \in Seq(Ops) /\ Top.intr \in BOOLEAN
  BY Zenon, TopFacts
<1>3. HasReturn(Top.todo)
  BY Zenon, <1>1, <1>2, TailOf
<1>4. StackInv(stack) /\ PanicInv(stack, PANICKING, base, intr) /\ base \in Nat
      /\ ReportInv(stack, PANICKING, base, marks) /\ Top = stack[Len(stack)]
  BY Zenon DEF DyingInv, TypeInv, Top, Depth
<1>5. /\ StackInv(stack') /\ ReportInv(stack', PANICKING, base, marks)
      /\ PanicInv(stack', PANICKING, base, intr')
  BY Zenon, <1>1, <1>3, <1>4, PopKeeps
<1>. QED  BY Zenon, <1>1, <1>2, <1>5 DEF DyingInv, TypeInv

\* A stack that is full: the contexts on it are left as they are.
LEMMA OverrunStep ==
  ASSUME DyingInv, overrun, UNCHANGED <<PANICKING, base, marks>>
  PROVE  DyingInv'
BY Zenon DEF overrun, DyingInv, TypeInv

\* An allocation, which may call the out-of-memory handler.
LEMMA AllocPreserves == DyingInv /\ alloc => DyingInv'
<1> SUFFICES ASSUME DyingInv, alloc PROVE DyingInv'
  OBVIOUS
<1>1. Top.todo # <<>> /\ Next1.op # "mark" /\ UNCHANGED <<PANICKING, base, marks>>
  BY Zenon DEF alloc, At, calm
<1>2. CASE stack' = Done(stack) /\ UNCHANGED intr
  <2>1. Less(Tail(Top.todo), Top.todo) /\ stack' = Advance(stack, Tail(Top.todo))
    BY Zenon, <1>1, <1>2, TopFacts
  <2>. QED  BY Zenon, <1>1, <1>2, <2>1, AdvanceStep
<1>3. CASE call("oom", oom) /\ UNCHANGED intr
  <2>1. oom \in Seq(Ops) /\ ~HasReturn(oom) /\ ~HasMark(oom, "BEGIN") /\ ~HasMark(oom, "RECURSIVE")
    BY Zenon, PlainPrograms DEF Plain
  <2>2. intr' \in BOOLEAN /\ (PANICKING => ~intr')
    BY Zenon, <1>3 DEF DyingInv, TypeInv, PanicInv
  <2>3. PANICKING /\ Depth = base => Marked(marks, "BEGIN")
    BY Zenon, <1>1, FirstLineFirst
  <2>. QED  BY Zenon, <1>1, <1>3, <2>1, <2>2, <2>3, CallStep
<1>4. CASE overrun
  BY Zenon, <1>1, <1>4, OverrunStep
<1>. QED  BY Zenon, <1>2, <1>3, <1>4 DEF alloc

\* The panic handler of panic.rs is entered.
LEMMA PanicPreserves == DyingInv /\ panic => DyingInv'
<1> SUFFICES ASSUME DyingInv, panic PROVE DyingInv'
  OBVIOUS
<1>1. Top.todo # <<>> /\ Next1.op # "mark" /\ UNCHANGED marks
  BY Zenon DEF panic, At
<1>2. CASE ~room(stack)
  BY Zenon, <1>1, <1>2, OverrunStep DEF panic
<1>3. CASE room(stack) /\ ~PANICKING
  BY Zenon, <1>1, <1>3, FirstPanicStep DEF panic, report, disable_interrupts
<1>4. CASE room(stack) /\ PANICKING
  <2>1. call("panic", recursive_report) /\ intr' = FALSE /\ PANICKING' = TRUE /\ base' = base
    BY Zenon, <1>4 DEF panic, report, disable_interrupts
  <2>2. /\ recursive_report \in Seq(Ops) /\ ~HasReturn(recursive_report)
        /\ ~HasMark(recursive_report, "BEGIN")
    BY Zenon, Reports, ReportFacts
  <2>3. UNCHANGED <<PANICKING, base, marks>>
    BY Zenon, <1>1, <1>4, <2>1 DEF DyingInv, TypeInv
  <2>4. PANICKING /\ Depth = base => Marked(marks, "BEGIN")
    BY Zenon, <1>1, FirstLineFirst
  <2>5. intr' \in BOOLEAN /\ (PANICKING => ~intr')
    BY Zenon, <2>1
  <2>. QED  BY Zenon, <1>4, <2>1, <2>2, <2>3, <2>4, <2>5, CallStep
<1>. QED  BY Zenon, <1>2, <1>3, <1>4

\* One frame of a backtrace, whatever the frame pointer.
LEMMA FramePreserves ==
  ASSUME DyingInv, NEW rbp, NEW n \in Nat, Top.todo # <<>>, Next1.op # "mark",
         backtrace_frame(rbp, n), UNCHANGED <<PANICKING, base, marks>>
  PROVE  DyingInv'
<1>1. Less(Tail(Top.todo), Top.todo) /\ Done(stack) = Advance(stack, Tail(Top.todo))
  BY Zenon, TopFacts
<1>2. CASE stack' = Done(stack) /\ UNCHANGED intr
  BY Zenon, <1>1, <1>2, AdvanceStep
<1>3. CASE deliver("PF", Done(stack))
  <2> DEFINE s == Done(stack)
  <2>1. PANICKING /\ Len(stack) = base => Marked(marks, "BEGIN")
    BY Zenon, FirstLineFirst DEF Depth
  <2>2. StackInv(stack) /\ PanicInv(stack, PANICKING, base, intr) /\ base \in Nat
        /\ ReportInv(stack, PANICKING, base, marks) /\ Top = stack[Len(stack)]
    BY Zenon DEF DyingInv, TypeInv, Top, Depth
  <2>3. StackInv(s) /\ PanicInv(s, PANICKING, base, intr)
    BY Zenon, <1>1, <2>2, AdvanceKeeps
  <2>4. ReportInv(s, PANICKING, base, marks)
    BY Zenon, <1>1, <2>1, <2>2, AdvanceKeepsReport
  <2> HIDE DEF s
  <2>5. deliver("PF", s)
    BY Zenon, <1>3 DEF s
  <2>. QED  BY Zenon, <2>3, <2>4, <2>5, DeliverStep
<1>4. ASSUME NEW saved \in Addresses, UNCHANGED intr,
             stack' = Instead(stack, <<[op |-> "frame", on |-> saved, n |-> n + 1]>>)
      PROVE  DyingInv'
  <2> DEFINE o == <<[op |-> "frame", on |-> saved, n |-> n + 1]>>
  <2>1. [op |-> "frame", on |-> saved, n |-> n + 1] \in Ops
    BY DEF Ops, OpNames, Ons
  <2>2. o \in Seq(Ops) /\ Len(o) = 1 /\ o[1].op = "frame"
    BY <2>1
  <2>3. Plain(o)
    BY <2>2 DEF Plain, HasReturn, HasMark
  <2> HIDE DEF o
  <2>4. Less(o \o Tail(Top.todo), Top.todo) /\ Instead(stack, o) = Advance(stack, o \o Tail(Top.todo))
    BY Zenon, <2>3, TopFacts
  <2>5. stack' = Instead(stack, o)
    BY Zenon, <1>4 DEF o
  <2>. QED  BY Zenon, <1>4, <2>4, <2>5, AdvanceStep
<1>5. 0 \in Addresses
  BY Zenon DEF Addresses
<1>. QED  BY Zenon, <1>2, <1>3, <1>4, <1>5 DEF backtrace_frame

\* The backtrace reads its next frame, or stops.
LEMMA BacktracePreserves == DyingInv /\ backtrace => DyingInv'
<1> SUFFICES ASSUME DyingInv, backtrace PROVE DyingInv'
  OBVIOUS
<1>1. Top.todo # <<>> /\ Next1.op # "mark" /\ UNCHANGED <<PANICKING, base, marks>>
  BY Zenon DEF backtrace, At, calm
<1>2. Next1.n \in Nat
  <2>1. Head(Top.todo) \in Ops
    BY <1>1, TopFacts
  <2>. QED  BY Zenon, <2>1 DEF Next1, Ops
<1>3. CASE \E rbp \in current_rbp : backtrace_frame(rbp, 0)
  BY Zenon, <1>1, <1>3, FramePreserves
<1>4. CASE backtrace_frame(Next1.on, Next1.n)
  BY Zenon, <1>1, <1>2, <1>4, FramePreserves
<1>. QED  BY Zenon, <1>3, <1>4 DEF backtrace

\* The end of a panic: the halt, the reset line or the triple fault.
LEMMA ActionPreserves == DyingInv /\ panic_action => DyingInv'
<1> SUFFICES ASSUME DyingInv, panic_action PROVE DyingInv'
  OBVIOUS
<1>1. Top.todo # <<>> /\ Next1.op # "mark" /\ UNCHANGED <<intr, PANICKING, base, marks>>
  BY Zenon DEF panic_action, At
<1>2. CASE UNCHANGED stack
  BY Zenon, <1>1, <1>2 DEF DyingInv, TypeInv
<1>3. CASE stack' = Instead(stack, Panic)
  <2>1. /\ Less(Panic \o Tail(Top.todo), Top.todo)
        /\ stack' = Advance(stack, Panic \o Tail(Top.todo))
    BY Zenon, <1>1, <1>3, PlainPrograms, TopFacts
  <2>. QED  BY Zenon, <1>1, <2>1, AdvanceStep
<1>. QED  BY Zenon, <1>2, <1>3 DEF panic_action, action, triple_fault

\* The kernel's own work starts with nothing above it, so no panic is under way.
LEMMA WorkPreserves == DyingInv /\ work => DyingInv'
<1> SUFFICES ASSUME DyingInv, work PROVE DyingInv'
  OBVIOUS
<1>1. Len(stack) = 1 /\ UNCHANGED <<PANICKING, base, marks>>
  BY Zenon DEF work, main, heap_init, interrupts_init, enable_interrupts, Depth, calm
<1>2. StackInv(stack) /\ PanicInv(stack, PANICKING, base, intr) /\ base \in Nat
      /\ ReportInv(stack, PANICKING, base, marks) /\ intr \in BOOLEAN
  BY Zenon DEF DyingInv, TypeInv
<1>3. ~PANICKING
  BY <1>1, <1>2 DEF PanicInv
<1>4. CASE main
  <2>1. PICK p \in MainPrograms : stack' = <<[stack[1] EXCEPT !.todo = p]>>
    BY Zenon, <1>4 DEF main
  <2>2. intr' = intr
    BY Zenon, <1>4 DEF main
  <2>3. Plain(p)
    <3>1. /\ Plain(With("LOG", Do("assert", "-"))) /\ Plain(With("PMM", log \o Do("assert", "-")))
          /\ Plain(With("STATE", log)) /\ Plain(Touch("HEAP")) /\ Plain(Alloc)
      BY Zenon, PlainPrograms, PlainConcat DEF With, Locks
    <3>. QED  BY Zenon, <3>1 DEF MainPrograms
  <2>4. Less(p, stack[Len(stack)].todo)
    BY Zenon, <2>3 DEF Plain, Less
  <2>5. stack \in Seq(Contexts)
    BY Zenon, <1>2 DEF StackInv
  <2>6. stack' = Advance(stack, p)
    BY <1>1, <2>1, <2>5 DEF Advance
  <2>7. StackInv(stack') /\ PanicInv(stack', PANICKING, base, intr)
    BY Zenon, <1>2, <2>4, <2>6, AdvanceKeeps
  <2>8. ReportInv(stack', PANICKING, base, marks)
    BY Zenon, <1>2, <1>3, <2>4, <2>6, AdvanceKeepsReport
  <2>. QED  BY Zenon, <1>1, <2>2, <2>7, <2>8 DEF DyingInv, TypeInv
<1>5. CASE heap_init \/ interrupts_init \/ enable_interrupts
  <2>1. UNCHANGED stack /\ intr' \in BOOLEAN
    BY Zenon, <1>2, <1>5 DEF heap_init, interrupts_init, enable_interrupts
  <2>2. PanicInv(stack, PANICKING, base, intr')
    BY Zenon, <1>3 DEF PanicInv
  <2>. QED  BY Zenon, <1>1, <1>2, <2>1, <2>2 DEF DyingInv, TypeInv
<1>. QED  BY Zenon, <1>4, <1>5 DEF work

\* The processor delivers an exception.
LEMMA ExceptionPreserves ==
  ASSUME DyingInv, NEW e \in Exceptions, exception(e)
  PROVE  DyingInv'
<1>1. UNCHANGED <<PANICKING, base, marks>> /\ (e = "irq" => intr)
  BY Zenon DEF exception, calm
<1>2. StackInv(stack) /\ PanicInv(stack, PANICKING, base, intr) /\ base \in Nat
      /\ ReportInv(stack, PANICKING, base, marks) /\ intr \in BOOLEAN
  BY Zenon DEF DyingInv, TypeInv
<1>. QED  BY Zenon, <1>1, <1>2, DeliverStep DEF exception

\* Every step.
LEMMA NextPreservesDyingInv == DyingInv /\ [Next]_vars => DyingInv'
<1> SUFFICES ASSUME DyingInv, [Next]_vars PROVE DyingInv'
  OBVIOUS
<1>1. CASE work
  BY Zenon, <1>1, WorkPreserves
<1>2. CASE dying
  BY Zenon, <1>2, StepPreserves, AllocPreserves, ReturnPreserves, PanicPreserves,
     BacktracePreserves, ActionPreserves DEF dying
<1>3. CASE \E e \in Exceptions : exception(e)
  BY Zenon, <1>3, ExceptionPreserves
<1>4. CASE UNCHANGED vars
  BY Zenon, <1>4 DEF vars, DyingInv, TypeInv
<1>. QED  BY Zenon, <1>1, <1>2, <1>3, <1>4 DEF Next

\* However the kernel dies, the contexts of idt.rs, panic.rs and oom.rs are
\* stacked as DyingInv says.
THEOREM DyingInvariant == Spec => []DyingInv
BY InitEstablishesDyingInv, NextPreservesDyingInv, PTL DEF Spec

-----------------------------------------------------------------------------
(* What follows.                                                           *)

\* The handlers of idt.rs that return run on the stack of what they
\* interrupted, so no exception since has overwritten it: for every set of
\* exceptions, in any number and order.
THEOREM ReturnsOnlyToIntactStacks == Spec => []ReturnsToIntactStack
<1>1. DyingInv => ReturnsToIntactStack
  <2> SUFFICES ASSUME DyingInv, At("return"), Depth > 1
               PROVE  stack[Depth - 1].intact
    BY Zenon DEF ReturnsToIntactStack
  <2>1. Top.todo \in Seq(Ops) /\ Top.todo # <<>> /\ Head(Top.todo).op = "return"
    BY Zenon, TopFacts DEF At, Next1
  <2>2. HasReturn(stack[Len(stack)].todo)
    BY Zenon, <2>1, TailOf DEF Top, Depth
  <2>3. Len(stack) \in 2 .. Len(stack)
    BY TopFacts DEF Depth
  <2>. QED  BY Zenon, <2>2, <2>3 DEF DyingInv, StackInv, Depth
<1>. QED  BY <1>1, DyingInvariant, PTL

\* Once panic.rs has disabled interrupts and swapped PANICKING, no handler
\* returns below the panic and no device interrupt runs above it.
THEOREM NothingEverRunsUnderAPanic == Spec => []NothingRunsUnderAPanic
<1>1. DyingInv => NothingRunsUnderAPanic
  <2> SUFFICES ASSUME DyingInv, PANICKING
               PROVE  ~intr /\ Depth >= base /\ \A k \in base .. Depth : stack[k].who # "irq"
    BY Zenon DEF NothingRunsUnderAPanic
  <2>1. PanicInv(stack, PANICKING, base, intr) /\ base \in Nat /\ Len(stack) \in Nat
    BY Zenon, TopFacts DEF DyingInv, TypeInv
  <2>. QED  BY <2>1 DEF PanicInv, Depth
<1>. QED  BY <1>1, DyingInvariant, PTL

\* The report of the first panic is begun at most once, and what keeps it from
\* being begun is an exception, never the panic handler's own code.
THEOREM TheFirstReportSurvives == Spec => []FirstReportSurvives
<1>1. DyingInv => FirstReportSurvives
  <2> SUFFICES ASSUME DyingInv PROVE FirstReportSurvives
    OBVIOUS
  <2>1. ReportInv(stack, PANICKING, base, marks) /\ PanicInv(stack, PANICKING, base, intr)
        /\ base \in Nat /\ marks \in Seq(Ons) /\ Len(stack) \in Nat
    BY Zenon, TopFacts DEF DyingInv, TypeInv
  <2>2. DOMAIN marks = 1 .. Len(marks) /\ Len(marks) \in Nat
    BY <2>1
  <2> DEFINE at(m) == {k \in DOMAIN marks : marks[k] = m}
  <2>3. Cardinality({}) = 0 /\ \A x : Cardinality({x}) = 1
    BY Zenon, FS_EmptySet, FS_Singleton
  <2>4. Count("BEGIN") <= 1
    <3>1. CASE at("BEGIN") = {}
      BY <2>3, <3>1 DEF Count
    <3>2. CASE at("BEGIN") # {}
      <4>1. PICK k \in at("BEGIN") : TRUE
        BY Zenon, <3>2
      <4>2. at("BEGIN") = {k}
        BY Zenon, <2>1, <2>2, <4>1 DEF ReportInv
      <4>3. Cardinality(at("BEGIN")) = 1
        BY <2>3, <4>2, Zenon
      <4>. QED  BY <4>3 DEF Count
    <3>. QED  BY Zenon, <3>1, <3>2
  <2>5. ASSUME Count("RECURSIVE") > 0, Count("BEGIN") = 0
        PROVE  stack[base + 1].who \notin {"oom", "panic"}
    <3>1. at("RECURSIVE") # {}
      BY <2>3, <2>5 DEF Count
    <3>2. Marked(marks, "RECURSIVE")
      BY Zenon, <2>2, <3>1 DEF Marked
    <3>3. ~Marked(marks, "BEGIN")
      <4>1. SUFFICES ASSUME NEW k \in 1 .. Len(marks), marks[k] = "BEGIN" PROVE FALSE
        BY Zenon DEF Marked
      <4>2. at("BEGIN") = {k}
        BY Zenon, <2>1, <2>2, <4>1 DEF ReportInv
      <4>3. Cardinality(at("BEGIN")) = 1
        BY <2>3, <4>2, Zenon
      <4>. QED  BY <2>5, <4>3 DEF Count
    <3>4. PANICKING /\ \E k \in (base + 1) .. Len(stack) : ~HasReturn(stack[k].todo)
      BY Zenon, <2>1, <3>2, <3>3 DEF ReportInv
    <3>5. Len(stack) > base
      BY <2>1, <3>4
    <3>. QED  BY Zenon, <2>1, <3>3, <3>4, <3>5 DEF ReportInv
  <2>. QED  BY Zenon, <2>4, <2>5 DEF FirstReportSurvives
<1>. QED  BY <1>1, DyingInvariant, PTL

=============================================================================
