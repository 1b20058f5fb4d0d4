----------------------------- MODULE BootParams -----------------------------
(***************************************************************************)
(* The boot parameters of kernel/src/multiboot/info.rs: the command line   *)
(* as heapless::Str keeps it, and parse_params.                            *)
(*                                                                         *)
(* A token is [key, klen, val]: its name, the number of characters of      *)
(* "orin." and the name, and its value as a sequence of characters.  A     *)
(* token of another program has the key "foreign".                         *)
(***************************************************************************)
EXTENDS Integers, Sequences, SequencesExt

CONSTANTS STR_CAP,     \* capacity of heapless::Str
          U64_MAX,     \* largest value of a u64
          Levels,      \* the values Level::parse accepts
          Targets      \* the values Target::parse accepts

Unset == -1            \* Option::None of a number
NoWord == <<>>         \* Option::None of a level or a target
off_word == <<"o", "f", "f">>
Prefix == 5            \* characters of "orin."
Flag == {"single"}     \* keys written without "="

Digit == [c \in {"0", "1", "2", "3", "4", "5", "6", "7", "8", "9"} |->
            CASE c = "0" -> 0 [] c = "1" -> 1 [] c = "2" -> 2 [] c = "3" -> 3 [] c = "4" -> 4
              [] c = "5" -> 5 [] c = "6" -> 6 [] c = "7" -> 7 [] c = "8" -> 8 [] c = "9" -> 9]

\* str::parse::<u64>, Unset where it is an error: one leading "+" is accepted.
parse_u64(val) ==
  LET number == IF val # <<>> /\ val[1] = "+" THEN Tail(val) ELSE val
      digits == \A i \in DOMAIN number: number[i] \in DOMAIN Digit
      n == FoldLeft(LAMBDA acc, c: 10 * acc + Digit[c], 0, number)
  IN IF number = <<>> \/ ~digits THEN Unset ELSE IF n > U64_MAX THEN Unset ELSE n

-----------------------------------------------------------------------------
token_len(t) == t.klen + (IF t.key \in Flag \cup {"foreign", "cut"} THEN 0 ELSE 1 + Len(t.val))

\* Where token i of a line starts, one space between tokens.
start_of(line, i) == FoldLeft(LAMBDA n, t: n + token_len(t) + 1, 0, SubSeq(line, 1, i - 1))

\* The first n characters of a token, as the tokens of a line are read.
cut(t, n) ==
  IF n >= token_len(t) THEN t
  ELSE IF t.key # "foreign" /\ n >= t.klen
       THEN [t EXCEPT !.val = SubSeq(@, 1, n - t.klen - 1)]
       ELSE [key |-> IF t.key # "foreign" /\ n >= Prefix THEN "cut" ELSE "foreign",
             klen |-> n, val |-> <<>>]

\* Str::push_str: the line up to the capacity of the buffer.
push_str(line) ==
  LET kept == SelectSeq([i \in DOMAIN line |-> [i |-> i, room |-> STR_CAP - start_of(line, i)]],
                        LAMBDA p: p.room > 0)
  IN [k \in DOMAIN kept |-> cut(line[kept[k].i], kept[k].room)]

-----------------------------------------------------------------------------
Defaults == [log |-> NoWord, console |-> NoWord, selftest |-> TRUE, panic_action |-> "Halt",
             single |-> FALSE, mem_limit_mib |-> Unset, nx |-> TRUE, unknown |-> <<>>]

append_unknown(p, t) == [p EXCEPT !.unknown = Append(@, t)]

\* The effect of one token.
param(p, t) ==
  CASE t.key = "foreign" -> p
    [] t.key = "log" -> IF t.val \in Levels THEN [p EXCEPT !.log = t.val] ELSE append_unknown(p, t)
    [] t.key = "console" -> IF t.val \in Targets THEN [p EXCEPT !.console = t.val]
                            ELSE append_unknown(p, t)
    [] t.key = "selftest" -> [p EXCEPT !.selftest = t.val # off_word]
    [] t.key = "panic" -> [p EXCEPT !.panic_action =
                             CASE t.val = <<"r", "e", "b", "o", "o", "t">> -> "Reboot"
                               [] t.val = <<"t", "r", "i", "p", "l", "e">> -> "Triple"
                               [] OTHER -> "Halt"]
    [] t.key = "single" -> [p EXCEPT !.single = TRUE]
    [] t.key = "memlimit" -> IF parse_u64(t.val) # Unset
                             THEN [p EXCEPT !.mem_limit_mib = parse_u64(t.val)]
                             ELSE append_unknown(p, t)
    [] t.key = "nx" -> [p EXCEPT !.nx = t.val # off_word]
    [] OTHER -> append_unknown(p, t)

parse_params(line) == FoldLeft(param, Defaults, line)
=============================================================================
