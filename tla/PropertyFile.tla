----------------------------- MODULE PropertyFile -----------------------------
(* read_proprty_files and validate_property_readings of deploy.py: the     *)
(* test-plan property file is read line by line; a line starting with '#'  *)
(* is skipped, any other is split on '=', the first field is the key and   *)
(* the second the value, stripped of white space.  The properties main()   *)
(* checks must then all be set.  A line is a sequence of characters; a     *)
(* key name is one character of its own.                                   *)
EXTENDS Naturals, Sequences, FiniteSets, SequencesExt

CONSTANTS
    Keys,      \* keys read_proprty_files assigns and validation requires
    Values     \* value texts a property may be given in the file

VARIABLES
    lines,     \* the file, one character sequence per line
    idx,       \* the 'for line in filehandle' loop
    props,     \* the module globals the keys are read into
    pc

vars == <<lines, idx, props, pc>>

NONE == "None"
Space == {" ", "\n"}

\* The index of the first '=' of a line, 0 if there is none.
FirstEq(l) == SelectInSeq(l, LAMBDA c : c = "=")

\* str.strip(): leading and trailing white space removed.
Strip(s) ==
  LET i == SelectInSeq(s, LAMBDA c : c \notin Space)
      j == SelectLastInSeq(s, LAMBDA c : c \notin Space)
  IN  IF i = 0 THEN <<>> ELSE SubSeq(s, i, j)

\* line.split("=")[0] and [1]: the text before the first '=', and the
\* text between the first '=' and the next one.
SplitKey(l) == SubSeq(l, 1, FirstEq(l) - 1)
SplitVal(l) ==
  LET rest == SubSeq(l, FirstEq(l) + 1, Len(l))
      j == FirstEq(rest)
  IN  IF j = 0 THEN rest ELSE SubSeq(rest, 1, j - 1)

\* A property file as the test plan writes it: a comment line, then one
\* key=value line per key, each ended by a newline.
Comment == <<"#", " ", "\n">>
Files ==
  { <<Comment>> \o [i \in 1..Len(SetToSeq(Keys)) |->
                      <<SetToSeq(Keys)[i], "=">> \o v[i] \o <<"\n">>] :
      v \in [1..Cardinality(Keys) -> Values] }

Init ==
  /\ lines \in Files
  /\ idx = 1
  /\ props = [k \in Keys |-> NONE]
  /\ pc = "read"

\* One iteration of the line loop.  A line without '=' has no prop[1]:
\* IndexError, which main() catches.  A key outside the elif chain is
\* ignored.
read_line ==
  /\ pc = "read"
  /\ idx <= Len(lines)
  /\ LET l == lines[idx] IN
       CASE l[1] = "#" ->
              UNCHANGED <<props, pc>>
         [] FirstEq(l) = 0 ->
              pc' = "error" /\ UNCHANGED props
         [] OTHER ->
              /\ props' = IF Len(SplitKey(l)) = 1 /\ SplitKey(l)[1] \in Keys
                           THEN [props EXCEPT ![SplitKey(l)[1]] = Strip(SplitVal(l))]
                           ELSE props
              /\ UNCHANGED pc
  /\ idx' = idx + 1
  /\ UNCHANGED lines

\* validate_property_readings, and main()'s raise when it returns False.
validate_property_readings ==
  /\ pc = "read"
  /\ idx > Len(lines)
  /\ pc' = IF \A k \in Keys : props[k] # NONE THEN "valid" ELSE "error"
  /\ UNCHANGED <<lines, idx, props>>

Next == read_line \/ validate_property_readings

Spec == Init /\ [][Next]_vars

-----------------------------------------------------------------------------
(* Properties                                                              *)

\* The spec's format: the key is the text before the first '=', the value
\* everything after it.
SpecValue(l) == Strip(SubSeq(l, FirstEq(l) + 1, Len(l)))

\* Once the file is read and validated, every property holds the value
\* the file gives it, split on the first '=' (spec 6: "lines are split on
\* the first =").
ValuesReadAsWritten ==
  pc = "valid" =>
    \A i \in 1..Len(lines) :
      lines[i][1] # "#" => props[SplitKey(lines[i])[1]] = SpecValue(lines[i])

=============================================================================
