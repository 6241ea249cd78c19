---------------------------------- MODULE Skills --------------------------------
(***************************************************************************)
(* Skills that others wrote (frey-context/src/skills.rs): how a SKILL.md   *)
(* is read, and what it may ask for.                                       *)
(*                                                                         *)
(* A file is a sequence of lines.  A line of front matter is a key and a   *)
(* value, and only "capabilities" has a value that matters: a set of       *)
(* capabilities in brackets.  A YAML block list would be lines of its own, *)
(* and they are not read: see the README.  Sizes are left out.             *)
(***************************************************************************)
EXTENDS Naturals, Sequences, SequencesExt

Line(key) == [key |-> key, lists |-> {}]
Wants(capabilities) == [key |-> "capabilities", lists |-> capabilities]
Fence == Line("---")
EmptyLine == Line("")

Refused(why) == [loaded |-> FALSE, why |-> why]

FrontOf(file, closing) == SubSeq(file, 2, closing - 1)

\* The last line of a key, 0 if there is none.
LineOf(front, key) == SelectLastInSeq(front, LAMBDA line : line.key = key)

\* The body without the fences and empty lines that it begins with, and without the empty
\* lines that it ends with.  (The dash of a list that it begins with goes too.)
Trimmed(body) ==
  LET first == SelectInSeq(body, LAMBDA line : line \notin {Fence, EmptyLine})
      last  == SelectLastInSeq(body, LAMBDA line : line # EmptyLine)
  IN  IF first = 0 THEN <<>> ELSE SubSeq(body, first, last)

\* parse_skill
ParseSkill(file, granted, trusted) ==
  LET closing == SelectInSeq(Tail(file), LAMBDA line : line = Fence) + 1
      front   == FrontOf(file, closing)
      wants   == LineOf(front, "capabilities")
      asks    == IF wants = 0 THEN {} ELSE front[wants].lists
  IN  CASE file = <<>> \/ file[1] # Fence \/ closing = 1 -> Refused("NoFrontMatter")
        [] LineOf(front, "name") = 0 \/ LineOf(front, "description") = 0 -> Refused("MissingField")
        [] asks \ granted # {} -> Refused("UngrantedCapabilities")
        [] OTHER -> [loaded |-> TRUE, requested |-> asks, trusted |-> trusted,
                     body |-> Trimmed(SubSeq(file, closing + 1, Len(file)))]

\* Skill::instructions: whatever root it came from.
InstructionsOf(skill) == [text |-> skill.body, label |-> "Low"]
================================================================================
