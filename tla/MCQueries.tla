------------------------------- MODULE MCQueries -------------------------------
EXTENDS Queries

CONSTANTS a, b, jpg, JPG, png, unknown, h1, h2, t1

Row(i, word, ext, host, tag, date, size) ==
  [id |-> i, word |-> word, ext |-> ext, host |-> host, tag |-> tag,
   date |-> date, size |-> size]

(* One extension in two spellings, files without one, dates and sizes in
   different orders, a file without a tag, one of another word. *)
SomeRows ==
  {Row(1, a, jpg, h1, t1, 1, 1), Row(2, a, JPG, h1, Empty, 2, 2),
   Row(3, a, png, h2, Empty, 2, 4), Row(4, a, Empty, h2, t1, 3, 2),
   Row(5, a, png, h1, Empty, 1, 0), Row(6, b, unknown, h1, Empty, 1, 1)}

LowerCase == [e \in Exts |-> IF e = JPG THEN jpg ELSE e]
OnlyCounted == {Empty, unknown}
=============================================================================
