------------------------------- MODULE SysProps -------------------------------
(***************************************************************************)
(* A Java .properties file as unifi_runtime/sysprops.py reads and edits it *)
(* through its vendored parser.                                            *)
(*                                                                         *)
(* A file is a sequence of physical lines.  A line that ends with a        *)
(* backslash goes on in the next one, whatever that looks like; the last   *)
(* line may lack its line ending.  Escapes within a line are undone by the *)
(* parser and are not modelled, but for one that it refuses.               *)
(***************************************************************************)
EXTENDS Integers, SequencesExt

\* what: "comment", "blank" or "entry"; cont: ends with a backslash; eol: with
\* a line ending.  val holds the pieces that continued lines add to a value.
Line(what, key, val, cont, eol) ==
    [what |-> what, key |-> key, val |-> val, cont |-> cont, eol |-> eol]
Entry(key, val) == Line("entry", key, <<val>>, FALSE, TRUE)

\* A value is there, if only as the empty text.
Lines == {l \in [what : {"comment", "blank", "entry"}, key : STRING, val : Seq(STRING),
                 cont : BOOLEAN, eol : BOOLEAN] : l.what # "blank" => l.val # <<>>}

Garbled == "\\uqqqq"  \* an escape that raises InvalidUEscapeError

-----------------------------------------------------------------------------
(* parse: logical lines as elements that remember their source.            *)

\* Line j ends what line i starts: a comment ends with its line, a continued line
\* where the last of it does.
Stops(ls, i, j) == ls[j].eol /\ (ls[i].what = "comment" \/ ~ls[j].cont)

\* A line with no ending runs into what was written after it.
EndOf(ls, i) == Min({j \in i..Len(ls) : j = Len(ls) \/ Stops(ls, i, j)})

WrittenIn(src) == {n \in DOMAIN src : src[n].what # "blank"}

\* What line n adds to the value: all of a line that is gone on to is.
Adds(src, n) == IF n \notin WrittenIn(src) THEN <<>>
                ELSE IF n = Min(WrittenIn(src)) THEN src[n].val
                ELSE <<src[n].key>> \o src[n].val

\* What the first line with any text on it starts, the rest belongs to.
Element(src) ==
    IF src[1].what = "comment" THEN [what |-> "comment", src |-> src]
    ELSE IF WrittenIn(src) = {} THEN [what |-> "blank", src |-> src]
    ELSE [what |-> "entry", key |-> src[Min(WrittenIn(src))].key, src |-> src,
          val |-> FlattenSeq([n \in DOMAIN src |-> Adds(src, n)])]

Elements(ls) ==
    LET from[i \in 1..Len(ls) + 1] ==
            IF i > Len(ls) THEN <<>>
            ELSE <<Element(SubSeq(ls, i, EndOf(ls, i)))>> \o from[EndOf(ls, i) + 1]
    IN from[1]

\* unescape of a key or value raises.
Raises(ls) ==
    LET els == Elements(ls)
    IN \E i \in DOMAIN els : /\ els[i].what = "entry"
                             /\ \E n \in DOMAIN els[i].val : els[i].val[n] = Garbled

EntriesOf(els, k) == {i \in DOMAIN els : els[i].what = "entry" /\ els[i].key = k}

\* sysprops.parse: the last occurrence wins, as it does for the JVM.
Has(ls, k)   == EntriesOf(Elements(ls), k) # {}
Value(ls, k) == LET els  == Elements(ls)
                    hits == EntriesOf(els, k)
                IN els[Max(hits)].val

-----------------------------------------------------------------------------
(* PropertiesFile: __setitem__ and dumps.                                  *)

\* A new or changed entry has no source; dump formats it.
Fresh(k, v) == [what |-> "entry", key |-> k, src |-> <<>>, val |-> <<v>>]

\* Mutant of Closed: the next key is glued to what the file ends with.
LeftOpen(el) == el

Ended(l, goesOn) == [l EXCEPT !.eol = TRUE, !.cont = @ /\ goesOn]

\* What is about to be followed by a line ends its own, and an entry does not go on.
Closed(el) ==
    LET n == Len(el.src)
    IN IF n = 0 THEN el ELSE [el EXCEPT !.src[n] = Ended(@, el.what # "entry")]

\* The first occurrence is rewritten where it sits, later ones go; a new key is
\* appended.
SetItem(els, k, v) ==
    LET hits  == EntriesOf(els, k)
        first == Min(hits)
        kept  == SelectSeq([i \in DOMAIN els |-> <<i, els[i]>>],
                           LAMBDA e : e[1] \notin hits \/ e[1] = first)
    IN IF hits = {}
       THEN Append([i \in DOMAIN els |-> IF i = Len(els) THEN Closed(els[i]) ELSE els[i]],
                   Fresh(k, v))
       ELSE [i \in DOMAIN kept |-> IF kept[i][1] = first THEN Fresh(k, v) ELSE kept[i][2]]

\* A formatted entry, or the lines it was read from.
Written(el) == IF el.src = <<>> THEN <<Line("entry", el.key, el.val, FALSE, TRUE)>> ELSE el.src

Dumps(els) == FlattenSeq([n \in DOMAIN els |-> Written(els[n])])

Skips(els, k, onlyIfAbsent) == onlyIfAbsent /\ EntriesOf(els, k) # {}

\* sysprops.merge: updates is a sequence of keys and values
Merge(ls, updates, onlyIfAbsent) ==
    LET after[n \in 0..Len(updates)] ==
            IF n = 0 THEN Elements(ls)
            ELSE LET k == updates[n][1]
                 IN IF Skips(after[n - 1], k, onlyIfAbsent) THEN after[n - 1]
                    ELSE SetItem(after[n - 1], k, updates[n][2])
    IN Dumps(after[Len(updates)])
=============================================================================
