--------------------------- MODULE MCShellEditor ---------------------------
(***************************************************************************)
(* ShellEditor for TLC: names and the manifests a first start finds.       *)
(***************************************************************************)
EXTENDS ShellEditor

CONSTANTS phoenix, notes, welcome, research, native, lower, upper, bad

AllNames == {phoenix, notes, welcome, research, native, lower, upper, bad}

\* Two names only Unicode takes for one, as an umlaut in upper and lower case.
Ascii == [name \in AllNames |-> name]
Lowercase == [name \in AllNames |-> IF name = upper THEN lower ELSE name]

Seed == <<phoenix, notes, welcome, research, native>>

\* One folder with one note, whose name may be typed again in another case.
OneNote == UNION {Rename(w, 3, lower) : w \in Delete(Seeded, 4)}

\* A folder with a note, and a note beside it.
TwoNotes == UNION {Create(w, ROOT_ID, "note", lower) : w \in Delete(Seeded, 4)}
=============================================================================
