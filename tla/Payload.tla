------------------------------- MODULE Payload ------------------------------
(***************************************************************************)
(* What schemas.py accepts as a heartbeat and what it makes of it.         *)
(*                                                                         *)
(* A text is a word with blanks around it; Empty is the empty text.        *)
(* Words stand for all texts the code treats alike: the spellings in the   *)
(* alias tables, some others in other cases, an unknown one, and a longest *)
(* one.  lower and size are str.lower and len on them.                     *)
(*                                                                         *)
(* Operators named Mutant... are wrong variants, as in Ingest.             *)
(***************************************************************************)
EXTENDS Naturals

\* Lower case of the words that are not in lower case.
Capitals ==
    [macOS |-> "macos", Darwin |-> "darwin", Windows |-> "windows",
     Linux |-> "linux", LINUX |-> "linux", X64 |-> "x64", ARM64 |-> "arm64",
     ARM |-> "arm", AMD64 |-> "amd64", Fedora |-> "fedora"]

MaxId == 64    \* max_length of installation_id
MaxText == 32  \* max_length of version, os and architecture

Empty == ""
Long == "as long as it may be"

Words ==
    DOMAIN Capitals \cup {Capitals[w] : w \in DOMAIN Capitals}
      \cup {Empty, "osx", "win32", "linux-gnu", "x86_64", "aarch64", Long}

lower == [w \in Words |-> IF w \in DOMAIN Capitals THEN Capitals[w] ELSE w]

Size(t, max) ==
    t.blanks + (IF t.word = Empty THEN 0 ELSE IF t.word = Long THEN max ELSE 5)

Texts == [word : Words, blanks : 0 .. 1]
Plain(w) == [word |-> w, blanks |-> 0]

-----------------------------------------------------------------------------
Strip(t) == Plain(t.word)

\* Wrong: the canonical values are not added.
MutantBuildAliases(mapping) == mapping

\* Every canonical value is an alias of itself, unless it is in the table.
BuildAliases(mapping) ==
    LET canonicals == {mapping[w] : w \in DOMAIN mapping}
        added == {lower[c] : c \in canonicals} \ DOMAIN mapping
    IN  [w \in DOMAIN mapping \cup added |->
            IF w \in DOMAIN mapping THEN mapping[w]
            ELSE CHOOSE c \in canonicals : lower[c] = w]

OsNames ==
    [w \in {"macos", "osx", "darwin", "windows", "win32", "linux", "linux-gnu"} |->
        CASE w \in {"macos", "osx", "darwin"} -> "macOS"
          [] w \in {"windows", "win32"} -> "Windows"
          [] OTHER -> "Linux"]

ArchNames ==
    [w \in {"x86_64", "amd64", "arm64", "aarch64", "arm"} |->
        CASE w \in {"x86_64", "amd64"} -> "x64"
          [] w \in {"arm64", "aarch64"} -> "ARM64"
          [] OTHER -> "ARM"]

OsAliases == BuildAliases(OsNames)
ArchAliases == BuildAliases(ArchNames)

\* Wrong: the text is stripped only when it is no alias.
MutantNormalize(aliases, t) ==
    IF t.blanks = 0 /\ lower[t.word] \in DOMAIN aliases
    THEN Plain(aliases[lower[t.word]]) ELSE Strip(t)

\* aliases.get(value.strip().lower(), value.strip())
Normalize(aliases, t) ==
    IF lower[t.word] \in DOMAIN aliases THEN Plain(aliases[lower[t.word]])
    ELSE Strip(t)

-----------------------------------------------------------------------------
(* A message: its fields, and what is wrong with it as a whole: nothing, a *)
(* field its version does not have, or a version nobody knows.  Each field *)
(* is judged alone, so one of them varies at a time.                       *)

Message == [installation_id |-> Plain("x64"), os |-> Plain("Linux"),
            architecture |-> Plain("x64"), fault |-> "none"]

With(field, value) == [Message EXCEPT ![field] = value]

Messages ==
    {With("installation_id", t) : t \in Texts} \cup {With("os", t) : t \in Texts}
      \cup {With("architecture", t) : t \in Texts}
      \cup {With("fault", f) : f \in {"extra field", "version"}}

Accepted(m) ==
    /\ m.fault = "none"
    /\ Size(m.installation_id, MaxId) \in 1 .. MaxId
    /\ Size(m.os, MaxText) <= MaxText
    /\ Size(m.architecture, MaxText) <= MaxText

\* The model's validators, which run on the fields that were accepted.
Validated(m) ==
    [m EXCEPT !.installation_id = Strip(@),
              !.os = Normalize(OsAliases, @),
              !.architecture = Normalize(ArchAliases, @)]

-----------------------------------------------------------------------------
(* What Requests checks of every payload                                   *)

\* Sent again as it is stored, it is accepted and unchanged.  Except for the
\* id of blanks, which is stored as the empty text, although no message may
\* have an empty id.
Stable(m) ==
    /\ Validated(Validated(m)) = Validated(m)
    /\ \/ Accepted(Validated(m))
       \/ m.installation_id = [word |-> Empty, blanks |-> 1]

\* A field whose text is, but for case and blanks, an alias or a canonical
\* name of the table gets that name.
Labelled(names, t, label) ==
    \A known \in DOMAIN names :
        lower[t.word] \in {known, lower[names[known]]} =>
            label = Plain(names[known])
=============================================================================
