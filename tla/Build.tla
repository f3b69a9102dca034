------------------------------- MODULE Build --------------------------------
(***************************************************************************)
(* One sf.build.compile request: its validation (src/src/build/mod.rs) and *)
(* the compiler guest with its virtual files (src/src/build/compiler.rs).  *)
(* Requests share nothing, so one is enough.  Blocking jobs and the ways a *)
(* request can be abandoned are in module Session.                         *)
(*                                                                         *)
(* A path is the sequence of its parts between slashes, as split('/')      *)
(* gives them: "/src/a" is <<"", "src", "a">>.  A part is one of a few     *)
(* names: "bad" has a character outside [A-Za-z0-9_./-], "long" is as long *)
(* as LONG says.  A text is a sequence of characters [raw, text]: the      *)
(* bytes the guest passes and the bytes from_utf8_lossy makes of them.     *)
(*                                                                         *)
(* Left out: state "cancelled", which a session never answers, since it    *)
(* aborts its requests before it cancels the builds.                       *)
(*                                                                         *)
(* Definitions named Mut... are faulty variants of the definition after    *)
(* them.                                                                   *)
(***************************************************************************)
EXTENDS Integers, FiniteSets, SequencesExt

CONSTANTS Bundles,      \* candidate requests: [path -> content]
          Paths,        \* paths the guest opens
          MAX_FILES,    \* files of a bundle (32)
          MAX_BUNDLE,   \* bytes of a bundle (128 KiB)
          MAX_PATH,     \* bytes of the path of a source file (200)
          MAX_NAME,     \* bytes of a path the guest opens (256)
          LONG,         \* length of the part "long"
          MAX_OPEN,     \* files open at a time (64)
          MAX_FD,       \* largest file descriptor (2^31 - 1)
          MAX_OUTPUT,   \* bytes of the object file (64 KiB)
          MAGIC,        \* bytes that make an ELF file (4)
          MAX_TEXT,     \* bytes of the diagnostics (16 KiB)
          Messages,     \* diagnostics of the guest
          SDK           \* content of spinfoam.h; a content is [name, len]

ASSUME BuildAssumption ==
  /\ {MAX_FILES, MAX_BUNDLE, MAX_PATH, MAX_NAME, LONG, MAX_OPEN, MAX_OUTPUT,
      MAX_TEXT} \subseteq Nat
  /\ MAGIC \in Nat \ {0}
  /\ MAX_FD \in Nat \ {0, 1, 2}
  /\ MAX_NAME >= MAX_PATH + 5   \* "/src/" fits before every source path

\* A text is a sequence of these; its path is a sequence of names.
Characters == [raw : Nat, text : Nat]
PathsOfNames == Seq(STRING)

\* Paths are sequences of parts, contents and characters have lengths.
ASSUME ContentAssumption ==
  /\ \A b \in Bundles : /\ DOMAIN b \subseteq PathsOfNames
                        /\ \A n \in DOMAIN b : b[n].len \in Nat
  /\ SDK.len \in Nat
  /\ Messages \subseteq Seq(Characters)

VARIABLES request,    \* [sdk_version, files, entry]
          available,  \* --enable-builds was given
          phase,      \* "received", "running" or "done"
          outcome,    \* "none", an error, or the state of the reply
          files,      \* Context::files: [path parts -> content]
          open,       \* Context::open: [fd -> [file, offset]]
          next,       \* Context::next
          output,     \* Context::output: [len, elf]
          diagnostics, truncated,
          dropped     \* history: text of the guest is missing in diagnostics

bvars == <<request, available, phase, outcome, files, open, next, output,
           diagnostics, truncated, dropped>>
guest == <<request, available, files>>
text == <<diagnostics, truncated, dropped>>

-----------------------------------------------------------------------------
(* Paths.                                                                  *)

Empty == ""  \* the part before a leading slash and between two slashes

PartLength(p) == CASE p = Empty -> 0 [] p = ".." -> 2 [] p = "src" -> 3
                   [] p = "spinfoam.h" -> 10 [] p = "long" -> LONG [] OTHER -> 1

PathLength(path) ==
  Len(path) - 1 + SumFunction([i \in DOMAIN path |-> PartLength(path[i])])

MutValidPath(path) ==            \* only whole names are compared
  /\ PathLength(path) \in 1..MAX_PATH
  /\ ToSet(path) \cap {Empty, "bad"} = {}
  /\ path \notin {<<".">>, <<"..">>, <<"spinfoam.h">>}

\* An empty first, last or middle part is a slash too many.
valid_path(path) ==
  /\ PathLength(path) \in 1..MAX_PATH
  /\ ToSet(path) \cap {Empty, "bad", ".", "..", "spinfoam.h"} = {}

TotalBytes(bundle) == MapThenSumSet(LAMBDA p : bundle[p].len, DOMAIN bundle)

\* Request::validate.
Valid(r) ==
  /\ r.sdk_version = 1
  /\ Cardinality(DOMAIN r.files) \in 1..MAX_FILES
  /\ TotalBytes(r.files) <= MAX_BUNDLE
  /\ valid_path(r.entry) /\ r.entry \in DOMAIN r.files
  /\ \A p \in DOMAIN r.files : valid_path(p)
  /\ \A p \in DOMAIN r.files, i \in 1..MAX_PATH :
       i < Len(p) => SubSeq(p, 1, i) \notin DOMAIN r.files

Nowhere == <<"none">>

\* One turn of the fold: "." and empty parts are skipped, ".." leaves a
\* directory, and whoever leaves the first one gets nowhere.
Enter(parts, p) ==
  IF parts = Nowhere \/ p \in {Empty, "."} THEN parts
  ELSE IF p # ".." THEN Append(parts, p)
  ELSE IF Len(parts) <= 1 THEN Nowhere
  ELSE Front(parts)

\* "/src/x/../a" is /src/a.
virtual_path(path) ==
  LET parts == FoldLeft(Enter, <<>>, path)
  IN  IF Len(path) >= 2 /\ path[1] = Empty /\ parts # <<>> /\ parts[1] = "src"
      THEN parts ELSE Nowhere

-----------------------------------------------------------------------------
(* The request.                                                            *)

Finish(r) == phase' = "done" /\ outcome' = r

Refuse ==
  /\ phase = "received"
  /\ \/ ~Valid(request) /\ Finish("INVALID_PARAMS")
     \/ Valid(request) /\ ~available /\ Finish("SANDBOX_UNAVAILABLE")
  /\ UNCHANGED <<guest, open, next, output, text>>

Header == <<"src", "spinfoam.h">>

\* run(): the files of the bundle under /src/, then the SDK.
Load ==
  /\ phase = "received" /\ Valid(request) /\ available
  /\ phase' = "running"
  /\ files' = [p \in {<<"src">> \o n : n \in DOMAIN request.files} \cup {Header} |->
                 IF p = Header THEN SDK ELSE request.files[Tail(p)]]
  /\ UNCHANGED <<request, available, outcome, open, next, output, text>>

\* The guest faults, or a helper returns Err: bad memory, text that is not
\* UTF-8, fatal(); or the 15 seconds are over.
Trap ==
  /\ phase = "running"
  /\ Finish("failed")
  /\ UNCHANGED <<guest, open, next, output, text>>

\* .text returns a code.
Exit(code) ==
  /\ phase = "running"
  /\ Finish(IF code = 1 /\ output.elf THEN "succeeded" ELSE "failed")
  /\ UNCHANGED <<guest, open, next, output, text>>

-----------------------------------------------------------------------------
(* Helpers of the compiler.                                                *)

Opens(name) == name \in DOMAIN files /\ Cardinality(DOMAIN open) < MAX_OPEN

\* open(); a path that is too long, leads nowhere or finds no file, or one
\* file too many, returns -1 and changes nothing.
OpenFile(path) ==
  LET name == virtual_path(path)
  IN  /\ phase = "running"
      /\ PathLength(path) <= MAX_NAME
      /\ Opens(name)
      /\ IF next + 1 <= MAX_FD - 2
         THEN /\ next' = next + 1
              /\ open' = [fd \in DOMAIN open \cup {next' + 2} |->
                            IF fd = next' + 2 THEN [file |-> name, offset |-> 0]
                            ELSE open[fd]]
              /\ UNCHANGED <<phase, outcome>>
         ELSE Finish("failed") /\ UNCHANGED <<open, next>>
      /\ UNCHANGED <<guest, output, text>>

MutReadCount(fd, n) == n         \* the rest of the file is not considered

ReadCount(fd, n) ==
  Min({n, files[open[fd].file].len - open[fd].offset})

ReadFile(fd, n) ==
  /\ phase = "running" /\ fd \in DOMAIN open
  /\ open' = [open EXCEPT ![fd].offset = @ + ReadCount(fd, n)]
  /\ UNCHANGED <<guest, phase, outcome, next, output, text>>

CloseFile(fd) ==
  /\ phase = "running"
  /\ open' = [x \in DOMAIN open \ {fd} |-> open[x]]
  /\ UNCHANGED <<guest, phase, outcome, next, output, text>>

\* write(); the write that completes the first MAGIC bytes decides whether the
\* output is an ELF file.
WriteOutput(n, elf) ==
  /\ phase = "running"
  /\ IF n > MAX_OUTPUT - output.len
     THEN Finish("failed") /\ UNCHANGED output
     ELSE /\ output' = [len |-> output.len + n,
                        elf |-> IF output.len < MAGIC
                                THEN elf /\ output.len + n >= MAGIC
                                ELSE output.elf]
          /\ UNCHANGED <<phase, outcome>>
  /\ UNCHANGED <<guest, open, next, text>>

-----------------------------------------------------------------------------
(* Diagnostics.                                                            *)

Bytes(s, width) == SumFunction([i \in DOMAIN s |-> s[i][width]])
Newline == [raw |-> 1, text |-> 1]
Replacement == [raw |-> 1, text |-> 3]

\* The longest prefix of s that has at most max bytes by this measure.
Prefix(s, width, max) ==
  SubSeq(s, 1, Max({i \in 0..Len(s) : Bytes(SubSeq(s, 1, i), width) <= max}))

\* The first 16 KiB of what the guest passes; a character that is cut in two
\* becomes a replacement character.
Clipped(s) ==
  LET whole == Prefix(s, "raw", MAX_TEXT)
  IN  IF Bytes(s, "raw") > MAX_TEXT /\ Bytes(whole, "raw") < MAX_TEXT
      THEN Append(whole, Replacement) ELSE whole

\* truncate(): back to a character boundary.
Truncate(s, max) == Prefix(s, "text", max)

MutIsCut(s, message, remaining) == Bytes(message, "text") >= remaining

IsCut(s, message, remaining) ==
  Bytes(s, "raw") > MAX_TEXT \/ Bytes(message, "text") > remaining

Diagnostic(s) ==
  LET message   == Append(Clipped(s), Newline)
      remaining == MAX_TEXT - diagnostics
      kept      == Truncate(message, remaining)
  IN  /\ phase = "running"
      /\ truncated' = (truncated \/ IsCut(s, message, remaining))
      /\ diagnostics' = diagnostics + Bytes(kept, "text")
      /\ dropped' = (dropped \/ kept # Append(s, Newline))
      /\ UNCHANGED <<guest, phase, outcome, open, next, output>>

-----------------------------------------------------------------------------
Init ==
  /\ \E v \in {0, 1}, b \in Bundles : \E e \in DOMAIN b \cup {<<"absent">>} :
       request = [sdk_version |-> v, files |-> b, entry |-> e]
  /\ available \in BOOLEAN
  /\ phase = "received" /\ outcome = "none"
  /\ files = <<>> /\ open = <<>> /\ next = 0
  /\ output = [len |-> 0, elf |-> FALSE]
  /\ diagnostics = 0 /\ truncated = FALSE /\ dropped = FALSE

Next ==
  \/ Refuse \/ Load \/ Trap \/ Exit(0) \/ Exit(1)
  \/ \E path \in Paths : OpenFile(path)
  \/ \E fd \in DOMAIN open : CloseFile(fd) \/ \E n \in 0..2 : ReadFile(fd, n)
  \/ \E n \in 0..2, elf \in BOOLEAN : WriteOutput(n, elf)
  \/ \E s \in Messages : Diagnostic(s)

Spec == Init /\ [][Next]_bvars

-----------------------------------------------------------------------------
TypeOK ==
  /\ phase \in {"received", "running", "done"}
  /\ outcome \in {"none", "INVALID_PARAMS", "SANDBOX_UNAVAILABLE", "failed", "succeeded"}
  /\ next \in 0..(MAX_FD - 2)
  /\ output.len \in 0..MAX_OUTPUT

\* A bundle that was accepted is what the compiler sees: every source file is
\* opened under its own path with its own content, spinfoam.h is the SDK
\* whatever the bundle brings, and no file is the directory of another.
BundleIsReachable ==
  phase = "running" =>
    /\ files[Header] = SDK
    /\ \A n \in DOMAIN request.files :
         LET path == <<Empty, "src">> \o n
         IN  /\ PathLength(path) <= MAX_NAME
             /\ virtual_path(path) \in DOMAIN files
             /\ files[virtual_path(path)] = request.files[n]
    /\ \A p, r \in DOMAIN files : ~IsStrictPrefix(p, r)

\* Open files stay sound over any sequence of opens, reads and closes: a
\* descriptor is none of the standard three and within i32, names a file
\* under /src, and never points past its end, where the next read would
\* subtract below zero; there are at most MAX_OPEN.
OpenFilesAreSound ==
  /\ TypeOK
  /\ Cardinality(DOMAIN open) <= MAX_OPEN
  /\ \A fd \in DOMAIN open :
       /\ fd \in 3..MAX_FD
       /\ open[fd].file \in DOMAIN files
       /\ open[fd].offset \in 0..files[open[fd].file].len

\* The diagnostics stay within their limit, and "diagnostics_truncated" is
\* true exactly if text of the compiler is missing, also when a character is
\* cut in two, when replacement characters make a message longer, and when a
\* shorter message still fits after one that was cut.
DiagnosticsAreHonest ==
  /\ diagnostics <= MAX_TEXT
  /\ truncated <=> dropped
=============================================================================
