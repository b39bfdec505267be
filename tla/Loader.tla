------------------------------- MODULE Loader -------------------------------
(* require(): the resolver and the module cache of require.cpp, the wrapper    *)
(* that globals.cpp puts around it (builtins, vendor directories), the         *)
(* translation of modern syntax with its cache in memory and on disk, and the  *)
(* path functions of path.cpp.                                                 *)
(*                                                                             *)
(* A path is the sequence of its components, of the root <<>>.  The text of a  *)
(* file is a version number; a translation is the version it was made from.    *)
(* Modules are evaluated in a stack: each runs, requires others, throws,       *)
(* catches what a require throws, deletes entries of require.cache.  Processes *)
(* follow each other over the same disk, files being edited meanwhile.         *)
EXTENDS Naturals, Sequences, FiniteSets, SequencesExt

CONSTANTS Names,        \* the components of paths
          Files,        \* path -> its kind: "js" parses as it is, "loop" has a block-
                        \* scoped loop, "modern" needs translation, "broken" never parses
          MainOf,       \* directory -> "main" of its package.json
          Entry,        \* the entry script's path, spelled as on the command line
          Specs, Builtins,       \* what modules require
          GlobalVendor,          \* vendor directories of the installation
          HasBabel,              \* whether @babel/standalone is found
          Edited,                \* files that are edited
          RacyEdits, Kills,      \* edits between read and stat; kills during a save
          MaxRequires, MaxEdits, MaxProcesses, MaxDeletes   \* bounds

ASSUME LoaderAssumption ==
  /\ Edited \subseteq DOMAIN Files /\ Entry \in Seq(Names) /\ {"", ".", ".."} \subseteq Names
  /\ {HasBabel, RacyEdits, Kills} \subseteq BOOLEAN
  /\ {MaxRequires, MaxEdits, MaxProcesses, MaxDeletes} \subseteq Nat

VARIABLES text, mtime,  \* of each file
          cache,        \* __require_cache__: key -> "loading", "loaded", "failed"
          stack,        \* modules being loaded, the innermost last
          raised,       \* an exception is on its way to the innermost one
          runs,         \* history: evaluations of each file since it was last deleted
          mem, disk,    \* translations: file -> [mtime, code]
          processes, deletes

vars == <<text, mtime, cache, stack, raised, runs, mem, disk, processes, deletes>>

----------------------------------------------------------------------------
(* Paths *)
\* A loop over the parts p, from its first value on: FoldLeft, as a function.
Along(step, first, p) ==
  LET kept[n \in 0..Len(p)] == IF n = 0 THEN first ELSE step[kept[n - 1]][p[n]]
  IN  kept[Len(p)]

Pop(kept) == IF kept = <<>> THEN <<>> ELSE Front(kept)
Put(kept, part) ==
  CASE part \in {"", "."} -> kept
    [] part = ".." -> Pop(kept)
    [] OTHER -> Append(kept, part)
\* CanonicalizePath on an absolute path.
Canonical(p) == Along([kept \in Seq(Names) |-> [part \in Names |-> Put(kept, part)]], <<>>, p)
ASSUME FilesAssumption == \A f \in DOMAIN Files : f \in Seq(Names) /\ Canonical(f) = f

\* path.resolve: each argument is joined to the last absolute one; then "//" and
\* "/./" are dropped in one pass, and "x/.." in a second.
Joined(cwd, args) ==
  Along([out \in Seq(Names) |-> [a \in [absolute : BOOLEAN, at : Seq(Names)] |->
           IF a.absolute THEN a.at ELSE out \o a.at]], cwd, args)
WithoutDots(p) ==
  Along([tmp \in Seq(Names) |-> [part \in Names |->
           IF part \in {"", "."} THEN tmp ELSE Append(tmp, part)]], <<>>, p)
WithoutUps(p) ==
  Along([norm \in Seq(Names) |-> [part \in Names |->
           IF part = ".." THEN Pop(norm) ELSE Append(norm, part)]], <<>>, p)
PathResolve(cwd, args) == WithoutUps(WithoutDots(Joined(cwd, args)))
\* path.normalize: of a relative path, the ".." that lead out of it are kept.
\* Mutant: a ".." pops even another "..".
NormalPut_Pops(out, part, absolute) ==
  CASE part \in {"", "."} -> out
    [] part = ".." -> IF out # <<>> THEN Front(out) ELSE IF absolute THEN out ELSE <<"..">>
    [] OTHER -> Append(out, part)
Up(out, absolute) ==
  IF out # <<>> /\ Last(out) # ".." THEN Front(out)
  ELSE IF absolute THEN out ELSE Append(out, "..")
NormalPut(out, part, absolute) ==
  CASE part \in {"", "."} -> out
    [] part = ".." -> Up(out, absolute)
    [] OTHER -> Append(out, part)
PathNormalize(p, absolute) ==
  Along([out \in Seq(Names) |-> [part \in Names |-> NormalPut(out, part, absolute)]], <<>>, p)
\* path.join does not normalize.
PathJoin(parts) == Along([out \in Seq(Names) |-> [part \in Seq(Names) |-> out \o part]], <<>>, parts)
PathDirname(p) == IF p = <<>> THEN <<>> ELSE Front(p)
PathBasename(p) == IF p = <<>> THEN "" ELSE Last(p)
\* path.relative
PathRelative(from, to) ==
  LET same == CHOOSE n \in 0..Len(from) :
                /\ n <= Len(to) /\ SubSeq(from, 1, n) = SubSeq(to, 1, n)
                /\ n < Len(from) /\ n < Len(to) => from[n + 1] # to[n + 1]
  IN  [i \in 1..(Len(from) - same) |-> ".."] \o SubSeq(to, same + 1, Len(to))

----------------------------------------------------------------------------
(* Resolution *)
FileExists(p) == Canonical(p) \in DOMAIN Files      \* no symbolic links
Ext(p, e) == Append(Front(p), Last(p) \o e)

AsFile(base) == IF base = <<>> THEN <<>> ELSE <<base, Ext(base, ".js"), Ext(base, ".cjs"), Ext(base, ".json")>>
AsIndex(base) == [i \in 1..3 |-> Append(base, <<"index.js", "index.cjs", "index.json">>[i])]
\* The directories "main" leads through, each main being looked up like a
\* required path itself.  (One that leads back to its directory never ends.)
Mains(base) ==
  FoldLeft(LAMBDA dirs, i : IF Canonical(Last(dirs)) \notin DOMAIN MainOf THEN dirs
                            ELSE Append(dirs, Last(dirs) \o MainOf[Canonical(Last(dirs))]),
           <<base>>, [i \in 1..Cardinality(DOMAIN MainOf) |-> i])
\* TryModuleExtensions: the file, then the directory's "main", then its index.
Candidates(base) ==
  FlattenSeq([i \in DOMAIN Mains(base) |-> AsFile(Mains(base)[i])])
  \o FlattenSeq([i \in DOMAIN Mains(base) |-> AsIndex(Reverse(Mains(base))[i])])
Ancestors(dir) == [i \in 1..(Len(dir) + 1) |-> SubSeq(dir, 1, Len(dir) + 1 - i)]

Existing(paths) == SelectSeq(paths, FileExists)
\* ResolveModule: a relative path from the directory, a bare name from the
\* node_modules of each ancestor; <<>> when there is nothing.
ResolveModule(spec, dir) ==
  LET bases == CASE spec.kind = "absolute" -> <<spec.at>>
                 [] spec.kind = "relative" -> <<dir \o spec.at>>
                 [] spec.kind = "bare" -> [i \in DOMAIN Ancestors(dir) |-> Ancestors(dir)[i] \o <<"node_modules">> \o spec.at]
      found == Existing(FlattenSeq([i \in DOMAIN bases |-> Candidates(bases[i])]))
  IN  IF found = <<>> THEN <<>> ELSE Canonical(Head(found))
\* The fallback for a bare name: a sibling or vendor file of each ancestor but
\* the root, then the installation's.
VendorFiles(spec, dir) ==
  IF spec.kind # "bare" THEN <<>>
  ELSE Existing(FlattenSeq([i \in 1..Len(dir) |->
         <<Ancestors(dir)[i] \o <<Last(spec.at) \o ".js">>, Ancestors(dir)[i] \o <<"vendor", Last(spec.at) \o ".js">>>>])
       \o [i \in DOMAIN GlobalVendor |-> Append(GlobalVendor[i], Last(spec.at) \o ".js")])

----------------------------------------------------------------------------
(* Loading *)
Top == Last(stack)
Change(frame) == stack' = Append(Front(stack), frame)
Frame(key) == [key |-> key, file |-> Canonical(key), at |-> "read", text |-> 0, code |-> 0,
               requires |-> MaxRequires, vendor |-> <<>>]

\* LookupCache, and LoadModuleFile for a file that is not there yet.  (A module
\* whose exports became undefined counts as not there; none here does that.)
Lookup(frame, key) ==
  IF key \in DOMAIN cache
  THEN Change(frame)
  ELSE stack' = Append(Append(Front(stack), frame), Frame(key))

Stored(key, state) == [k \in DOMAIN cache \cup {key} |-> IF k = key THEN state ELSE cache[k]]
\* Mutant: the module is bound into the cache only when it has been evaluated.
StoreEarly_Not(key) == cache
StoreEarly(key) == Stored(key, "loading")

Running == stack # <<>> /\ Top.at = "run" /\ ~raised

Require ==
  /\ Running /\ Top.requires > 0
  /\ \E spec \in Specs :
       LET dir == PathDirname(Top.file)
           frame == [Top EXCEPT !.requires = @ - 1, !.vendor = VendorFiles(spec, dir)]
           key == ResolveModule(spec, dir)
       IN  CASE spec.kind = "bare" /\ spec.at[1] \in Builtins -> Change(frame) /\ UNCHANGED raised
             [] ~(spec.kind = "bare" /\ spec.at[1] \in Builtins) /\ key \in DOMAIN Files -> Lookup(frame, key) /\ UNCHANGED raised
             [] OTHER -> Change(frame) /\ raised' = TRUE
  /\ UNCHANGED <<text, mtime, cache, runs, mem, disk, processes, deletes>>

\* An exception reaches a require: the next vendor file is tried, whatever the
\* exception was; with none left the module catches it or ends.
TryVendor ==
  /\ raised /\ stack # <<>> /\ Top.vendor # <<>>
  /\ LET key == Canonical(Head(Top.vendor))
     IN  key \in DOMAIN Files /\ Lookup([Top EXCEPT !.vendor = Tail(@)], key)
  /\ raised' = FALSE
  /\ UNCHANGED <<text, mtime, cache, runs, mem, disk, processes, deletes>>
Catch ==
  /\ raised /\ stack # <<>> /\ Top.vendor = <<>>
  /\ raised' = FALSE
  /\ UNCHANGED <<text, mtime, cache, stack, runs, mem, disk, processes, deletes>>
\* A module that throws stays in the cache as it is.
Ends(state) ==
  /\ stack' = Front(stack)
  /\ cache' = IF Top.key \in DOMAIN cache \/ state = "loaded" THEN Stored(Top.key, state) ELSE cache
  /\ UNCHANGED <<text, mtime, runs, mem, disk, processes, deletes>>
Throw ==
  /\ stack # <<>> /\ Top.at = "run" /\ (raised => Top.vendor = <<>>)
  /\ raised' = TRUE
  /\ Ends("failed")
Return == Running /\ Ends("loaded") /\ UNCHANGED raised

\* The file, which is there, is read; a JSON file is stored and returned at once.
Read ==
  /\ stack # <<>> /\ Top.at = "read" /\ Top.file \in DOMAIN Files
  /\ IF Files[Top.file] = "json" THEN Ends("loaded") /\ UNCHANGED raised
     ELSE /\ Change([Top EXCEPT !.at = "translate", !.text = text[Top.file]])
          /\ UNCHANGED <<text, mtime, cache, raised, runs, mem, disk, processes, deletes>>

\* The wrapped source is evaluated and bound into the cache.
Evaluate(code) ==
  /\ Change([Top EXCEPT !.at = "run", !.code = code])
  /\ cache' = StoreEarly(Top.key)
  /\ runs' = [runs EXCEPT ![Top.file] = @ + 1]
  /\ UNCHANGED <<text, mtime, raised, processes, deletes>>
\* It does not parse.
Rejects ==
  /\ stack' = Front(stack) /\ raised' = TRUE
  /\ UNCHANGED <<text, mtime, cache, runs, processes, deletes>>
\* Without a translation a loop with let is evaluated as it is, which is wrong
\* only for closures; the rest does not parse.
Untranslated == IF Files[Top.file] = "loop" THEN Evaluate(Top.text) ELSE Rejects
Translatable == HasBabel /\ Files[Top.file] # "broken"

\* Mutant: a translation is taken whatever the time of the file.
Fresh_Always(entry) == TRUE
Fresh(entry) == entry.mtime = mtime[Top.file]
Known(t) == Top.file \in DOMAIN t /\ Fresh(t[Top.file])
Remember(t, entry) == [f \in DOMAIN t \cup {Top.file} |-> IF f = Top.file THEN entry ELSE t[f]]

\* __try_babel_transpile__, for source that does not parse and, before trying,
\* for source with a block-scoped loop.  The mtime is taken now, after the read.
Translate ==
  /\ stack # <<>> /\ Top.at = "translate"
  /\ CASE Files[Top.file] = "js" -> Evaluate(Top.text) /\ UNCHANGED <<mem, disk>>
       [] Files[Top.file] # "js" /\ Known(mem) -> Evaluate(mem[Top.file].code) /\ UNCHANGED <<mem, disk>>
       [] Files[Top.file] # "js" /\ ~Known(mem) /\ Known(disk) ->
            /\ mem' = Remember(mem, disk[Top.file])
            /\ Evaluate(disk[Top.file].code) /\ UNCHANGED disk
       [] Files[Top.file] # "js" /\ ~Known(mem) /\ ~Known(disk) ->
            IF ~Translatable THEN Untranslated /\ UNCHANGED <<mem, disk>>
            ELSE LET entry == [mtime |-> mtime[Top.file], code |-> Top.text] IN
                 /\ mem' = Remember(mem, entry)
                 /\ disk' = Remember(disk, [entry EXCEPT !.code = 0])    \* opened, header written
                 /\ Change([Top EXCEPT !.at = "save", !.code = Top.text])
                 /\ UNCHANGED <<text, mtime, cache, raised, runs, processes, deletes>>
Save ==
  /\ stack # <<>> /\ Top.at = "save"
  /\ disk' = Remember(disk, mem[Top.file])
  /\ Evaluate(Top.code) /\ UNCHANGED mem

\* delete require.cache[key], to load a file again.
Delete ==
  /\ Running /\ deletes < MaxDeletes
  /\ \E key \in {k \in DOMAIN cache : cache[k] # "loading"} :
       /\ cache' = [k \in DOMAIN cache \ {key} |-> cache[k]]
       /\ runs' = [runs EXCEPT ![Canonical(key)] = 0]
  /\ deletes' = deletes + 1
  /\ UNCHANGED <<text, mtime, stack, raised, mem, disk, processes>>

(* The processes and the editor *)
Starts == /\ stack' = <<Frame(Entry)>> /\ raised' = FALSE /\ cache' = <<>> /\ mem' = <<>>
          /\ runs' = [f \in DOMAIN Files |-> 0]
          /\ processes' = processes + 1 /\ deletes' = 0
\* The process is over or, during a save only when Kills, killed; another starts.
Restart ==
  /\ processes < MaxProcesses
  /\ (stack # <<>> /\ Top.at = "save") => Kills
  /\ Starts
  /\ UNCHANGED <<text, mtime, disk>>
Edit ==
  \E f \in Edited :
    /\ text[f] < MaxEdits
    /\ ~RacyEdits => \A i \in DOMAIN stack : stack[i].file = f => stack[i].at # "translate"
    /\ text' = [text EXCEPT ![f] = @ + 1]
    /\ mtime' = [mtime EXCEPT ![f] = @ + 1]     \* not within the same second
    /\ UNCHANGED <<cache, stack, raised, runs, mem, disk, processes, deletes>>

Init ==
  /\ text = [f \in DOMAIN Files |-> 1] /\ mtime = [f \in DOMAIN Files |-> 1]
  /\ cache = <<>> /\ mem = <<>> /\ disk = <<>> /\ raised = FALSE
  /\ stack = <<Frame(Entry)>> /\ runs = [f \in DOMAIN Files |-> 0]
  /\ processes = 1 /\ deletes = 0
Next ==
  \/ Require \/ TryVendor \/ Catch \/ Throw \/ Return
  \/ Read \/ Translate \/ Save \/ Delete \/ Restart \/ Edit
Spec == Init /\ [][Next]_vars

----------------------------------------------------------------------------
(* Properties *)
\* A file is evaluated at most once in a process, however the requires that
\* lead to it spell it and however they cycle, unless the program deleted it
\* from require.cache.
EvaluatedOnce == \A f \in DOMAIN Files : runs[f] <= 1

\* What is evaluated is what was read: neither cache returns a translation of
\* another version, in this process or a later one (if no edit falls between
\* reading a file and looking at its time, and no process dies while saving).
TranslationIsCurrent ==
  \A i \in DOMAIN stack : stack[i].at = "run" => stack[i].code = stack[i].text

\* The three normalizers agree: a module that names a file with path.normalize,
\* path.resolve or path.relative means the file that require() would load.  On
\* absolute paths the three are the same, a relative path can be normalized before
\* it is joined to the directory of the module, or of the root, and path.relative
\* leads from there to the file.  (Said of each module when it is about to be read.)
Parts == ToSet(Canonical(Entry)) \cup {".", "..", ""}
PathsUpTo(n) == UNION {[1..k -> Parts] : k \in 0..n}
NormalizersAgree ==
  stack # <<>> /\ Top.at = "read" => \A p \in PathsUpTo(3) :
    /\ PathNormalize(p, TRUE) = Canonical(p)
    /\ PathResolve(PathDirname(Canonical(Entry)), <<[absolute |-> TRUE, at |-> p]>>) = Canonical(p)
    /\ \A d \in {<<>>, PathDirname(Top.file)} :
         /\ Canonical(PathJoin(<<d, PathNormalize(p, FALSE)>>)) = PathResolve(d, <<[absolute |-> FALSE, at |-> p]>>)
         /\ Canonical(d \o PathRelative(d, Canonical(p))) = Canonical(p)

----------------------------------------------------------------------------
(* What makes the properties inductive. *)

\* A frame is of the file that its key spells.
IsFrame(f) ==
  /\ {"key", "file", "at", "text", "code", "requires", "vendor"} \subseteq DOMAIN f
  /\ f.key \in Seq(Names) /\ f.file = Canonical(f.key)

\* Only the innermost module is being loaded, the others wait for it; and an
\* exception is thrown by modules that run.
StackInv ==
  /\ stack \in Seq(Range(stack))
  /\ \A i \in DOMAIN stack : IsFrame(stack[i])
  /\ \A i \in 1..(Len(stack) - 1) : stack[i].at = "run"
  /\ raised /\ stack # <<>> => Top.at = "run"

\* A frame holds the text of its file until it is translated, and then a
\* translation of that text, which the cache t in memory has while it is saved.
IsCurrent(f, texts, t) ==
  /\ f.at = "translate" => f.file \in DOMAIN Files /\ f.text = texts[f.file]
  /\ f.at = "save" => f.code = f.text /\ f.file \in DOMAIN t
  /\ f.at = "run" => f.code = f.text
FramesAreCurrent == \A i \in DOMAIN stack : IsCurrent(stack[i], text, mem)

\* A file that has the time of a translation has the text it was made from; on
\* the disk this is so as soon as the translation is saved.
Saving(f) == stack # <<>> /\ Top.at = "save" /\ Top.file = f
CachesAreCurrent ==
  /\ text = mtime
  /\ \A f \in DOMAIN mem : mem[f].code = mem[f].mtime
  /\ \A f \in DOMAIN disk : disk[f].code = disk[f].mtime \/ Saving(f)

CurrentInv == FramesAreCurrent /\ CachesAreCurrent /\ text \in [DOMAIN Files -> Nat]

\* A file that was evaluated is in the cache, under the one key that spells it,
\* and a module that is not evaluated yet is not.  (If the entry is spelled
\* like that too: with another spelling a require of it evaluates it again.)
OnceInv ==
  /\ runs \in [DOMAIN Files -> {0, 1}]
  /\ \A f \in DOMAIN Files : runs[f] = 1 => f \in DOMAIN cache
  /\ \A k \in DOMAIN cache : Canonical(k) = k
  /\ \A i \in DOMAIN stack : Canonical(stack[i].key) = stack[i].key
  /\ stack # <<>> /\ Top.at # "run" => Top.key \notin DOMAIN cache
=============================================================================
