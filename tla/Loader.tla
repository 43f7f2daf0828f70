------------------------------- MODULE Loader -------------------------------
(***************************************************************************)
(* The PE loader (pe.rs), the modules of the process (hle_kernel_module.rs *)
(* and the import resolution of hle_base.rs), and the chain of DllMain     *)
(* calls in front of the executable's entry (finish_load_exe).             *)
(*                                                                         *)
(* Addresses are counted in units of the allocation granularity, of which  *)
(* an image takes a few.  The module arena is the one of GuestArena seen   *)
(* from outside: the lowest place that is free, never given back.          *)
(* A file is a record of what the loader reads out of it, a symbol is an   *)
(* export's name or its ordinal ("#1"), and the address of an export is    *)
(* the pair of its image and its ordinal.                                  *)
(*                                                                         *)
(* The loader is recursive: an import of a library that is not loaded yet  *)
(* loads it, in the middle of its importer's own load.  A load that fails  *)
(* leaves what it reserved, and the libraries it had loaded by then.       *)
(***************************************************************************)
EXTENDS Integers, FiniteSets, SequencesExt

CONSTANTS
  Lo, Hi,             (* the module arena: first unit and end unit          *)
  Runtime,            (* stems of the libraries the emulator implements     *)
  Preloaded,          (* those of them bootstrap_process_strings registers  *)
  Known,              (* symbols of theirs that have an implementation      *)
  Strict,             (* values strict_hle_imports may have                 *)
  Executables,        (* files that may be started                          *)
  VirtualFiles,       (* [paths -> files] the archive may hold              *)
  Unpacked,           (* those of its paths the guest writes and deletes    *)
  HostFiles,          (* [paths -> files] of the mounted host directory     *)
  Directories,        (* current directories                                *)
  Asked,              (* names the guest passes to LoadLibrary              *)
  Symbols             (* symbols it asks GetProcAddress for                 *)

ASSUME LoaderAssumption ==
  /\ Lo \in Nat \ {0} /\ Hi \in Nat /\ Lo <= Hi
  /\ Preloaded \subseteq Runtime /\ Strict \subseteq BOOLEAN

VARIABLES
  hle,        \* what the loader keeps: see Empty
  virtual,    \* paths of the files the archive holds now
  cwd,        \* current directory
  exe,        \* the image of the executable, or NoImage
  status,     \* "loading", "running", "failed", "panicked", "exited"
  eip,        \* whose entry runs: an image base, 0 before and after
  stack,      \* guest stack from esp upwards
  attached    \* ghost: modules whose entry has been called, in order

vars == <<hle, virtual, cwd, exe, status, eip, stack, attached>>

(* Names of files and modules, lower case as normalize_module_name leaves  *)
(* them.                                                                   *)
NoDir == ""
Name(dir, stem, ext) == [dir |-> dir, stem |-> stem, ext |-> ext]
File(n) == [n EXCEPT !.dir = NoDir]

Extended(n) == IF n.ext = "" THEN <<n, [n EXCEPT !.ext = "dll"]>> ELSE <<n>>
LoadNames(n) == Extended(n)

\* Mutation of LookupKeys: a name with a directory is another module.
LookupKeysWhole(n) == Extended(n)

LookupKeys(n) == Extended(n) \o Extended(File(n))

IsRuntime(n) == n.stem \in Runtime /\ n.ext = "dll"

\* The path of a name: a bare one is relative to the current directory.
Path(n) == [n EXCEPT !.dir = IF @ = NoDir THEN cwd ELSE @]

----------------------------------------------------------------------------
(* What the emulator knows: the places reserved in the module arena,       *)
(* handles by name, images by base, the thunks of its own implementations. *)
Empty(strict) == [strict |-> strict, arena |-> {}, modules |-> << >>, images |-> << >>,
                  fakes |-> 0, thunks |-> {}, unresolved |-> {}]

NoImage == [base |-> 0]
Fake(k) == Hi + k     \* handles of alloc_module lie above every image
Null == 0

Place(f, base) == [base |-> base, size |-> f.size]
Disjoint(a, b) == a.base + a.size <= b.base \/ b.base + b.size <= a.base
Free(h, f) == {b \in Lo .. Hi - f.size : \A a \in h.arena : Disjoint(a, Place(f, b))}

ReserveAt(h, f, bases) ==
  IF bases = {} THEN [ok |-> FALSE, base |-> 0, hle |-> h]
  ELSE [ok |-> TRUE, base |-> Min(bases),
        hle |-> [h EXCEPT !.arena = @ \cup {Place(f, Min(bases))}]]

AllocModuleImage(h, f) == ReserveAt(h, f, Free(h, f))
ReserveModuleImage(h, f) == ReserveAt(h, f, Free(h, f) \cap {f.preferred})

\* Entries of the export table that are forwarded elsewhere are not exports.
Exports(f) == {x \in f.exports : ~x.forwarded}
ResolveExport(image, s) == {x \in image.exports : s \in {x.name, x.ordinal}}
Address(image, s) == [module |-> image.base, lib |-> NoDir,
                      at |-> (CHOOSE x \in ResolveExport(image, s) : TRUE).ordinal]
Thunk(lib, s) == [module |-> Null, lib |-> lib.stem, at |-> s]
Module(handle) == [module |-> handle, lib |-> NoDir, at |-> NoDir]
NoAddress == Module(Null)

\* apply_base_relocations moves what points into the image along with it.
Relocated(f, base) == f.preferred + (base - f.preferred)

Image(f, base, own, bound) ==
  [base |-> base, size |-> f.size, entry |-> f.entry, file |-> f.file, own |-> own,
   exports |-> Exports(f), bound |-> bound, imports |-> f.imports,
   resources |-> f.resources, whole |-> TRUE]

\* A host library that does not load may still serve its resources.
ResourceImage(f, base) ==
  [Image(f, base, f.preferred, <<>>) EXCEPT !.exports = {}, !.imports = <<>>, !.whole = FALSE]

(* resolve_import, register_symbol: a symbol nobody implements gets a      *)
(* thunk that does nothing, and is remembered.                             *)
ResolveThunk(h, lib, s) ==
  [h EXCEPT !.thunks = @ \cup {Thunk(lib, s)},
            !.unresolved = IF s \in Known \/ Thunk(lib, s) \in h.thunks THEN @
                           ELSE @ \cup {Thunk(lib, s)}]

Registered(h, names, base) ==
  LET keys == UNION {ToSet(LookupKeys(n)) : n \in names}
  IN  [h EXCEPT !.modules = [n \in keys |-> base] @@ @]

HandleOf(h, n) ==
  LET keys == SelectSeq(LookupKeys(n), LAMBDA k : k \in DOMAIN h.modules)
  IN  IF keys = <<>> THEN Null ELSE h.modules[Head(keys)]

WithImage(h, image) == [h EXCEPT !.images = (image.base :> image) @@ @]

LoadedExports(h, lib, s) ==
  IF lib \in DOMAIN h.modules /\ h.modules[lib] \in DOMAIN h.images
  THEN ResolveExport(h.images[h.modules[lib]], s) ELSE {}

----------------------------------------------------------------------------
(* Loading.  Every operator returns [ok, hle], and the image or the target *)
(* of an import.                                                           *)
RECURSIVE LoadDll(_, _), ResolveImport(_, _, _)

\* The element of a singleton.  (TLC evaluates it once, however often it is used.)
The(S) == CHOOSE x \in S : TRUE

Failed(h) == [ok |-> FALSE, hle |-> h, image |-> NoImage, target |-> NoAddress]

\* bind_imports: in the order of the import table, up to the first failure.
Bind(acc, i) ==
  IF ~acc.ok THEN acc
  ELSE The({[ok |-> r.ok, hle |-> r.hle, bound |-> Append(acc.bound, r.target)] :
              r \in {ResolveImport(acc.hle, i.lib, i.symbol)}})

BindImports(h, imports) ==
  FoldLeft(LAMBDA acc, i : The({Bind(a, i) : a \in {acc}}),
           [ok |-> TRUE, hle |-> h, bound |-> <<>>], imports)

\* load_pe32_relocatable_bytes, once the place is reserved and once bound.
Relocate(f, base, bound) ==
  IF ~bound.ok \/ ~(base = f.preferred \/ f.relocs) THEN Failed(bound.hle)
  ELSE [ok |-> TRUE, hle |-> bound.hle,
        image |-> Image(f, base, Relocated(f, base), bound.bound)]

LoadDll(h, f) ==
  LET room == AllocModuleImage(h, f)
  IN  IF ~f.pe \/ ~room.ok THEN Failed(h)
      ELSE The({Relocate(f, room.base, b) : b \in {BindImports(room.hle, f.imports)}})

LoadResources(h, f) ==
  LET room == AllocModuleImage(h, f)
  IN  IF ~f.pe \/ ~room.ok THEN Failed(h)
      ELSE [ok |-> TRUE, hle |-> room.hle, image |-> ResourceImage(f, room.base)]

\* The archive's file comes before the host's.
MountedFile(n) ==
  IF Path(n) \in virtual THEN {VirtualFiles[Path(n)]}
  ELSE IF Path(n) \in DOMAIN HostFiles THEN {HostFiles[Path(n)]} ELSE {}

IsLoaded(h, n) == n \in DOMAIN h.modules /\ h.modules[n] \in DOMAIN h.images

Mounted(r, n) ==
  IF ~r.ok THEN r
  ELSE [ok |-> TRUE,
        hle |-> WithImage([r.hle EXCEPT !.modules = [k \in {n, File(n)} |-> r.image.base] @@ @],
                          r.image)]

\* Mutation of LoadMounted: the library is known before its imports are bound.
LoadMountedEarly(h, n) ==
  IF IsLoaded(h, n) THEN [ok |-> TRUE, hle |-> h]
  ELSE IF MountedFile(n) = {} THEN Failed(h)
  ELSE LET f == The(MountedFile(n))
           room == AllocModuleImage(h, f)
           early == [ok |-> TRUE, hle |-> room.hle, image |-> Image(f, room.base, f.preferred, <<>>)]
       IN  IF ~f.pe \/ ~room.ok THEN Failed(h)
           ELSE The({Mounted(Relocate(f, room.base, b), n) :
                       b \in {BindImports(Mounted(early, n).hle, f.imports)}})

\* load_mounted_pe_module: a library is known once it is loaded.
LoadMounted(h, n) ==
  IF IsLoaded(h, n) THEN [ok |-> TRUE, hle |-> h]
  ELSE IF MountedFile(n) = {} THEN Failed(h)
  ELSE The({Mounted(r, n) : r \in {LoadDll(h, The(MountedFile(n)))}})

\* resolve_pe_import: an image that is loaded, the emulator, a mounted file.
ResolveImport(h, lib, s) ==
  LET Found(k) == LoadedExports(k, lib, s) # {}
      From(k) == [ok |-> TRUE, hle |-> k, target |-> Address(k.images[k.modules[lib]], s)]
  IN  IF Found(h) THEN From(h)
      ELSE IF IsRuntime(lib)
           THEN [ok |-> TRUE, hle |-> ResolveThunk(h, lib, s), target |-> Thunk(lib, s)]
      ELSE The({IF m.ok /\ Found(m.hle) THEN From(m.hle) ELSE Failed(m.hle) :
                  m \in {LoadMounted(h, lib)}})

\* check_strict_hle_imports
Refused(h) == h.strict /\ h.unresolved # {}

----------------------------------------------------------------------------
(* The start of the process.                                               *)

\* load_pe32_bytes: at the base the file asks for, without relocations.
LoadExecutable(h, f) ==
  LET room == ReserveModuleImage(h, f)
  IN  IF ~f.pe \/ ~room.ok THEN Failed(h)
      ELSE The({IF ~b.ok THEN Failed(b.hle)
                ELSE [ok |-> TRUE, hle |-> b.hle,
                      image |-> Image(f, room.base, f.preferred, b.bound)] :
                  b \in {BindImports(room.hle, f.imports)}})

\* bootstrap_process_strings: handles for libraries that are never loaded.
Bootstrapped(h, image) ==
  LET libs == SetToSeq(Preloaded)
      own == (image.file :> image.base)
      fakes == [n \in {Name(NoDir, libs[i], "dll") : i \in DOMAIN libs} |->
                  Fake(h.fakes + (CHOOSE i \in DOMAIN libs : libs[i] = n.stem))]
  IN  [h EXCEPT !.modules = own @@ fakes @@ @, !.fakes = @ + Len(libs)]

\* dll_process_attach_entries: by address.
AttachEntries(h) ==
  SetToSortSeq({b \in DOMAIN h.images : h.images[b].entry}, <)

ProcessAttach == 1
ExitProcess == -1           \* the address of its thunk
FreshStack == <<ExitProcess, 0, 0>>

(* One frame per DllMain: where it returns to, its three arguments.        *)
\* Mutation of AttachChain: every entry returns to the executable.
AttachChainShort(entries, start) ==
  FoldRight(LAMBDA b, acc : <<start, b, ProcessAttach, 0>> \o acc, entries, FreshStack)

AttachChain(entries, start) ==
  LET next(i) == IF i < Len(entries) THEN entries[i + 1] ELSE start
  IN  FlattenSeq([i \in DOMAIN entries |->
                    <<next(i), entries[i], ProcessAttach, 0>>]) \o FreshStack

Started(r) ==
  LET entries == AttachEntries(r.hle)
  IN  /\ hle' = Bootstrapped(r.hle, r.image) /\ exe' = r.image /\ status' = "running"
      /\ stack' = AttachChain(entries, r.image.base)
      /\ eip' = Head(Append(entries, r.image.base))
      /\ attached' = IF entries = <<>> THEN <<>> ELSE <<stack'[2]>>

LoadExe(f) ==
  /\ status = "loading"
  /\ \E r \in {LoadExecutable(hle, f)} :
       IF r.ok /\ ~Refused(r.hle) THEN Started(r)
       ELSE hle' = r.hle /\ status' = "failed" /\ UNCHANGED <<exe, stack, eip, attached>>
  /\ UNCHANGED <<virtual, cwd>>

\* A DllMain pops its return address and three arguments (external: guest code).
EntryReturns ==
  /\ eip # exe.base
  /\ eip' = Head(stack)
  /\ stack' = SubSeq(stack, 5, Len(stack))
  /\ attached' = IF eip' = exe.base THEN attached ELSE Append(attached, stack'[2])
  /\ UNCHANGED <<hle, virtual, cwd, exe, status>>

\* The executable's entry returns into the ExitProcess thunk.
ExeReturns ==
  /\ eip = exe.base /\ Head(stack) = ExitProcess
  /\ eip' = Null /\ stack' = Tail(stack) /\ status' = "exited"
  /\ UNCHANGED <<hle, virtual, cwd, exe, attached>>

----------------------------------------------------------------------------
(* Calls of the guest.                                                     *)

Calm == UNCHANGED <<virtual, cwd, exe, eip, stack, attached>>

\* One attempt of load_library_common: nothing happens once one succeeded.
Attempt(acc, n, load(_, _), files) ==
  IF acc.ok \/ Path(n) \notin DOMAIN files THEN acc
  ELSE The({[ok |-> r.ok, hle |-> r.hle, image |-> r.image, name |-> n] :
              r \in {load(acc.hle, files[Path(n)])}})

\* A library of the archive, of the host, of the host for its resources only.
Attempts(acc, n) ==
  The({The({Attempt(b, n, LoadResources, HostFiles) :
              b \in {Attempt(a, n, LoadDll, HostFiles)}}) :
         a \in {Attempt(acc, n, LoadDll, [p \in virtual |-> VirtualFiles[p]])}})

AttemptAll(h, n) ==
  FoldLeft(LAMBDA acc, k : The({Attempts(a, k) : a \in {acc}}),
           [ok |-> FALSE, hle |-> h, image |-> NoImage, name |-> n], LoadNames(n))

Loaded(r, n) == WithImage(Registered(r.hle, {n, r.name}, r.image.base), r.image)

(* LoadLibrary and LoadLibraryEx, A and W.  A library of the emulator gets *)
(* a handle when no file bears its name; else the call fails.              *)
LoadLibrary(n) ==
  /\ HandleOf(hle, n) = Null
  /\ \E r \in {AttemptAll(hle, n)} :
       \/ /\ r.ok
          /\ hle' = Loaded(r, n)
          /\ status' = IF Refused(hle') THEN "panicked" ELSE status
       \/ /\ ~r.ok
          /\ LET own == SelectSeq(LookupKeys(n), IsRuntime)
                 fake == Fake(r.hle.fakes + 1)
             IN  hle' = IF own = <<>> THEN r.hle
                        ELSE Registered([r.hle EXCEPT !.fakes = @ + 1], {n, Head(own)}, fake)
          /\ UNCHANGED status
  /\ Calm

\* GetModuleHandleEx(FROM_ADDRESS): the executable, then the libraries.
Covers(image, a) == image.base <= a /\ a < image.base + image.size
ModuleAt(a) ==
  LET there == {b \in DOMAIN hle.images : Covers(hle.images[b], a)}
  IN  IF Covers(exe, a) THEN exe.base
      ELSE IF there = {} THEN Null ELSE CHOOSE b \in there : TRUE

\* hle_runtime_module_for_handle
RuntimeOf(handle) == {n \in DOMAIN hle.modules : hle.modules[n] = handle /\ IsRuntime(n)}

\* GetProcAddress of an image: one of its exports, or none.
ExportOf(handle, s) ==
  LET image == IF handle = exe.base THEN exe ELSE hle.images[handle]
  IN  IF ResolveExport(image, s) = {} THEN NoAddress ELSE Address(image, s)

\* GetProcAddress of a library of the emulator: always a thunk.
GetProcAddress(handle, s) ==
  /\ handle \notin DOMAIN hle.images
  /\ \E n \in RuntimeOf(handle) : hle' = ResolveThunk(hle, n, s)
  /\ Calm /\ UNCHANGED status

(* FindResource: by type and name; of its languages English, or the first  *)
(* of the directory.  The null handle stands for the executable.           *)
English == "en"

FindResource(handle, key) ==
  LET image == IF handle \in {Null, exe.base} THEN exe ELSE hle.images[handle]
      found == SelectSeq(image.resources, LAMBDA r : r.key = key)
      english == SelectSeq(found, LAMBDA r : r.lang = English)
  IN  IF found = <<>> THEN {} ELSE {Head(english \o found)}

(* The guest unpacks or deletes a library, or changes its directory        *)
(* (external: the operations of Files).                                    *)
Quiet == UNCHANGED <<hle, exe, status, eip, stack, attached>>
WriteFile(p) == Quiet /\ virtual' = virtual \cup {p} /\ UNCHANGED cwd
DeleteFile(p) == Quiet /\ virtual' = virtual \ {p} /\ UNCHANGED cwd
SetCurrentDirectory(d) == Quiet /\ cwd' = d /\ UNCHANGED virtual

Init ==
  /\ hle \in {Empty(s) : s \in Strict} /\ virtual = DOMAIN VirtualFiles /\ cwd \in Directories
  /\ exe = NoImage /\ status = "loading" /\ eip = Null /\ stack = <<>>
  /\ attached = <<>>

GuestCall ==
  \/ \E n \in Asked : LoadLibrary(n)
  \/ \E k \in 1..hle.fakes, s \in Symbols : GetProcAddress(Fake(k), s)
  \/ \E p \in Unpacked : WriteFile(p) \/ DeleteFile(p)
  \/ \E d \in Directories : SetCurrentDirectory(d)

Next ==
  \/ \E f \in Executables : LoadExe(f)
  \/ status = "running" /\ (EntryReturns \/ ExeReturns \/ GuestCall)

Spec == Init /\ [][Next]_vars
----------------------------------------------------------------------------
(* Properties.                                                             *)

(* A library the guest can name is whole, however deep in the load of      *)
(* another it was loaded and whatever loads failed around it: its own      *)
(* pointers point into it, each of its imports is a thunk or what          *)
(* GetModuleHandle and GetProcAddress answer for the library and symbol it *)
(* names, its resources are found, its place is reserved and its addresses *)
(* name no other module.                                                   *)
BoundTo(target, import) ==
  \/ IsRuntime(import.lib) /\ target = Thunk(import.lib, import.symbol)
  \/ /\ target.module \in DOMAIN hle.images
     /\ File(hle.images[target.module].file) = File(import.lib)
     /\ target = ExportOf(HandleOf(hle, import.lib), import.symbol)

Whole(image) ==
  /\ Len(image.bound) = Len(image.imports)
  /\ \A i \in DOMAIN image.bound : BoundTo(image.bound[i], image.imports[i])
  /\ image.own = image.base
  /\ \A r \in ToSet(image.resources) :
       \E x \in FindResource(image.base, r.key) : r.lang = English => x.lang = English
  /\ Place(image, image.base) \in hle.arena
  /\ \A a \in image.base .. image.base + image.size - 1 : ModuleAt(a) = image.base

ImagesWhole ==
  status = "running" =>
    /\ Whole(exe)
    /\ \A b \in DOMAIN hle.images : hle.images[b].whole => Whole(hle.images[b])

(* A library has one image: no two have the same file name, each is found  *)
(* by its own, and what a name has once meant to the guest it means until  *)
(* the end, whichever of its spellings, imports, directories and failed    *)
(* loads come in between.                                                  *)
OneImageEach ==
  \A b, c \in DOMAIN hle.images :
    /\ b # c => File(hle.images[b].file) # File(hle.images[c].file)
    /\ HandleOf(hle, File(hle.images[b].file)) = b

NamesKept == \A n \in DOMAIN hle.modules : hle'.modules[n] = hle.modules[n]

LibrariesOnce ==
  [][status' = "running" => OneImageEach' /\ (status = "running" => NamesKept)]_vars

(* When the executable's entry is reached, every library it needs that has *)
(* an entry was attached, once, in address order, and the stack is the one *)
(* a process without libraries starts with.                                *)
Needed ==
  LET of(image) == {t.module : t \in ToSet(image.bound)} \ {Null}
      up[k \in 0 .. Cardinality(DOMAIN hle.images)] ==
        IF k = 0 THEN of(exe) ELSE up[k - 1] \cup UNION {of(hle.images[b]) : b \in up[k - 1]}
  IN  up[Cardinality(DOMAIN hle.images)]

AttachRunsAll ==
  (status = "running" /\ eip = exe.base) =>
    /\ stack = FreshStack
    /\ attached = SetToSortSeq({b \in Needed : hle.images[b].entry}, <)
=============================================================================
