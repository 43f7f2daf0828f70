------------------------------ MODULE MCLoader ------------------------------
(* A TLC instance of Loader: executables and libraries that share a base,  *)
(* import each other, in a circle too, cannot be relocated, are broken,    *)
(* exist in two directories, or bear the name of a library of the emulator.*)
EXTENDS Loader, TLC

Dll(dir, stem) == Name(dir, stem, "dll")
Import(stem, s) == [lib |-> Dll(NoDir, stem), symbol |-> s]
Export(name, ordinal) == [name |-> name, ordinal |-> ordinal, forwarded |-> FALSE]
Both == {Export("f", "#1"), Export("g", "#2"),
         [name |-> "h", ordinal |-> "#3", forwarded |-> TRUE]}
Menus == <<[key |-> "menu", lang |-> "de"], [key |-> "menu", lang |-> "en"],
           [key |-> "icon", lang |-> "de"]>>

Pe(file, preferred, imports) ==
  [file |-> file, pe |-> TRUE, size |-> 1, preferred |-> preferred, imports |-> imports,
   relocs |-> TRUE, exports |-> Both, entry |-> TRUE, resources |-> Menus]
Text(file) == [Pe(file, 1, <<>>) EXCEPT !.pe = FALSE]

Exe(preferred, imports) == [Pe(Name("game", "game", "exe"), preferred, imports) EXCEPT !.size = 2]

Programs == {
  Exe(1, <<Import("a", "f"), Import("kernel", "f")>>),
  Exe(3, <<Import("b", "#2"), Import("advapi", "f")>>),
  Exe(1, <<Import("c", "f")>>),
  Exe(1, <<Import("a", "h")>>)}

\* a needs b at the same preferred base; c and d need each other; a wrapper.
Archive ==
  LET files == {
        Pe(Dll("game", "a"), 4, <<Import("b", "f"), Import("kernel", "g")>>),
        Pe(Dll("game", "b"), 4, <<>>),
        Pe(Dll("sub", "b"), 5, <<Import("kernel", "f")>>),
        Pe(Dll("game", "c"), 4, <<Import("d", "f")>>),
        Pe(Dll("game", "advapi"), 4, <<Import("kernel", "f"), Import("e", "f")>>)}
  IN  [p \in {f.file : f \in files} |-> CHOOSE f \in files : f.file = p]

Host ==
  LET files == {
        [Pe(Dll("game", "d"), 5, <<Import("c", "f")>>) EXCEPT !.entry = FALSE],
        [Pe(Dll("game", "e"), 6, <<>>) EXCEPT !.relocs = FALSE],
        Text(Dll("game", "t")), Text(Dll("game", "b"))}
  IN  [p \in {f.file : f \in files} |-> CHOOSE f \in files : f.file = p]

Deleted == {Dll("game", "b"), Dll("sub", "b")}

Wanted == {Dll(NoDir, "a"), Name(NoDir, "b", ""), Dll("sub", "b"), Dll(NoDir, "c"),
           Name(NoDir, "e", ""), Dll(NoDir, "t"), Dll(NoDir, "advapi"), Dll(NoDir, "kernel")}
=============================================================================
