------------------------- MODULE MCDirectoryStructure -------------------------
(***************************************************************************)
(* Small instances of DirectoryStructure: three mods and the data          *)
(* directory, one contested file and one that cleanStructure takes out.    *)
(***************************************************************************)
EXTENDS DirectoryStructure, TLC

CONSTANTS a, b, c, f, meta

\* The plugin of a loads after that of c, the archive of b has no plugin.
MCArchiveOrder == [m \in Mods |-> CASE m = a -> 1 [] m = b -> -1 [] OTHER -> 0]

None     == [loose |-> {}, archived |-> {}]
Loose    == [loose |-> {f}, archived |-> {}]
Noisy    == [loose |-> {f, meta}, archived |-> {}]
Archived == [loose |-> {meta}, archived |-> {f}]
Both     == [loose |-> {f}, archived |-> {f}]

\* Each mod ships the file in one way only, or not at all.
OneWay ==
  {a :> x @@ b :> y @@ c :> z @@ Data :> None :
     x \in {Noisy, Archived}, y \in {Loose, Archived}, z \in {Loose, Archived}}

\* One mod ships the file loose and once more in its archive.
TwoWays ==
  {a :> x @@ b :> Both @@ c :> z @@ Data :> Loose :
     x \in {Loose, Archived}, z \in {Loose, Archived}}

Either == OneWay \cup TwoWays

\* A file that one mod ships twice is only read: what a change makes of it then
\* is another question (DisableTwoWays.cfg).
TwiceIsOnlyRead == content \in TwoWays => changes' = changes
=============================================================================
