----------------------------- MODULE MCOrganizer -----------------------------
(***************************************************************************)
(* A small instance of Organizer, and the algorithms of ProfileOrder over  *)
(* all inputs of a small size.                                             *)
(***************************************************************************)
EXTENDS Organizer

CONSTANTS
  LayoutMods,  \* the mods of the files that are laid out
  MovedMods,   \* the mods of the lists that are reordered
  SectionMods, \* the mods of the lists with sections
  MaxLines     \* bound on the length of the files, that of FileFlags at most

\* The overwrite directory is in every list, as it is in the collection.
ASSUME InstanceAssumption ==
  /\ LayoutMods \subseteq Mods /\ IsFiniteSet(LayoutMods)
  /\ MovedMods \subseteq Mods /\ IsFiniteSet(MovedMods) /\ Overwrite \in MovedMods
  /\ SectionMods \subseteq Mods /\ IsFiniteSet(SectionMods) /\ Overwrite \in SectionMods
  /\ MaxLines \in 1..3

FileLine(m, on) == [mod |-> m, on |-> on]

FileFlags == <<TRUE, FALSE, TRUE>>

MCFirstLists == {<<FileLine(6, TRUE), FileLine(1, TRUE)>>}

\* Short files with any flags, longer ones with the flags of FileFlags.
Files ==
  BoundedSeq({FileLine(m, on) : m \in LayoutMods, on \in BOOLEAN}, MaxLines - 1) \cup
  {[k \in DOMAIN mods |-> FileLine(mods[k], FileFlags[k])] : mods \in [1..MaxLines -> LayoutMods]}

Collections == {Collection(mods \cup {Overwrite}) : mods \in SUBSET LayoutMods}

\* The profile of every order of the mods.
Profiles(mods) ==
  LET managed == Managed(mods)
      orders == {f \in [1..Cardinality(managed) -> managed] : IsInjective(f)}
  IN {RefreshModStatus([k \in DOMAIN f |-> FileLine(f[k], TRUE)], mods).profile : f \in orders}

\* Any file, with any mods there are, gives the order that is promised.
LayingOut == \A file \in Files, mods \in Collections : LaidOut(file, mods)

\* Any mods dropped anywhere.
Dropping ==
  LET mods == Collection(MovedMods)
  IN \A profile \in Profiles(mods), dropped \in (SUBSET Managed(mods)) \ {{}},
        target \in 0..MaximumPriority(mods) :
       LET indices == {Index(mods, m) : m \in dropped}
           after == ChangeModPriority(profile, mods, indices, target)
       IN Order(after, mods) = DroppedOrder(profile, mods, dropped, target)

\* Any mod given any priority.
Placing ==
  LET mods == Collection(MovedMods)
  IN \A profile \in Profiles(mods), m \in Managed(mods), target \in -1..MaximumPriority(mods) :
       LET after == SetModPriority(profile, mods, Index(mods, m), target).profile
       IN Order(after, mods) = PlacedOrder(profile, mods, m, target)

\* Any mods sent to any section end up in it. Two cases differ in the code: a
\* single mod that is in the section already leaves it, and in descending order
\* the section of a separator with priority 0 is looked for past the end.
Sending ==
  LET mods == Collection(SectionMods)
      plain == Managed(mods) \ Separators
  IN \A profile \in Profiles(mods), sent \in (SUBSET plain) \ {{}},
        s \in Separators \cap SectionMods, ascending \in BOOLEAN :
       \/ ~ascending /\ Place(profile, mods, s) = 0
       \/ \E m \in sent : sent = {m} /\ Section(profile, mods, m, ascending) = {s}
       \/ \A after \in SendModsToSeparator(profile, mods, {Index(mods, m) : m \in sent},
                                           Index(mods, s), ascending) :
            \A m \in sent : Section(after, mods, m, ascending) = {s}

\* Any mods shifted by one, unless one of them is at the end of the list.
Shifting ==
  LET mods == Collection(MovedMods)
  IN \A profile \in Profiles(mods), shifted \in (SUBSET Managed(mods)) \ {{}}, by \in {-1, 1} :
       LET after == ShiftModsPriority(profile, mods, {Index(mods, m) : m \in shifted}, by)
           limit == IF by > 0 THEN Cardinality(Managed(mods)) - 1 ELSE 0
       IN \/ \E m \in shifted : Place(profile, mods, m) = limit
          \/ \A m \in shifted : Place(after, mods, m) = Place(profile, mods, m) + by

Reordering == Dropping /\ Placing /\ Sending /\ Shifting

\* Whatever is in modlist.txt, refreshModStatus makes one order of it with no gap:
\* the mods of the file as they are there, new DLC mods below, other new mods
\* above, backups and overwrite last; what doWriteModlist writes of it reads back
\* the same. The formula has no variables: it is asked where a behavior starts.
AnyFileIsLaidOut == commands = 0 => LayingOut

\* The calls that reorder mods do what the user means by them: mods that are
\* dropped come together and keep their order (changeModPriority), a mod that is
\* placed leaves the others in order (setModPriority), mods sent to a separator
\* are in its section (sendModsToSeparator), mods that are shifted all move.
ReordersAsAsked == commands = 0 => Reordering
=============================================================================
