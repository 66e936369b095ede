--------------------------- MODULE MCStartupProbe ---------------------------
(***************************************************************************)
(* A pool of four: two profiles share a name and one has none.             *)
(***************************************************************************)
EXTENDS StartupProbe

CONSTANTS dev01, dev02, blank, stranger

Device(name, id) == [name |-> name, device |-> id]

MCProfiles ==
  [i \in 0 .. 3 |-> CASE i = 0 -> Device(dev01, 1)
                     [] i = 1 -> Device(blank, 2)
                     [] i = 2 -> Device(dev02, 3)
                     [] i = 3 -> Device(dev01, 4)]

MCDefaultProfile == Device(dev01, 0)

\* Left out; only its name shared with the pool; given without a name; in the
\* pool, but behind another of its name; unknown to the pool.
MCFileProfiles ==
  {MCDefaultProfile, Device(dev02, 9), Device(blank, 7), Device(dev01, 4),
   Device(stranger, 8)}

MCStartupNames == {blank, dev02}

MCBootProfiles ==
  {BootProfile(profile, startupName) :
     profile \in MCFileProfiles, startupName \in MCStartupNames}
=============================================================================
