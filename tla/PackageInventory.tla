-------------------------- MODULE PackageInventory --------------------------
(***************************************************************************)
(* The pure half of dependency tracking (relay/depcheck.py and the parts   *)
(* of depcheck/edy-rdp-depsnapshot.py that compute): versions, the tracked *)
(* set of requires.txt and the difference between two inventories.         *)
(*                                                                         *)
(* An inventory is the sequence of packages in the order the package       *)
(* manager lists them.  A version string is a record: its Debian epoch,    *)
(* the leading dotted number as a sequence, and whatever follows.          *)
(***************************************************************************)
EXTENDS Integers, Sequences, FiniteSets

CONSTANTS
  Required,    \* the names requires.txt lists
  Minimum,     \* name -> the dotted minimum it states
  Candidates,  \* name -> the distro packages behind it, in order
  None

DottedNumber == Seq(Nat)

ASSUME RequirementsAssumption ==
  /\ IsFiniteSet(Required)
  /\ Minimum \in [Required -> DottedNumber]
  /\ \A r \in Required : Candidates[r] # <<>> /\ DOMAIN Candidates[r] \subseteq Nat

-----------------------------------------------------------------------------
(* Versions. *)

(* The leading dotted-numeric part; an epoch is dropped first. *)
NormVersion(v) == v.number

(* The shorter of two dotted numbers is padded with zeros. *)
Component(n, i) == IF i \in DOMAIN n THEN n[i] ELSE 0
Longer(m, n)    == IF Len(m) < Len(n) THEN Len(n) ELSE Len(m)

AtLeast_NoPadding(m, n) ==
  \/ Len(m) >= Len(n) /\ \A i \in DOMAIN n : m[i] = n[i]
  \/ \E i \in DOMAIN m \cap DOMAIN n :
       m[i] > n[i] /\ \A j \in 1..(i - 1) : m[j] = n[j]

AtLeast(m, n) ==
  \/ \A i \in 1..Longer(m, n) : Component(m, i) = Component(n, i)
  \/ \E i \in 1..Longer(m, n) :
       /\ Component(m, i) > Component(n, i)
       /\ \A j \in 1..(i - 1) : Component(m, j) = Component(n, j)

(* What two dotted numbers are worth when their components are read as the *)
(* digits of one number each, in a base above all of them: the reference   *)
(* for AtLeast.                                                            *)
Worth(n, base, len) ==
  LET worth[k \in 0..len] == IF k = 0 THEN 0 ELSE base * worth[k - 1] + Component(n, k)
  IN  worth[len]

Components(n) == {0} \cup {n[i] : i \in DOMAIN n}

BaseFor(m, n) ==
  LET cs == Components(m) \cup Components(n)
  IN  1 + CHOOSE c \in cs : \A d \in cs : d <= c

WorthAsMuch(m, n) ==
  Worth(m, BaseFor(m, n), Longer(m, n)) >= Worth(n, BaseFor(m, n), Longer(m, n))

(* A version without a numeric part meets no minimum, not even none. *)
VersionGe(have, minimum) ==
  NormVersion(have) # <<>> /\ AtLeast(NormVersion(have), minimum)

-----------------------------------------------------------------------------
(* Inventories. *)

PkgKey_NameOnly(p) == <<p.name, "any">>

(* A name is installed once per architecture on a multi-arch host. *)
PkgKey(p) == <<p.name, p.arch>>

Keys(inv) == {PkgKey(inv[i]) : i \in DOMAIN inv}

(* A dict comprehension keeps the last entry of a key. *)
Last(inv, Is(_)) ==
  inv[CHOOSE i \in DOMAIN inv : /\ Is(inv[i])
                                /\ \A j \in DOMAIN inv : Is(inv[j]) => j <= i]

ByKey(inv) == [k \in Keys(inv) |-> Last(inv, LAMBDA p : PkgKey(p) = k)]

Added(older, newer)   == Keys(newer) \ Keys(older)
Removed(older, newer) == Keys(older) \ Keys(newer)
Changed(older, newer) ==
  {k \in Keys(older) \cap Keys(newer) :
     ByKey(older)[k].version # ByKey(newer)[k].version}

(* diff_snapshots, as cmd_snapshot uses it: did anything change at all? *)
Differs(older, newer) ==
  Added(older, newer) \cup Removed(older, newer) \cup Changed(older, newer) # {}

Names(inv)       == {inv[i].name : i \in DOMAIN inv}
Named(inv, name) == Last(inv, LAMBDA p : p.name = name)

-----------------------------------------------------------------------------
(* build_tracked: the first candidate that is installed stands for the     *)
(* requirement, and its version is held against the minimum.               *)
Present(inv, r) == {i \in DOMAIN Candidates[r] : Candidates[r][i] \in Names(inv)}
DistroPkg(inv, r) ==
  IF Present(inv, r) = {} THEN None
  ELSE Candidates[r][CHOOSE i \in Present(inv, r) : \A j \in Present(inv, r) : i <= j]

Compliant(inv, r) ==
  /\ DistroPkg(inv, r) # None
  /\ VersionGe(Named(inv, DistroPkg(inv, r)).version, Minimum[r])

Noncompliant(inv) == Cardinality({r \in Required : ~Compliant(inv, r)})
=============================================================================
