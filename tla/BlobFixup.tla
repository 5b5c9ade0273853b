------------------------------ MODULE BlobFixup ------------------------------
(***************************************************************************)
(* The fixups of the vendor's prebuilt libraries: extract-files.sh copies  *)
(* a library out of a firmware and blob_fixup runs one of the scripts in   *)
(* patches/ on it.  A script reads the whole file, checks and replaces the *)
(* bytes of its sites in memory, and writes the file back in place, so an  *)
(* interruption of the write leaves a prefix of it.  The fixup may be run  *)
(* again on whatever an earlier run left.                                  *)
(*                                                                         *)
(* A file is the sequence of its sites and, behind the last of them, the   *)
(* rest; a prefix of it lacks the rest, and maybe sites.                   *)
(***************************************************************************)
EXTENDS Naturals, Sequences

CONSTANTS
    Sites   \* the number of entries of PATCHES

ASSUME SitesAssumption == Sites \in Nat \ {0}

VARIABLES
    library,    \* which library, and so which script: "audio" or "ril"
    file,       \* the library in the vendor tree
    data,       \* what the script has of it in memory
    script      \* where the script is

fixupVars == <<library, file, data, script>>

-----------------------------------------------------------------------------
(* The bytes of a site: those of the known firmware, the replacement, or      *)
(* those of another firmware.                                                 *)
Bytes == {"old", "new", "other"}

Rest == "rest"

Library(bytes) == [i \in 1..(Sites + 1) |-> IF i \in 1..Sites THEN bytes[i] ELSE Rest]

Stock == Library([i \in 1..Sites |-> "old"])
Fixed == Library([i \in 1..Sites |-> "new"])

Whole(f) == Len(f) = Sites + 1

(* The bytes found where a site should be; none behind the end of the file.   *)
At(f, i) == IF i \in DOMAIN f THEN f[i] ELSE "none"

Running == script \in {"patch", "open", "write"}

(* extract copies the library, of the known firmware or of another one in     *)
(* which a site may differ, over what is there.                               *)
Extract ==
    /\ ~Running
    /\ \E site \in 0..Sites :
         file' = Library([i \in 1..Sites |-> IF i = site THEN "other" ELSE "old"])
    /\ script' = "extracted"
    /\ UNCHANGED <<library, data>>

(* blob_fixup starts the script, which reads the file. *)
StartFixup ==
    /\ script \in {"extracted", "done", "failed"}
    /\ data' = file
    /\ script' = "patch"
    /\ UNCHANGED <<library, file>>

(* Mutant of Accepted: a site that holds neither is left as it is. *)
AcceptedAnyway(i) == TRUE

(* A site that was patched before is passed over, except by patch_sec_ril.py, *)
(* which searches for the old bytes and must find them.                       *)
Accepted(i) == At(data, i) = "old" \/ (At(data, i) = "new" /\ library = "audio")

(* A site is not what it must be: SystemExit, or a failed assertion. *)
Refuse ==
    /\ script = "patch"
    /\ \E i \in 1..Sites : ~Accepted(i)
    /\ script' = "failed" /\ data' = <<>>
    /\ UNCHANGED <<library, file>>

Patch ==
    /\ script = "patch"
    /\ \A i \in 1..Sites : Accepted(i)
    /\ data' = [i \in DOMAIN data |-> IF At(data, i) = "old" THEN "new" ELSE data[i]]
    /\ script' = "open"
    /\ UNCHANGED <<library, file>>

(* open(path, 'wb') *)
Truncate ==
    /\ script = "open"
    /\ file' = <<>>
    /\ script' = "write"
    /\ UNCHANGED <<library, data>>

(* f.write(data), as far as it came. *)
Write ==
    /\ script = "write"
    /\ \E n \in 1..Len(data) : n > Len(file) /\ file' = SubSeq(data, 1, n)
    /\ IF Len(file') = Len(data) THEN script' = "done" /\ data' = <<>>
       ELSE UNCHANGED <<script, data>>
    /\ UNCHANGED library

(* The script is interrupted, or the disk is full. *)
Interrupt ==
    /\ Running
    /\ script' = "failed" /\ data' = <<>>
    /\ UNCHANGED <<library, file>>

FixupInit ==
    /\ library \in {"audio", "ril"}
    /\ file = <<>> /\ data = <<>> /\ script = "none"

Fixup == Extract \/ StartFixup \/ Refuse \/ Patch \/ Truncate \/ Write \/ Interrupt

FixupSpec == FixupInit /\ [][Fixup]_fixupVars

-----------------------------------------------------------------------------
(* Properties. *)

(* A library is never half patched: whatever was interrupted or run again, a *)
(* whole file is the library as it was extracted or the fixed one, never one *)
(* with some sites replaced.  Only a prefix can be left otherwise.           *)
NeverHalfPatched ==
    Whole(file) => file = Fixed \/ \A i \in 1..Sites : file[i] # "new"

=============================================================================
