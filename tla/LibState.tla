------------------------------ MODULE LibState -------------------------------
(***************************************************************************)
(* The state shared by the modules about the system's sequential           *)
(* libraries: one data structure, lib, as the code keeps it, and ref, what *)
(* the calls so far should have made of it, in the simplest form.  The     *)
(* field kind of lib says which structure the instance is about.           *)
(***************************************************************************)
EXTENDS Naturals, Sequences, FiniteSets, SequencesExt

VARIABLES lib, ref

vars == <<lib, ref>>

Becomes(new, newref) == lib' = new /\ ref' = newref

\* A list without the elements of out, in order.
Unlisted(list, out) ==
    LET kept[n \in 0..Len(list)] ==
            IF n = 0 THEN <<>>
            ELSE IF list[n] \in out THEN kept[n - 1] ELSE Append(kept[n - 1], list[n])
    IN  kept[Len(list)]

=============================================================================
