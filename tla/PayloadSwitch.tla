--------------------------- MODULE PayloadSwitch ---------------------------
(***************************************************************************)
(* What the self-update promises about the payloads of a host, without its *)
(* symlinks and exit codes: one script at a time changes them              *)
(* (exclusive_run), what is installed is neither removed nor damaged and   *)
(* only gives way to a payload that is there, and an operator's rollback   *)
(* does not guess (rollback_candidate: "Refuses (does not guess)").        *)
(* Nothing says that what a rollback goes to is complete.  SelfUpdate      *)
(* implements this module.                                                 *)
(***************************************************************************)
CONSTANTS Dirs, Scripts, None

VARIABLES
  payloads,   \* payload directories on disk
  complete,   \* those that have all their files
  installed,  \* the one installed last, None: it does not tell its version
  holder      \* the script that may change them

switchVars == <<payloads, complete, installed, holder>>

Init == /\ \E d \in Dirs : payloads = {d} /\ installed = d
        /\ complete = payloads
        /\ holder = None

Enter(p) == /\ holder = None /\ holder' = p
            /\ UNCHANGED <<payloads, complete, installed>>

(* At its end, or killed; a script may be killed at any step it takes.     *)
MayEnd == holder' \in {holder, None}
Leave  == /\ holder # None /\ MayEnd
          /\ UNCHANGED <<payloads, complete, installed>>

(* A deployment copies its release, renames the copy, replaces a payload   *)
(* and prunes old ones.  A copy or a removal may stay half done.           *)
Add(d) == /\ holder = "apply" /\ d # installed
          /\ payloads' = payloads \cup {d}
          /\ complete' \in {complete \ {d}, complete \cup {d}}
          /\ UNCHANGED installed /\ MayEnd

Discard(d) == /\ holder = "apply" /\ d # installed
              /\ payloads' \in {payloads, payloads \ {d}}
              /\ complete' = complete \ {d}
              /\ UNCHANGED installed /\ MayEnd

Rename(d, e) == /\ holder = "apply" /\ installed \notin {d, e}
                /\ d \in complete
                /\ payloads' = (payloads \ {d}) \cup {e}
                /\ complete' = (complete \ {d}) \cup {e}
                /\ UNCHANGED installed /\ MayEnd

(* rollback only goes to the one payload there is beside another; one that *)
(* is not complete may be installed without telling its version.           *)
Switch(d) == /\ holder # None /\ d \in payloads
             /\ holder = "rollback" => \E e \in Dirs : payloads \subseteq {d, e}
             /\ installed' = d \/ (d \notin complete /\ installed' = None)
             /\ UNCHANGED <<payloads, complete>> /\ MayEnd

Next == \/ Leave
        \/ \E p \in Scripts : Enter(p)
        \/ \E d \in Dirs : Add(d) \/ Discard(d) \/ Switch(d)
        \/ \E d, e \in Dirs : Rename(d, e)

Spec == Init /\ [][Next]_switchVars
=============================================================================
