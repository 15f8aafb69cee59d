-------------------------------- MODULE Users --------------------------------
(***************************************************************************)
(* The user types of web/satellite/src/types/users.ts: the User the       *)
(* dashboard holds, and the UpdatedUser a profile form edits and submits. *)
(* The form component and UsersApi's implementation are not in the       *)
(* repository; they are the environment here: the form is opened with the *)
(* user's names, its setters run on whatever the user typed, and it is    *)
(* submitted only when isValid() holds, after which the user carries the  *)
(* submitted names.                                                        *)
(***************************************************************************)
EXTENDS Integers, Sequences
LOCAL INSTANCE SequencesExt

CONSTANTS
    Typed,      \* texts the user may type into a name field
    CreatedIn   \* what the backend sends as createdAt: "null", "", a date
                \* text ("date") or text that is not a date ("text")

NoForm == [open |-> FALSE]

VARIABLES
    user,   \* the User: fullName, shortName, _createdAt
    form    \* the UpdatedUser being edited, or NoForm

vars == <<user, form>>

(* String.prototype.trim: white space removed at both ends. *)
RECURSIVE TrimStart(_)
TrimStart(s) == IF s # << >> /\ Head(s) = " " THEN TrimStart(Tail(s)) ELSE s
Trim(s) == Reverse(TrimStart(Reverse(TrimStart(s))))

(* ---- User (users.ts 59-95) ---- *)
User(fullName, shortName, _createdAt) ==
    [fullName |-> fullName, shortName |-> shortName, _createdAt |-> _createdAt]

(* Mutant: the 'Invalid' test dropped, an Invalid Date handed out. *)
createdAtUnchecked(u) == IF u._createdAt \in {"null", ""} THEN "null" ELSE u._createdAt

(* null for a falsy text, and for a text that new Date() cannot read *)
(* (its toString() is "Invalid Date"); otherwise the Date.            *)
createdAt(u) ==
    IF u._createdAt \in {"null", ""} THEN "null"
    ELSE IF u._createdAt = "text" THEN "null"
    ELSE u._createdAt

getFullName(u) == IF u.shortName = << >> THEN u.fullName ELSE u.shortName

(* ---- UpdatedUser (users.ts 100-117) ---- *)
UpdatedUser(fullName, shortName) ==
    [open |-> TRUE, fullName |-> fullName, shortName |-> shortName]

(* Mutant: setShortName stores the value untrimmed. *)
setShortNameUntrimmed(f, value) == [f EXCEPT !.shortName = value]

setFullName(f, value) == [f EXCEPT !.fullName = Trim(value)]

setShortName(f, value) == [f EXCEPT !.shortName = Trim(value)]

isValid(f) == f.fullName # << >>

(***************************************************************************)
(* Actions                                                                 *)
(***************************************************************************)

(* The form is opened on the user's current names. *)
OpenForm ==
    /\ ~form.open
    /\ form' = UpdatedUser(user.fullName, user.shortName)
    /\ UNCHANGED user

SetFullName ==
    /\ form.open
    /\ \E v \in Typed : form' = setFullName(form, v)
    /\ UNCHANGED user

SetShortName ==
    /\ form.open
    /\ \E v \in Typed : form' = setShortName(form, v)
    /\ UNCHANGED user

(* UsersApi.update(form) succeeded: the user now has the submitted names. *)
Submit ==
    /\ form.open
    /\ isValid(form)
    /\ user' = [user EXCEPT !.fullName = form.fullName,
                            !.shortName = form.shortName]
    /\ form' = NoForm

(* The form is closed without submitting. *)
Cancel ==
    /\ form.open
    /\ form' = NoForm
    /\ UNCHANGED user

(* UsersApi.get(): the user as the backend keeps it. Its names are ones a *)
(* form submitted, or a registration that validates the same way.        *)
Names == {Trim(v) : v \in Typed}

Init ==
    /\ user \in {User(f, s, c) : f \in Names \ {<< >>}, s \in Names, c \in CreatedIn}
    /\ form = NoForm

Next == OpenForm \/ SetFullName \/ SetShortName \/ Submit \/ Cancel

Spec == Init /\ [][Next]_vars

(***************************************************************************)
(* Properties                                                              *)
(***************************************************************************)

NonBlank(s) == \E i \in DOMAIN s : s[i] # " "

(* User's fields have their types; createdAt is null or a readable date, *)
(* never an Invalid Date.                                                *)
TypeOK ==
    /\ user.fullName \in Seq({" ", "a"}) /\ user.shortName \in Seq({" ", "a"})
    /\ createdAt(user) \in {"null", "date"}
    /\ form = NoForm \/ form.open

(* The name the dashboard shows, getFullName(), is never blank, however  *)
(* the user edited the form: setFullName/setShortName trim, isValid()    *)
(* refuses a blank full name, and a blank short name falls back to the   *)
(* full name.                                                             *)
DisplayedNameNotBlank == NonBlank(getFullName(user))
=============================================================================
