--------------------------------- MODULE Staff ---------------------------------
(***************************************************************************)
(* The workers of a club: who works, from which devices, and the shifts    *)
(* they open.  ClubWorkersService.  startShift reads the worker and the    *)
(* device before its transaction, and the transaction reads whether a      *)
(* shift is open before it opens one, with no lock: it stops between.      *)
(*                                                                         *)
(* A definition under "Bug:" is used by no other: it takes the place of    *)
(* the one after it to show that a property notices the bug.               *)
(***************************************************************************)
EXTENDS Integers, FiniteSets

CONSTANTS
    Workers,        \* users that may work in the club
    WorkDevices,    \* fingerprints
    Shifts,         \* WorkerShift rows that may be created
    Starters,       \* startShift requests being served
    MaxHires        \* bound on the registrations of a worker

ASSUME StaffAssumption == MaxHires \in Nat

VARIABLES
    worker,         \* ClubWorker: its status and which registration it is
    staffRole,      \* User.role
    workDevice,     \* status of a WorkerAuthorizedDevice
    shift,          \* a WorkerShift: of, device, status
    starter,        \* what a request does, and what it read
    slipped         \* shifts opened although what was read had changed

staffVars == <<worker, staffRole, workDevice, shift, starter, slipped>>

WorkerStatuses == {"NONE", "ACTIVE", "INACTIVE"}
DeviceStatuses == {"NONE", "AUTHORIZED", "REVOKED"}
ShiftStatuses  == {"NONE", "ACTIVE", "CLOSED", "REVOKED"}

NoShift == [of |-> CHOOSE w \in Workers : TRUE, device |-> CHOOSE d \in WorkDevices : TRUE,
            status |-> "NONE"]
NoStart == [pc |-> "idle", of |-> NoShift.of, device |-> NoShift.device, hire |-> 0, fit |-> FALSE]

Fit(w, d)     == worker[w].status = "ACTIVE" /\ workDevice[w][d] = "AUTHORIZED"
OpenShifts(w) == {s \in Shifts : shift[s].of = w /\ shift[s].status = "ACTIVE"}

StaffInit ==
    /\ worker = [w \in Workers |-> [status |-> "NONE", hire |-> 0]]
    /\ staffRole = [w \in Workers |-> "CUSTOMER"]
    /\ workDevice = [w \in Workers |-> [d \in WorkDevices |-> "NONE"]]
    /\ shift = [s \in Shifts |-> NoShift]
    /\ starter = [h \in Starters |-> NoStart]
    /\ slipped = {}

-----------------------------------------------------------------------------
(* What the administrator does.                                            *)

RegisterWorker(w) ==
    /\ worker[w].status = "NONE" /\ worker[w].hire < MaxHires
    /\ worker' = [worker EXCEPT ![w] = [status |-> "ACTIVE", hire |-> @.hire + 1]]
    /\ staffRole' = [staffRole EXCEPT ![w] = "WORKER"]
    /\ UNCHANGED <<workDevice, shift, starter, slipped>>

\* Bug: the shifts of who stops working stay open.
ShiftsStay(gone) == shift

\* The open shifts in "gone" are revoked.
ShiftsRevoked(gone) ==
    [s \in Shifts |-> IF s \in gone /\ shift[s].status = "ACTIVE"
                      THEN [shift[s] EXCEPT !.status = "REVOKED"] ELSE shift[s]]

UpdateWorker(w, status) ==
    /\ worker[w].status # "NONE"
    /\ worker' = [worker EXCEPT ![w].status = status]
    /\ shift' = IF status = "INACTIVE" THEN ShiftsRevoked(OpenShifts(w)) ELSE shift
    /\ UNCHANGED <<staffRole, workDevice, starter, slipped>>

\* The shifts and the devices go with the row; the role of the user stays.
RemoveWorker(w) ==
    /\ worker[w].status # "NONE"
    /\ worker' = [worker EXCEPT ![w].status = "NONE"]
    /\ shift' = [s \in Shifts |-> IF shift[s].of = w THEN NoShift ELSE shift[s]]
    /\ workDevice' = [workDevice EXCEPT ![w] = [d \in WorkDevices |-> "NONE"]]
    /\ slipped' = {s \in slipped : shift[s].of # w}
    /\ UNCHANGED <<staffRole, starter>>

AuthorizeDevice(w, d) ==
    /\ worker[w].status # "NONE"
    /\ workDevice' = [workDevice EXCEPT ![w][d] = "AUTHORIZED"]
    /\ UNCHANGED <<worker, staffRole, shift, starter, slipped>>

RevokeDevice(w, d) ==
    /\ worker[w].status # "NONE" /\ workDevice[w][d] = "AUTHORIZED"
    /\ workDevice' = [workDevice EXCEPT ![w][d] = "REVOKED"]
    /\ shift' = ShiftsRevoked({s \in OpenShifts(w) : shift[s].device = d})
    /\ UNCHANGED <<worker, staffRole, starter, slipped>>

CloseShift(s) ==
    /\ shift[s].status = "ACTIVE"
    /\ shift' = [shift EXCEPT ![s].status = "CLOSED"]
    /\ UNCHANGED <<worker, staffRole, workDevice, starter, slipped>>

-----------------------------------------------------------------------------
(* startShift.                                                             *)

\* Bug: any device the worker ever had.
KnownDevice(w, d) == worker[w].status = "ACTIVE" /\ workDevice[w][d] # "NONE"

MayStart(w, d) == worker[w].status = "ACTIVE" /\ workDevice[w][d] = "AUTHORIZED"

BeginShift(h, w, d) ==
    /\ starter[h].pc = "idle" /\ MayStart(w, d)
    /\ starter' = [starter EXCEPT ![h] = [pc |-> "check", of |-> w, device |-> d,
                                          hire |-> worker[w].hire, fit |-> Fit(w, d)]]
    /\ UNCHANGED <<worker, staffRole, workDevice, shift, slipped>>

CheckOpen(h) ==
    /\ starter[h].pc = "check"
    /\ starter' = [starter EXCEPT ![h] = IF OpenShifts(starter[h].of) = {}
                                         THEN [@ EXCEPT !.pc = "open"] ELSE NoStart]
    /\ UNCHANGED <<worker, staffRole, workDevice, shift, slipped>>

\* A row that is gone refuses the shift.
OpenShift(h, s) ==
    LET start == starter[h]
        w == start.of
        gone == worker[w].status = "NONE" \/ worker[w].hire # start.hire IN
    /\ start.pc = "open" /\ shift[s].status = "NONE"
    /\ shift' = IF gone THEN shift
                ELSE [shift EXCEPT ![s] = [of |-> w, device |-> start.device, status |-> "ACTIVE"]]
    /\ slipped' = IF ~gone /\ (OpenShifts(w) # {} \/ (start.fit /\ ~Fit(w, start.device)))
                  THEN slipped \cup {s} ELSE slipped
    /\ starter' = [starter EXCEPT ![h] = NoStart]
    /\ UNCHANGED <<worker, staffRole, workDevice>>

StaffNext ==
    \/ \E w \in Workers :
           \/ RegisterWorker(w) \/ RemoveWorker(w)
           \/ \E status \in WorkerStatuses \ {"NONE"} : UpdateWorker(w, status)
           \/ \E d \in WorkDevices : AuthorizeDevice(w, d) \/ RevokeDevice(w, d)
    \/ \E s \in Shifts : CloseShift(s)
    \/ \E h \in Starters :
           \/ \E w \in Workers, d \in WorkDevices : BeginShift(h, w, d)
           \/ CheckOpen(h)
           \/ \E s \in Shifts : OpenShift(h, s)

StaffSpec == StaffInit /\ [][StaffNext]_staffVars

-----------------------------------------------------------------------------
(* Properties.                                                             *)

StaffTypeOK ==
    /\ \A w \in Workers : worker[w].status \in WorkerStatuses
    /\ workDevice \in [Workers -> [WorkDevices -> DeviceStatuses]]
    /\ \A s \in Shifts : shift[s].status \in ShiftStatuses

\* A shift is open only while its worker works and its device is authorized,
\* and a worker has one: unless it was opened on what was no longer so.
ShiftIsAllowed ==
    /\ \A s \in Shifts \ slipped : shift[s].status = "ACTIVE" => Fit(shift[s].of, shift[s].device)
    /\ \A w \in Workers : Cardinality(OpenShifts(w) \ slipped) <= 1

StaffInv == StaffTypeOK /\ ShiftIsAllowed
=============================================================================
