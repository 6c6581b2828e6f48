---------------------------- MODULE MCFirmwareJob ----------------------------
(***************************************************************************)
(* What the firmware job coordinates: its operations (FirmwareJob, which   *)
(* this module extends), the MCU's update, and the partition plan of the   *)
(* board in view.  The parts share no state: a behaviour is one of a       *)
(* single part, `which', and the other parts rest.                         *)
(***************************************************************************)
EXTENDS FirmwareJob

CONSTANTS Blocks, Retries, Numbers, MaxFaults, MaxRuns,   \* McuUpdate
          Images, KnownLayouts, MaxBoards                 \* BoardPlan

VARIABLES which,
          link, faults, op, step, sequence, attempts, offset, request, rx, said, setup, toMcu, toHost, mcu,
          image, tells, view, status, memory, kept, serial, layoutTried, productTried, reading, asking, products,
          flowProfile, operation, unasked, lost, plan, requested, inFlight, pending, flasher, moves

Mcu == INSTANCE McuUpdate
Plan == INSTANCE BoardPlan

ofMcu == <<link, faults, op, step, sequence, attempts, offset, request, rx, said, setup, toMcu, toHost, mcu>>
ofPlan == <<image, tells, view, status, memory, kept, serial, layoutTried, productTried, reading, asking, products,
            flowProfile, operation, unasked, lost, plan, requested, inFlight, pending, flasher, moves>>

BoardInit ==
    /\ which \in {"job", "mcu", "plan"}
    /\ Init
    /\ Mcu!McuInit
    /\ which # "mcu" => setup = [soc |-> FALSE, auto |-> FALSE, role |-> FALSE] /\ mcu.mode = "app"
    /\ Plan!BoardInit
    /\ which # "plan" => tells = "" /\ \A m \in DOMAIN kept : kept[m] = ""

BoardNext ==
    \/ which = "job" /\ Next /\ UNCHANGED <<which, ofMcu, ofPlan>>
    \/ which = "mcu" /\ Mcu!McuNext /\ UNCHANGED <<which, vars, ofPlan>>
    \/ which = "plan" /\ Plan!BoardNext /\ UNCHANGED <<which, vars, ofMcu>>

BoardSpec ==
    /\ BoardInit /\ [][BoardNext]_<<which, vars, ofMcu, ofPlan>>
    /\ WF_vars(Delivery) /\ WF_vars(Fire)
    /\ Mcu!McuFairness /\ Plan!BoardFairness

-----------------------------------------------------------------------------
\* A Cancel that was taken holds and ends what it can cancel, and an operation ends when
\* the tools, the build machine and the owner answer it (FirmwareJob).
JobEnds == CancelHolds /\ CancelEnds /\ OperationEnds

\* The plan the tab shows is made from the image and the layout in view, and a board is
\* asked before its power is taken (FirmwareJob).
PlanHolds == Plan!PlanIsOfItsInputs /\ Plan!PowerIsAsked

\* A flash of the MCU that is told as done holds the package and its role (McuUpdater).
FlashedIsThePackage == Mcu!FlashedIsThePackage

\* A healthy MCU is flashed, an update ends, and a plan that was put off is made
\* (McuUpdater, FirmwareJob).
BoardEnds == Mcu!HealthyFlash /\ Mcu!UpdateEnds /\ Plan!PlanIsMade
=============================================================================
