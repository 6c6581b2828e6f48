-------------------------------- MODULE BoardPlan --------------------------------
(***************************************************************************)
(* What the firmware job knows of the board and the image                  *)
(* (firmware/FirmwareJob): the status of the board in view, its flash      *)
(* layout and product string - read from the board, by `adb shell', at     *)
(* most once per board and job - and the partition plan of the image in    *)
(* that layout, which SocFlasher makes one at a time and which a flash     *)
(* holds up.  Two boards: "node", whose layout names its profile, and      *)
(* "stacked", whose layout names none, if it tells one at all; the update  *)
(* of its MCU cuts the power of its SoC.                                   *)
(***************************************************************************)
EXTENDS Naturals

CONSTANTS Images,     \* images, each with its modification time
          KnownLayouts, \* what the owner's memory may hold of the boards' layouts
          MaxBoards   \* bound: boards plugged in, images chosen, operations begun

Boards == {"node", "stacked"}
Memories == Boards \cup {"*"}   \* "*" is the layout read last
NoKey == [image |-> "none", layout |-> ""]

VARIABLES
    image,        \* imagePath()
    tells,        \* the layout the stacked board tells: "" or "odd"
    view,         \* the board in view: its mode and its serial, "" in Loader mode
    status,       \* deviceStatus
    memory,       \* rememberedLayouts
    kept,         \* what the owner remembers (layoutProvider)
    serial,       \* layoutSerial
    layoutTried, productTried, \* boards that were asked
    reading, asking,  \* cmdlineInvocation, productInvocation: of which board, "none"
    products,     \* rememberedProducts
    flowProfile,  \* the profile a flash detected, "none" after the next status
    operation,    \* "none", "flash", "mcu"
    unasked,      \* the MCU operation was begun on this board without the question, "none"
    lost,         \* boards a read of which brought nothing, or was disturbed: by a flash, or by another
                  \* board; and those a flash saw after it had detected another
    plan,         \* planState, plannedImage; rows: the image and the layout they are made from
    requested,    \* requestedPlanKey
    inFlight, pending, \* planInFlight, planPending
    flasher,      \* SocFlasher: running, its inputs, the plan it makes; by the flow itself
    moves

knowledge == <<memory, serial, layoutTried, productTried, reading, asking, products, lost>>
plans == <<plan, requested, inFlight, pending, flasher>>
boardPlan == <<image, tells, view, status, knowledge, kept, flowProfile, operation, unasked, plans, moves>>

Nobody == [mode |-> "none", serial |-> ""]
Views == [mode : {"adb"}, serial : Boards] \cup {[mode |-> "loader", serial |-> ""], Nobody}
LayoutOf(b) == IF b = "node" THEN "node" ELSE tells
Names(layout) == IF layout = "node" THEN "node" ELSE "unknown"   \* BoardProfiles::byLayout()

BoardInit ==
    /\ image = "none" /\ tells \in {"", "odd"}
    /\ view = Nobody /\ status = Nobody
    /\ memory = [m \in Memories |-> ""]
    /\ kept \in {[m \in Memories |-> IF m \in known THEN (IF m = "*" THEN "node" ELSE LayoutOf(m)) ELSE ""] :
                    known \in SUBSET KnownLayouts}
    /\ serial = "none" /\ layoutTried = {} /\ productTried = {}
    /\ reading = "none" /\ asking = "none" /\ lost = {}
    /\ products = [b \in Boards |-> ""]
    /\ flowProfile = "none" /\ operation = "none" /\ unasked = "none"
    /\ plan = [state |-> "NoImage", image |-> "none", rows |-> NoKey]
    /\ requested = NoKey /\ inFlight = FALSE /\ pending = FALSE
    /\ flasher = [runs |-> FALSE, image |-> "none", layout |-> "", makes |-> NoKey, own |-> FALSE]
    /\ moves = 0

Move == moves < MaxBoards /\ moves' = moves + 1

LayoutFor(m) == IF memory[m] # "" THEN memory[m] ELSE kept[m]
BoardLayout == IF serial # "none" /\ LayoutFor(serial) # "" THEN LayoutFor(serial) ELSE LayoutFor("*")

\* computeBoardProfile(): the PID of a Loader, the product, then the layout.
boardProfile ==
    IF flowProfile # "none" THEN flowProfile
    ELSE IF status.mode = "loader" THEN "known by its PID"
    ELSE IF status.mode # "adb" THEN "unknown"
    ELSE IF products[status.serial] # "" THEN status.serial
    ELSE Names(LayoutFor(status.serial))

-----------------------------------------------------------------------------
(* The plan.                                                               *)

Key == [image |-> image, layout |-> BoardLayout]

\* The plan of `key' is begun: the flasher takes its inputs, and unpacks.
Begin(key, idle) ==
    /\ requested' = key
    /\ IF idle
       THEN /\ pending' = FALSE /\ inFlight' = TRUE
            /\ plan' = [plan EXCEPT !.state = "Planning"]
            /\ flasher' = [flasher EXCEPT !.image = key.image, !.layout = key.layout, !.makes = key,
                                          !.runs = FALSE, !.own = FALSE]
       ELSE pending' = TRUE /\ UNCHANGED <<plan, inFlight, flasher>>

NoPlan == requested' = NoKey /\ plan' = [plan EXCEPT !.state = "NoImage", !.image = "none"]

\* requestPlan(false), of the image and the layout as they are afterwards.
RequestPlan ==
    IF image' = "none" THEN NoPlan /\ UNCHANGED <<inFlight, pending, flasher>>
    ELSE IF Key' = requested THEN UNCHANGED plans
    ELSE Begin(Key', ~inFlight /\ ~flasher.runs /\ flasher.makes = NoKey)

\* Mutant: a plan held up by another one is forgotten.
PlannedOnce(ok) ==
    /\ inFlight' = FALSE
    /\ plan' = [state |-> IF ok THEN "Ready" ELSE "Failed", image |-> flasher.image, rows |-> flasher.makes]
    /\ flasher' = [flasher EXCEPT !.makes = NoKey]
    /\ pending' = FALSE /\ UNCHANGED requested

\* onPartitionsPlanned(): a plan that was held up is made now, unless a flash runs.
Planned(ok) ==
    IF pending /\ ~flasher.runs
    THEN IF image = "none"
         THEN NoPlan /\ pending' = FALSE /\ inFlight' = FALSE /\ flasher' = [flasher EXCEPT !.makes = NoKey]
         ELSE Begin(Key, TRUE)
    ELSE /\ inFlight' = FALSE
         /\ plan' = [state |-> IF ok THEN "Ready" ELSE "Failed", image |-> flasher.image, rows |-> flasher.makes]
         /\ flasher' = [flasher EXCEPT !.makes = NoKey]
         /\ UNCHANGED <<pending, requested>>

PlanEnds ==
    /\ flasher.makes # NoKey
    /\ \E ok \in BOOLEAN : Planned(ok)
    /\ UNCHANGED <<image, tells, view, status, knowledge, kept, flowProfile, operation, unasked, moves>>

\* setImagePath(), a roll back, a pull: another image, or none (refreshImage()).
ChooseImage ==
    /\ Move
    /\ image' \in (Images \cup {"none"}) \ {image}
    /\ UNCHANGED <<memory, serial, kept>>
    /\ RequestPlan
    /\ UNCHANGED <<tells, view, status, layoutTried, productTried, reading, asking, products, lost, flowProfile,
                   operation, unasked>>

-----------------------------------------------------------------------------
(* The board.                                                              *)

\* A board is plugged in, boots, enters Loader mode or leaves.
BoardChanges ==
    /\ Move
    /\ view' \in Views \ {view}
    /\ lost' = lost \cup ({reading, asking} \cap Boards)
    /\ UNCHANGED <<image, tells, status, memory, serial, layoutTried, productTried, reading, asking, products, kept, flowProfile, operation, unasked, plans>>

\* onStatus(): of a query, or of the flow.  A running board nobody knows the layout of is
\* read, when nothing else uses adb.
Status ==
    /\ operation # "mcu" /\ (view # status \/ flowProfile # "none")
    /\ status' = view
    /\ flowProfile' = IF operation = "flash" THEN flowProfile ELSE "none"
    /\ lost' = IF flowProfile' = "none" THEN lost ELSE lost \cup ((Boards \cap {view.serial}) \ {flowProfile'})
    /\ UNCHANGED <<image, memory, kept>>
    /\ IF view.mode = "adb"
       THEN /\ serial' = view.serial
            /\ IF /\ operation = "none" /\ reading = "none" /\ asking = "none"
                  /\ view.serial \notin layoutTried /\ LayoutFor(view.serial) = ""
               THEN reading' = view.serial /\ layoutTried' = layoutTried \cup {view.serial}
               ELSE UNCHANGED <<reading, layoutTried>>
            /\ IF view.serial # serial THEN RequestPlan ELSE UNCHANGED plans
       ELSE UNCHANGED <<serial, reading, layoutTried, plans>>
    /\ UNCHANGED <<tells, view, productTried, asking, products, operation, unasked, moves>>

\* storeLayout(): the owner's signal first, then the plan follows.
Store(b, layout) ==
    /\ memory' = [m \in Memories |-> IF m \in {b, "*"} THEN layout ELSE memory[m]]
    /\ serial' = IF b \in Boards THEN b ELSE serial
    /\ RequestPlan

\* Mutant: the product string is not asked for.
NeedsProductNever(b, layout) == FALSE

\* needsProductRead(): the layout names no profile, and nothing else did.
NeedsProduct(b, layout) ==
    b \notin productTried /\ Names(layout) = "unknown" /\ boardProfile' = "unknown"

\* The board's /proc/cmdline is read: its layout, or nothing.
LayoutRead ==
    /\ reading # "none" /\ reading' = "none"
    /\ UNCHANGED <<image, kept, status, products, flowProfile>>
    /\ \/ \* `adb' did not start.
          lost' = lost \cup {reading} /\ UNCHANGED <<memory, serial, plans, asking, productTried>>
       \/ \E layout \in {"", IF view.serial = reading THEN LayoutOf(reading) ELSE ""} :
             /\ IF layout = "" THEN UNCHANGED <<memory, serial, plans>> ELSE Store(reading, layout)
             /\ IF NeedsProduct(reading, layout)
                THEN asking' = reading /\ productTried' = productTried \cup {reading}
                ELSE UNCHANGED <<asking, productTried>>
             /\ lost' = IF flowProfile # "none" THEN lost \cup {reading} ELSE lost
    /\ UNCHANGED <<tells, view, layoutTried, operation, unasked, moves>>

\* readBoardProduct(): kept per serial as the layout is.
ProductRead ==
    /\ asking # "none" /\ asking' = "none"
    /\ \/ view.serial = asking /\ products' = [products EXCEPT ![asking] = asking] /\ UNCHANGED lost
       \/ lost' = lost \cup {asking} /\ UNCHANGED products
    /\ UNCHANGED <<image, tells, view, status, memory, serial, layoutTried, productTried, reading, kept,
                   flowProfile, operation, unasked, plans, moves>>

-----------------------------------------------------------------------------
(* The operations.                                                         *)

\* startFlash(): the flasher takes the image and the layout for a board met in Loader mode.
StartFlash ==
    /\ operation = "none" /\ image # "none" /\ Move
    /\ operation' = "flash" /\ flowProfile' = "none"
    /\ flasher' = [flasher EXCEPT !.runs = TRUE, !.image = image, !.layout = BoardLayout]
    /\ UNCHANGED <<image, tells, view, status, knowledge, kept, unasked, plan, requested, inFlight, pending>>

\* The flow reads the layout of the board of the status.
FlowReadsLayout ==
    /\ operation = "flash" /\ view = status
    /\ UNCHANGED <<image, kept>>
    /\ \E layout \in IF view.mode = "adb" THEN {LayoutOf(view.serial)} \ {""} ELSE {"node"} :
          view.mode # "none" /\ Store(view.serial, layout)
    /\ UNCHANGED <<tells, view, status, layoutTried, productTried, reading, asking, products, lost, flowProfile,
                   operation, unasked, moves>>

\* ... detects the board (profileDetected()) ...
FlowDetects ==
    /\ operation = "flash" /\ status.mode = "adb" /\ view = status
    /\ flowProfile' \in {view.serial, "unknown"}
    /\ lost' = IF flowProfile' = "unknown" THEN lost \cup {view.serial} ELSE lost
    /\ UNCHANGED <<image, tells, view, status, memory, serial, layoutTried, productTried, reading, asking, products,
                   kept, operation, unasked, plans, moves>>

\* ... and plans for itself, in the layout it has.
FlowPlans ==
    /\ operation = "flash" /\ flasher.makes = NoKey
    /\ \E layout \in {flasher.layout, ""} \cup (IF view.mode = "adb" THEN {LayoutOf(view.serial)} ELSE {}) :
          flasher' = [flasher EXCEPT !.makes = [image |-> flasher.image, layout |-> layout], !.own = TRUE]
    /\ UNCHANGED <<image, tells, view, status, knowledge, kept, flowProfile, operation, unasked, plan, requested,
                   inFlight, pending, moves>>

\* Mutant: what was held up by the flash is not planned.
FlashFinishedOnly ==
    /\ operation = "flash" /\ operation' = "none"
    /\ flasher' = [flasher EXCEPT !.runs = FALSE]
    /\ UNCHANGED <<image, tells, view, status, knowledge, kept, flowProfile, unasked, moves,
                   plan, requested, inFlight, pending>>

\* flashFinished(): a plan that was held up by the flash is made now.
FlashFinished ==
    /\ operation = "flash" /\ operation' = "none"
    /\ IF pending /\ image # "none" /\ ~inFlight /\ flasher.makes = NoKey
       THEN Begin(Key, TRUE)
       ELSE /\ flasher' = [flasher EXCEPT !.runs = FALSE]
            /\ UNCHANGED inFlight
            /\ CASE ~pending -> UNCHANGED <<plan, requested, pending>>
                 [] pending /\ image = "none" -> NoPlan /\ pending' = FALSE
                 [] OTHER -> requested' = Key /\ UNCHANGED <<plan, pending>>
    /\ UNCHANGED <<image, tells, view, status, knowledge, kept, flowProfile, unasked, moves>>

\* Mutant: the MCU update does not wait for the reads of the board.
StartMcuAtOnce ==
    /\ operation = "none" /\ status.mode # "none" /\ Move
    /\ operation' = "mcu"
    /\ unasked' = IF boardProfile = "stacked" THEN "none" ELSE status.serial
    /\ UNCHANGED <<image, tells, view, status, knowledge, kept, flowProfile, plans>>

\* startMcuUpdate(): refused while the board is read; rule 4 asks before the power of a
\* stacked board is cut.
StartMcu ==
    /\ operation = "none" /\ status.mode # "none" /\ Move
    /\ reading = "none" /\ asking = "none"
    /\ operation' = "mcu"
    /\ unasked' = IF boardProfile = "stacked" THEN "none" ELSE status.serial
    /\ UNCHANGED <<image, tells, view, status, knowledge, kept, flowProfile, plans>>

McuEnds ==
    /\ operation = "mcu" /\ operation' = "none" /\ unasked' = "none"
    /\ UNCHANGED <<image, tells, view, status, knowledge, kept, flowProfile, plans, moves>>

BoardNext ==
    \/ ChooseImage \/ PlanEnds \/ BoardChanges \/ Status \/ LayoutRead \/ ProductRead
    \/ StartFlash \/ FlowReadsLayout \/ FlowDetects \/ FlowPlans \/ FlashFinished
    \/ StartMcu \/ McuEnds

\* An unpacking ends, and so does a flash (SocFlash); the flow does not plan for ever.
BoardFairness == WF_boardPlan(PlanEnds /\ ~flasher.runs) /\ WF_boardPlan(FlashFinished)
BoardSpec == BoardInit /\ [][BoardNext]_boardPlan /\ BoardFairness

-----------------------------------------------------------------------------
\* The rows of a plan that is there for the chosen image, with none held up and no flash
\* running, are of that image in the layout of the board it would be written to - unless a
\* flow made them for the layout it met itself (requestPlan, onPartitionsPlanned).
PlanIsOfItsInputs ==
    plan.state = "Ready" /\ plan.image = image /\ ~pending /\ ~inFlight /\ ~flasher.runs =>
        plan.rows = Key \/ flasher.own

\* A stacked board whose read was begun by a status and answered, is asked about before its
\* MCU is updated: its layout names no profile, but then its product string does (rule 4).
\* The detection of a flash goes before both until the next status; a board that takes the
\* other's place under the flow has to wait for that status, which nothing makes it do.
PowerIsAsked == unasked = "stacked" => "stacked" \in lost \/ "stacked" \notin layoutTried

\* A plan that was held up is made.
PlanIsMade == pending ~> ~pending
================================================================================
