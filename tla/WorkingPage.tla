---------------------------- MODULE WorkingPage ----------------------------
(***************************************************************************)
(* The working page of the calibration: its image in RAM, its only copy in *)
(* flash with a checksum (FEEHA_boNVMWorkingCopy), the client that boots   *)
(* from either (USERCAL_vStart), the tester that changes it and has it     *)
(* saved, and a power loss at any step.                                    *)
(*                                                                         *)
(* Either command of the save may be refused by the flash: nobody looks.   *)
(* The save runs inside the interrupt that brought the request: no task,   *)
(* no timer and no other request of the tester comes in between.           *)
(* It turns the scheduler off and nothing turns it on again.               *)
(***************************************************************************)
EXTENDS Naturals

CONSTANTS
  NumPages, \* the pages of flash the working page fills; the last has its checksum
  Value,    \* what a page can hold
  Rom,      \* USERCAL_rstROMCAL
  MinRuns   \* the runs of FEE_vRun there must be since the last save (10000)

Page == 1..NumPages
Image == [Page -> Value]
Blank == {"unset", "erased", "torn"} \* RAM and flash nobody has written to the end

ASSUME WorkingPageAssumption ==
  /\ NumPages \in Nat \ {0} /\ MinRuns \in Nat
  /\ Blank \cap Value = {} /\ Rom \in Image

VARIABLES
  fits,     \* the page lies in the RAM that may be one (FEE_boSetWorkingData)
  boot,     \* how far USERCAL_vStart has come
  page,     \* FEE_stWorkingPage.pu8WorkingData is not NULL
  ram, ramCrc,     \* the page in RAM; a checksum is the set of the images it fits
  flash, flashCrc, \* its copy at 0xc0000
  save, next, \* where FEEHA_boNVMWorkingCopy is, and the page it will write
  since,    \* FEE_u32RunCount - u32LastWriteCount, counted to MinRuns + 1
  rtos      \* IRQ_vEnableRTOS

power == <<boot, page, since, rtos>>
vars == <<fits, power, ram, ramCrc, flash, flashCrc, save, next>>

PowerUp ==
  /\ boot' = "setup" /\ page' = FALSE /\ since' = 0 /\ rtos' = TRUE
  /\ ram' = [p \in Page |-> "unset"] /\ ramCrc' = {}
  /\ save' = "no" /\ next' = 1

Init ==
  /\ fits \in BOOLEAN
  /\ boot = "setup" /\ page = FALSE /\ since = 0 /\ rtos = TRUE
  /\ ram = [p \in Page |-> "unset"] /\ ramCrc = {}
  /\ save = "no" /\ next = 1
  /\ flash = [p \in Page |-> "erased"] /\ flashCrc = {}

-----------------------------------------------------------------------------
Thread == rtos /\ save = "no"

(* SYSAPI_enSetupWorkingPage.                                              *)
SetWorkingData ==
  /\ Thread /\ boot = "setup" /\ boot' = "load"
  /\ page' = fits
  /\ UNCHANGED <<fits, since, rtos, ram, ramCrc, flash, flashCrc, save, next>>

(* SYSAPI_enNVMWorkingCopy, or the image in ROM when that fails.           *)
\* a mutant: the checksum is not tested
FitsAlways == fits
ChecksumFits == flash \in flashCrc
Load ==
  /\ Thread /\ boot = "load" /\ boot' = "done"
  /\ ram' = IF page /\ ChecksumFits THEN flash ELSE Rom
  /\ UNCHANGED <<fits, page, since, rtos, ramCrc, flash, flashCrc, save, next>>

(* FEE_vRun every millisecond.  The client has booted within ten seconds.  *)
Run ==
  /\ Thread
  /\ boot # "done" => since < MinRuns
  /\ since' = IF since > MinRuns THEN since ELSE since + 1
  /\ UNCHANGED <<fits, boot, page, rtos, ram, ramCrc, flash, flashCrc, save, next>>

(* UDSAL_u8WMBA, which writes wherever the tester says.                    *)
Change ==
  /\ save = "no"
  /\ \E p \in Page, v \in Value : ram' = [ram EXCEPT ![p] = v]
  /\ UNCHANGED <<fits, power, ramCrc, flash, flashCrc, save, next>>

-----------------------------------------------------------------------------
(* FEEHA_boNVMWorkingCopy(FALSE, TRUE).                                    *)

\* a mutant: the runs since the last save are not asked for
MayAlways == page
MaySave == page /\ MinRuns < since

(* The checksum is computed and the scheduler turned off.                  *)
BeginSave ==
  /\ save = "no" /\ MaySave
  /\ ramCrc' = {ram}
  /\ rtos' = FALSE /\ save' = "erase"
  /\ UNCHANGED <<fits, boot, page, since, ram, flash, flashCrc, next>>

EraseAll ==
  /\ save = "erase" /\ save' = "write" /\ next' = 1
  /\ flash' = [p \in Page |-> "erased"] /\ flashCrc' = {}
  /\ UNCHANGED <<fits, power, ram, ramCrc>>

(* A page of the flash is locked: the command is refused, its error goes   *)
(* unnoticed, and the pages are written over what there is.                *)
EraseRefused ==
  /\ save = "erase" /\ save' = "write" /\ next' = 1
  /\ UNCHANGED <<fits, power, ram, ramCrc, flash, flashCrc>>

(* flash_write goes page by page; the count of the save is taken behind it.*)
\* a mutant: the last save is not counted
UncountedAfter(last) == since
SinceAfter(last) == IF last THEN 0 ELSE since
WritePage ==
  /\ save = "write"
  /\ flash' = [flash EXCEPT ![next] = ram[next]]
  /\ save' = IF next = NumPages THEN "no" ELSE "write"
  /\ next' = IF next = NumPages THEN 1 ELSE next + 1
  /\ flashCrc' = IF next = NumPages THEN ramCrc ELSE flashCrc
  /\ since' = SinceAfter(next = NumPages)
  /\ UNCHANGED <<fits, boot, page, rtos, ram, ramCrc>>

(* flash_write ends at the first page it is refused, and the save is       *)
(* counted like any other.                                                 *)
WriteRefused ==
  /\ save = "write" /\ save' = "no" /\ next' = 1
  /\ since' = SinceAfter(TRUE)
  /\ UNCHANGED <<fits, boot, page, rtos, ram, ramCrc, flash, flashCrc>>

(* Power is lost.  What the flash was doing may be half done.              *)
HalfDone == IF save = "erase" THEN SUBSET Page
            ELSE IF save = "write" THEN {{}, {next}} ELSE {{}}
PowerLoss ==
  /\ PowerUp
  /\ \E half \in HalfDone :
       /\ flash' = [p \in Page |-> IF p \in half THEN "torn" ELSE flash[p]]
       /\ flashCrc' = IF NumPages \in half THEN {} ELSE flashCrc
  /\ UNCHANGED fits

Next == SetWorkingData \/ Load \/ Run \/ Change \/ BeginSave \/ EraseAll
          \/ EraseRefused \/ WritePage \/ WriteRefused \/ PowerLoss
Spec == Init /\ [][Next]_vars

-----------------------------------------------------------------------------
Content == Value \cup Blank
TypeOK ==
  /\ fits \in BOOLEAN /\ page \in BOOLEAN /\ rtos \in BOOLEAN
  /\ boot \in {"setup", "load", "done"} /\ save \in {"no", "erase", "write"}
  /\ ram \in [Page -> Content] /\ flash \in [Page -> Content]
  /\ next \in Page /\ since \in 0..(MinRuns + 1)

(* The client never works with a page that holds RAM nobody has written or *)
(* flash whose erasing or writing was cut off or refused (USERCAL_vStart). *)
LoadsWhole == boot = "done" => ram \in Image

(* The only copy is not saved a second time before power-up: behind a save *)
(* the scheduler stays off, so that the runs a save asks for do not come   *)
(* (FEEHA_boNVMWorkingCopy).                                               *)
SavesOnce == [][~rtos /\ save = "no" => (save' = "no" /\ flash' = flash)]_vars

(* The page implements the store of one calibration.                       *)
Store == INSTANCE CalibrationStore WITH
  work <- IF boot = "done" THEN {ram} ELSE {},
  saved <- {flash} \cap flashCrc,
  last <- flashCrc,
  saving <- save # "no"
ImplementsStore == Store!Spec
=============================================================================
