----------------------------- MODULE FlashUpdate -----------------------------
(***************************************************************************)
(* Updating the firmware of a device over HF2 (hf2.c), with the page cache *)
(* (ghostfat.c), the baseloader (baseloader.c) and the start-up modes that *)
(* survive a reset in a backup register (target_stm32f103.c, backup.c).    *)
(*                                                                         *)
(* An image is a bootloader followed by an application.  The bootloader in *)
(* use can't overwrite itself: it stages the new one from the address of   *)
(* the old application, puts a copy of the new baseloader behind it and    *)
(* restarts; the baseloader then copies the staged pages over the old ones.*)
(* The host sends the image once more for the application.                 *)
(*                                                                         *)
(* Flash is a sequence of pages; the packets of one page arrive as one.  A *)
(* page tells what it holds: page n of a loader or of an application, maybe*)
(* only its first part.  Page 0 of a loader holds its base vector table,   *)
(* with the sizes of its baseloader and of itself.  Power may be lost, or  *)
(* the reset button pressed, anywhere.                                     *)
(***************************************************************************)
EXTENDS Naturals

CONSTANTS
  Loader,     \* bootloaders
  Image,      \* firmware images, which also name their applications
  LoaderOf,   \* the bootloader of an image
  Boot,       \* pages of a bootloader
  Base,       \* pages of its baseloader, its first ones
  App,        \* pages of an application
  Pages,      \* pages of the flash memory
  First,      \* the image the device has
  Wanted,     \* the image the host wants it to have in the end
  Blank,      \* an erased page
  None,
  Spare       \* bound on losses of power and on detours of the host

Place == 0 .. Pages - 1

ASSUME FlashAssumption ==
  /\ Loader \cap Image = {} /\ Spare \in Nat /\ Pages \in Nat
  /\ LoaderOf \in [Image -> Loader] /\ First \in Image /\ Wanted \in Image
  /\ Boot \in [Loader -> Nat \ {0, 1}] /\ Base \in [Loader -> Nat \ {0}]
  /\ App \in [Image -> Nat \ {0}]
  /\ \A l \in Loader : Base[l] <= Boot[l]
  /\ \A l, m \in Loader : Boot[l] + Boot[m] + Base[m] < Pages
  /\ \A i \in Image : Boot[LoaderOf[i]] + App[i] <= Pages

VARIABLES
  flash,    \* what each page holds
  cache,    \* flashAddr and flashBuf: a page not yet flushed
  mode,     \* startup_mode, and what the processor does without one
  bkp,      \* the request in the backup register
  session,  \* the static variables of handle_flash_write
  request,  \* restart_request
  copy,     \* base_para and base_tmp of the baseloader at work
  host,     \* the image the host sends and the next page of it
  lost,     \* where power has been lost (not in the code)
  spare     \* what is left of Spare (not in the code)

vars == <<flash, cache, mode, bkp, session, request, copy, host, lost, spare>>

Page == [of : Loader \cup Image, n : Nat, whole : BOOLEAN]
Whole(of, n) == [of |-> of, n |-> n, whole |-> TRUE]

ASSUME BlankAssumption == Blank \notin Page /\ None \notin [at : Place, page : Page]

\* Page p of the file of image i.
Content(i, p) ==
  LET l == LoaderOf[i]
  IN  IF p < Boot[l] THEN Whole(l, p) ELSE Whole(i, p - Boot[l])

Length(i) == Boot[LoaderOf[i]] + App[i]

\* IS_VALID_BASE_VECTOR_TABLE: two magic numbers in the first part of the page.
IsTable(page) == page # Blank /\ page.of \in Loader /\ page.n = 0

\* The bootloader that runs, and where its application starts.
Running == flash[0].of
AppStart == Boot[Running]

\* The processor can start from the flash: all of one bootloader is there.
BootIsWhole ==
  /\ flash[0] \in Page /\ flash[0].of \in Loader
  /\ \A p \in 0 .. Boot[flash[0].of] - 1 : flash[p] = Whole(flash[0].of, p)

\* validate_application looks at the first word.
AppIsValid ==
  /\ flash[AppStart] # Blank
  /\ flash[AppStart].of \in Image /\ flash[AppStart].n = 0

\* The whole application is there.
AppIsWhole(i) == \A p \in 0 .. App[i] - 1 : flash[AppStart + p] = Whole(i, p)

AppRuns == flash[AppStart] # Blank /\ flash[AppStart].of \in Image /\ AppIsWhole(flash[AppStart].of)

Installed(i) == flash[0] # Blank /\ Running = LoaderOf[i] /\ AppIsWhole(i)

NoSession == [found |-> FALSE, newApp |-> 0, newBase |-> 0, changed |-> FALSE]

Init ==
  /\ flash = [p \in Place |-> IF p < Length(First) THEN Content(First, p) ELSE Blank]
  /\ cache = None
  /\ mode = "reset"
  /\ bkp = "none"
  /\ session = NoSession
  /\ request = "none"
  /\ copy = None
  /\ host = None
  /\ lost = {}
  /\ spare = Spare

-----------------------------------------------------------------------------
(* Start-up.  What is not in the flash or the backup register is lost. *)

Reset ==
  /\ mode' = "reset"
  /\ cache' = None
  /\ session' = NoSession
  /\ request' = "none"
  /\ copy' = None
  /\ host' = None

HalfWritten == "half"

\* The request is renewed for the mode that follows the baseloader.
ModeAfterBaseloader == "boot"

\* baseloader_fetch: the staged table tells the size of the new bootloader, and
\* a second table must follow it.
Staged == flash[AppStart].of

IsFetched ==
  /\ IsTable(flash[AppStart])
  /\ AppStart + Boot[Staged] + 1 < Pages
  /\ IsTable(flash[AppStart + Boot[Staged]])

\* boot_target_get_startup_mode and bootloader_start.
StartUp ==
  /\ mode = "reset"
  /\ \/ /\ ~BootIsWhole
        /\ mode' = "dead"
        /\ UNCHANGED <<bkp, copy>>
     \/ /\ BootIsWhole /\ bkp = "base"
        /\ bkp' = ModeAfterBaseloader
        /\ \/ /\ IsFetched
              /\ mode' = "copying"
              /\ copy' = [from |-> AppStart, size |-> Boot[Staged], done |-> 0, erased |-> FALSE]
           \/ /\ ~IsFetched
              /\ mode' = "stuck"
              /\ UNCHANGED copy
     \/ /\ BootIsWhole /\ bkp # "base"
        /\ bkp' = "none"
        /\ mode' = IF bkp = "boot" \/ ~AppIsValid THEN "bootloader" ELSE "application"
        /\ UNCHANGED copy
  /\ UNCHANGED <<flash, cache, session, request, host, lost, spare>>

-----------------------------------------------------------------------------
(* baseloader_start, from the copy behind the staged bootloader: the program  *)
(* it replaces no longer runs, and it ends with a reset.                      *)

CopyErase ==
  /\ mode = "copying" /\ ~copy.erased
  /\ flash' = [flash EXCEPT ![copy.done] = Blank]
  /\ copy' = [copy EXCEPT !.erased = TRUE]
  /\ UNCHANGED <<cache, mode, bkp, session, request, host, lost, spare>>

CopyProgram ==
  /\ mode = "copying" /\ copy.erased
  /\ flash' = [flash EXCEPT ![copy.done] = flash[copy.from + copy.done]]
  /\ \/ /\ copy.done + 1 < copy.size
        /\ copy' = [copy EXCEPT !.done = @ + 1, !.erased = FALSE]
        /\ UNCHANGED <<cache, mode, session, request, host>>
     \/ /\ copy.done + 1 = copy.size
        /\ Reset
  /\ UNCHANGED <<bkp, lost, spare>>

-----------------------------------------------------------------------------
(* Commands of the host. *)

\* A device in application mode answers while its application runs.
Answers == mode = "bootloader" \/ (mode = "application" /\ AppRuns)

Connected == Answers /\ host # None /\ request = "none"

\* BININFO and INFO; the answer to the first of them completes a restart that
\* is still to be done.
Connect(i) ==
  /\ Answers /\ host = None
  /\ i = Wanted \/ spare > 0
  /\ host' = [image |-> i, next |-> 0]
  /\ spare' = IF i = Wanted THEN spare ELSE spare - 1
  /\ UNCHANGED <<flash, cache, mode, bkp, session, request, copy, lost>>

\* START_FLASH restarts an application at once into bootloader mode.
StartFlash ==
  /\ Connected /\ mode = "application"
  /\ bkp' = "boot"
  /\ Reset
  /\ UNCHANGED <<flash, lost, spare>>

\* WRITE_FLASH_PAGE in application mode: no flashing, restart after the answer.
RefuseWrite ==
  /\ Connected /\ mode = "application"
  /\ request' = "boot"
  /\ UNCHANGED <<flash, cache, mode, bkp, session, copy, host, lost, spare>>

NotFlushed == flash

\* flash_flush.
Flushed == IF cache = None THEN flash ELSE [flash EXCEPT ![cache.at] = cache.page]

\* flash_write flushes the cached page if it is another one.
AfterWrite(at) == IF cache # None /\ cache.at = at THEN flash ELSE Flushed

Fresh == [found |-> FALSE, newApp |-> AppStart, newBase |-> Base[Running], changed |-> FALSE]

\* The first packet starts anew.
Begun(p) == IF session.newApp = 0 \/ p = 0 THEN Fresh ELSE session

\* The base vector table is looked for where the bootloader is being staged.
Found(s) ==
  IF ~s.found /\ IsTable(flash[AppStart])
  THEN [s EXCEPT !.found = TRUE, !.newApp = Boot[Staged], !.newBase = Base[Staged]]
  ELSE s

\* handle_bootloader_update: memcmp of the staged bootloader, flushed, with the
\* one in use.
IsIdentical(s) == \A p \in 0 .. s.newApp - 1 : Flushed[AppStart + p] = Flushed[p]

IsNotCopied(s) == Flushed

IsNotFlushed(s) ==
  LET start == AppStart + s.newApp
  IN  [p \in Place |-> IF p \in start .. start + s.newBase - 1 THEN flash[p - s.newApp] ELSE flash[p]]

\* The new baseloader is copied behind the staged bootloader, and flushed.
WithBaseloader(s) ==
  LET start == AppStart + s.newApp
  IN  [p \in Place |-> IF p \in start .. start + s.newBase - 1
                       THEN Flushed[p - s.newApp] ELSE Flushed[p]]

\* flash_write refuses the last packet of the last page.
Accepted(at, page) == IF at = Pages - 1 THEN [page EXCEPT !.whole = FALSE] ELSE page

\* What handle_flash_write makes of the flash, the cache and its variables.
Stored(s, at, page) ==
  IF s.changed \/ at \notin Place
  THEN [flash |-> flash, cache |-> cache, session |-> s]
  ELSE [flash |-> AfterWrite(at), cache |-> [at |-> at, page |-> Accepted(at, page)], session |-> s]

InPlace(p) == p

\* The bootloader is staged where the old application is.
StagedAt(p) == p + AppStart

Outcome(p, page) ==
  LET s == Found(Begun(p))
  IN  IF p < s.newApp THEN Stored(s, StagedAt(p), page)
      ELSE IF s.found /\ p = s.newApp /\ ~s.changed
      THEN IF IsIdentical(s)
           THEN [flash |-> Flushed, cache |-> [at |-> p, page |-> Accepted(p, page)], session |-> s]
           ELSE [flash |-> WithBaseloader(s), cache |-> None,
                 session |-> [s EXCEPT !.changed = TRUE]]
      ELSE Stored(s, p, page)

IsSending == Connected /\ mode = "bootloader" /\ host.next < Length(host.image)

Written == Outcome(host.next, Content(host.image, host.next))

\* WRITE_FLASH_PAGE.
WritePage ==
  /\ IsSending
  /\ flash' = Written.flash
  /\ cache' = Written.cache
  /\ session' = Written.session
  /\ host' = [host EXCEPT !.next = @ + 1]
  /\ UNCHANGED <<mode, bkp, request, copy, lost, spare>>

AppAlways == "app"

RequestForApp == IF session.changed THEN "base" ELSE "app"

\* RESET_INTO_APP, which the host sends after the last page.
ResetIntoApp ==
  /\ Connected /\ mode = "bootloader" /\ host.next = Length(host.image)
  /\ flash' = Flushed
  /\ cache' = None
  /\ request' = RequestForApp
  /\ UNCHANGED <<mode, bkp, session, copy, host, lost, spare>>

RequestForBootloader == IF session.changed THEN "base" ELSE "boot"

\* RESET_INTO_BOOTLOADER, at any time.
ResetIntoBootloader ==
  /\ Connected /\ spare > 0
  /\ request' = RequestForBootloader
  /\ spare' = spare - 1
  /\ UNCHANGED <<flash, cache, mode, bkp, session, copy, host, lost>>

\* hf2_data_tx_cb: an answer has been sent, the restart is due.
Restart ==
  /\ Answers /\ host # None /\ request # "none"
  /\ bkp' = request
  /\ Reset
  /\ UNCHANGED <<flash, lost, spare>>

\* The host goes away.
Disconnect ==
  /\ host # None /\ spare > 0
  /\ host' = None
  /\ spare' = spare - 1
  /\ UNCHANGED <<flash, cache, mode, bkp, session, request, copy, lost>>

-----------------------------------------------------------------------------
(* Loss of power.  Pages are written in the order of their addresses. *)

\* Page p was being erased or written when the flash was to become f.
Torn(f, p, q) ==
  IF q < p THEN f[q] ELSE flash[q]

Interrupted(f) ==
  {[q \in Place |-> IF q = p THEN Blank ELSE Torn(f, p, q)] : p \in {q \in Place : f[q] # flash[q]}}
  \cup {[q \in Place |-> IF q = p THEN [f[p] EXCEPT !.whole = FALSE] ELSE Torn(f, p, q)] :
          p \in {q \in Place : f[q] # flash[q] /\ f[q] # Blank}}

\* What the flash may hold when power is lost.
Remains ==
  {flash}
  \cup (IF mode = "bootloader" THEN Interrupted(Flushed) ELSE {})
  \cup (IF IsSending THEN Interrupted(Written.flash) ELSE {})
  \cup (IF mode = "copying"
        THEN Interrupted([flash EXCEPT ![copy.done] = flash[copy.from + copy.done]]) ELSE {})

\* The backup register survives a reset, and a loss of power with a battery.
LosePower ==
  /\ mode # "dead" /\ spare > 0
  /\ flash' \in Remains
  /\ bkp' \in {bkp, "none"}
  /\ Reset
  /\ lost' = lost \cup {mode}
  /\ spare' = spare - 1

-----------------------------------------------------------------------------
Next ==
  \/ StartUp \/ CopyErase \/ CopyProgram
  \/ \E i \in Image : Connect(i)
  \/ StartFlash \/ RefuseWrite \/ WritePage
  \/ ResetIntoApp \/ ResetIntoBootloader \/ Restart
  \/ Disconnect \/ LosePower

Spec == Init /\ [][Next]_vars

\* The device goes on, and the host tries again until the device has the image.
Fairness ==
  /\ WF_vars(StartUp) /\ WF_vars(CopyErase) /\ WF_vars(CopyProgram) /\ WF_vars(Restart)
  /\ WF_vars(Connect(Wanted)) /\ WF_vars(StartFlash)
  /\ WF_vars(WritePage) /\ WF_vars(ResetIntoApp)

FairSpec == Spec /\ Fairness

-----------------------------------------------------------------------------
\* The type invariant.
TypeOK ==
  /\ flash \in [Place -> Page \cup {Blank}]
  /\ cache \in [at : Place, page : Page] \cup {None}
  /\ mode \in {"reset", "dead", "stuck", "copying", "bootloader", "application"}
  /\ bkp \in {"none", "base", "boot", "app"}
  /\ session \in [found : BOOLEAN, newApp : Nat, newBase : Nat, changed : BOOLEAN]
  /\ request \in {"none", "base", "boot", "app"}
  /\ copy \in [from : Nat, size : Nat, done : Nat, erased : BOOLEAN] \cup {None}
  /\ host \in [image : Image, next : Nat] \cup {None}
  /\ lost \subseteq {"reset", "stuck", "copying", "bootloader", "application"}
  /\ spare \in 0 .. Spare

\* What the baseloader copies is one whole bootloader, and the baseloader that
\* does it is the first part of the same one: no page of an update that was
\* broken off, or of another image, is among them.
CopiesWhole ==
  mode = "copying" =>
    \E l \in Loader :
      /\ copy.size = Boot[l]
      /\ \A p \in copy.done .. Boot[l] - 1 : flash[copy.from + p] = Whole(l, p)
      /\ \A p \in 0 .. copy.done - 1 : flash[p] = Whole(l, p)
      /\ \A p \in 0 .. Base[l] - 1 : flash[copy.from + Boot[l] + p] = Whole(l, p)

\* Only power lost while the baseloader copies leaves no bootloader to start.
OnlyCopyingBricks == mode = "dead" => "copying" \in lost

\* An application starts only if it is there as a whole, whatever the host broke
\* off, unless power was lost in the midst of an update.
StartsWholeApp == mode = "application" /\ lost \subseteq {"application"} => AppRuns

\* When a complete image has been acknowledged and the device restarts to run
\* it, all of it is in the flash, the last page too.
AcknowledgedIsFlashed ==
  mode = "bootloader" /\ request = "app" /\ host # None /\ host.next = Length(host.image)
    => Installed(host.image)

\* A restart into the baseloader finds one (bootloader.c:87 and 162,
\* baseloader.c:364-397), also when the host broke off or sent another image, or
\* power was lost, between the staging and the restart.
BaseloaderIsFound == mode # "stuck"

\* The device has the wanted image and runs it, again and again, whatever was
\* sent, broken off or lost before; unless power was lost in the one of two
\* places after which it does not start or its application does not answer.  In
\* particular a restart into the baseloader finds it: otherwise the device is
\* stuck in a mode in which the host is told that an application runs and
\* START_FLASH does nothing.
UpdateSucceeds ==
  []<>\/ mode = "application" /\ Installed(Wanted)
      \/ mode = "dead"
      \/ mode = "application" /\ ~AppRuns

=============================================================================
