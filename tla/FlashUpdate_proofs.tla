-------------------------- MODULE FlashUpdate_proofs --------------------------
(***************************************************************************)
(* Proofs about FlashUpdate, for any loaders and images, as long as all    *)
(* bootloaders have one size and no image reaches the last page: run       *)
(* flash_stale shows what happens otherwise.  The invariant follows the    *)
(* new bootloader from the host's first packet to the baseloader's last    *)
(* page.                                                                   *)
(***************************************************************************)
EXTENDS FlashUpdate, TLAPS

\* Every bootloader has the same size, and so has every baseloader.
SameSizes == \A l, m \in Loader : Boot[l] = Boot[m] /\ Base[l] = Base[m]

\* No image reaches the last page of the flash: flash_write refuses its last packet.
ImagesFit == \A i \in Image : Length(i) < Pages

B == Boot[LoaderOf[First]]
E == Base[LoaderOf[First]]

\* The first n pages of loader l, or application, are in f from page "at".
Holds(f, at, of, n) == \A q \in 0 .. n - 1 : f[at + q] = Whole(of, q)

\* What the baseloader needs.
StagedAll(l) == Holds(flash, B, l, B) /\ Holds(flash, 2 * B, l, E)
ReadyToCopy == BootIsWhole /\ \E l \in Loader : StagedAll(l)

SizesKnown == session.newApp = 0 \/ (session.newApp = B /\ session.newBase = E)

\* Only power lost while copying leaves less than a bootloader.
BootInv ==
  /\ mode # "stuck"
  /\ mode \in {"bootloader", "application"} => BootIsWhole /\ bkp = "none"
  /\ mode = "dead" \/ (mode = "reset" /\ ~BootIsWhole) => "copying" \in lost

\* Variables that are lost in a reset belong to a mode.
ModeInv ==
  /\ cache # None => mode = "bootloader" /\ cache.at >= B
  /\ mode \notin {"bootloader", "application"} => host = None /\ request = "none"
  /\ request \in {"base", "app"} => mode = "bootloader"

\* Whoever asks for the baseloader has staged a whole bootloader.
BaseInv ==
  /\ bkp = "base" => mode = "reset" /\ ReadyToCopy
  /\ request = "base" => ReadyToCopy
  /\ session.changed => mode = "bootloader" /\ cache = None /\ ReadyToCopy

\* How far the host has got with its image.
StagingInv ==
  LET l == LoaderOf[host.image]
      n == host.next
  IN  mode = "bootloader" /\ host # None /\ n > 0 =>
        /\ session.newApp = B
        /\ n \in 2 .. B => flash[B] = Whole(l, 0)
        /\ n <= B => ~session.changed /\ Holds(Flushed, B, l, n)
        /\ n > B /\ ~session.changed =>
             Holds(flash, 0, l, B) /\ Holds(Flushed, B, host.image, n - B)

\* How far the baseloader has got.
CopyInv ==
  mode = "copying" =>
    /\ bkp = "boot"
    /\ copy \in [from : {B}, size : {B}, done : 0 .. B - 1, erased : BOOLEAN]
    /\ \E l \in Loader : StagedAll(l) /\ Holds(flash, 0, l, copy.done)

\* A restart into the application finds it.
AppInv ==
  /\ request = "app" => \E i \in Image : Installed(i)
  /\ request = "app" /\ host # None /\ host.next = Length(host.image) => Installed(host.image)
  /\ lost \subseteq {"application"} =>
       (mode = "application" \/ (mode = "reset" /\ bkp \in {"none", "app"}) => AppRuns)

Inv ==
  TypeOK /\ SizesKnown /\ BootInv /\ ModeInv /\ BaseInv /\ StagingInv /\ CopyInv /\ AppInv

-----------------------------------------------------------------------------
(* Sizes and pages. *)

LEMMA Sizes ==
  ASSUME SameSizes
  PROVE  /\ B \in Nat /\ E \in Nat /\ Pages \in Nat
         /\ B >= 2 /\ E >= 1 /\ E <= B /\ 2 * B + E < Pages
         /\ \A l \in Loader : Boot[l] = B /\ Base[l] = E
         /\ \A i \in Image : /\ LoaderOf[i] \in Loader
                             /\ App[i] \in Nat /\ App[i] >= 1
                             /\ Length(i) = B + App[i] /\ Length(i) <= Pages
<1>1. LoaderOf[First] \in Loader /\ \A i \in Image : LoaderOf[i] \in Loader
  BY FlashAssumption
<1>2. \A l \in Loader : Boot[l] = B /\ Base[l] = E
  BY <1>1 DEF SameSizes, B, E
<1>3. B \in Nat \ {0, 1} /\ E \in Nat \ {0} /\ E <= B /\ B + B + E < Pages
  BY <1>1, FlashAssumption DEF B, E
<1>4. \A i \in Image : App[i] \in Nat \ {0} /\ Boot[LoaderOf[i]] + App[i] <= Pages
  BY FlashAssumption
<1>5. \A i \in Image : Length(i) = B + App[i] /\ Length(i) <= Pages
  BY <1>1, <1>2, <1>4 DEF Length
<1> QED
  BY <1>1, <1>2, <1>3, <1>4, <1>5, FlashAssumption

LEMMA WholePages ==
  /\ \A of \in Loader \cup Image, n \in Nat :
       /\ Whole(of, n) \in Page /\ Whole(of, n) # Blank
       /\ Whole(of, n).of = of /\ Whole(of, n).n = n
  /\ \A of, other, n, k : Whole(of, n) = Whole(other, k) => of = other /\ n = k
<1>1. \A of \in Loader \cup Image, n \in Nat : Whole(of, n) \in Page
  BY DEF Whole, Page
<1>2. \A of, n : Whole(of, n).of = of /\ Whole(of, n).n = n
  BY DEF Whole
<1>3. \A of, other, n, k : Whole(of, n) = Whole(other, k) => of = other /\ n = k
  BY DEF Whole
<1> QED
  BY <1>1, <1>2, <1>3, BlankAssumption

LEMMA Contents ==
  ASSUME SameSizes, NEW i \in Image, NEW p \in Nat
  PROVE  /\ p < B => Content(i, p) = Whole(LoaderOf[i], p)
         /\ p >= B => Content(i, p) = Whole(i, p - B)
         /\ Content(i, p) \in Page
<1>1. Boot[LoaderOf[i]] = B /\ B \in Nat /\ LoaderOf[i] \in Loader
  BY Sizes
<1>2. /\ p < B => Content(i, p) = Whole(LoaderOf[i], p)
      /\ p >= B => Content(i, p) = Whole(i, p - B)
  BY <1>1 DEF Content
<1>3. p >= B => p - B \in Nat
  BY <1>1
<1> QED
  BY <1>1, <1>2, <1>3, WholePages

\* A whole bootloader at the start of f, in terms of its pages.
LEMMA WholeBoot ==
  ASSUME SameSizes
  PROVE  /\ BootIsWhole <=> \E l \in Loader : Holds(flash, 0, l, B)
         /\ BootIsWhole => /\ AppStart = B /\ Running \in Loader
                           /\ Holds(flash, 0, Running, B)
                           /\ Base[Running] = E
<1>s. B \in Nat /\ B >= 2 /\ \A l \in Loader : Boot[l] = B /\ Base[l] = E
  BY Sizes
<1>1. ASSUME BootIsWhole
      PROVE  /\ AppStart = B /\ Running \in Loader /\ Base[Running] = E
             /\ Holds(flash, 0, Running, B)
  BY <1>1, <1>s DEF BootIsWhole, AppStart, Running, Holds
<1>2. ASSUME NEW l \in Loader, Holds(flash, 0, l, B)
      PROVE  BootIsWhole
  <2>1. \A q \in 0 .. B - 1 : flash[q] = Whole(l, q)
    BY <1>2, <1>s DEF Holds
  <2>2. flash[0] = Whole(l, 0)
    BY <2>1, <1>s
  <2>3. flash[0] \in Page /\ flash[0].of = l
    BY <2>2, WholePages
  <2> QED
    BY <2>1, <2>3, <1>s DEF BootIsWhole
<1> QED
  BY <1>1, <1>2

\* A bootloader stays as long as its pages do.
LEMMA BootStays ==
  ASSUME SameSizes, \A p \in 0 .. B - 1 : flash'[p] = flash[p]
  PROVE  (BootIsWhole' <=> BootIsWhole) /\ AppStart' = AppStart /\ Running' = Running
<1>s. B \in Nat /\ B >= 2 /\ \A l \in Loader : Boot[l] = B
  BY Sizes
<1>1. flash'[0] = flash[0]
  BY <1>s
<1> QED
  BY <1>s, <1>1 DEF BootIsWhole, AppStart, Running

LEMMA Flushing ==
  ASSUME SameSizes, TypeOK, ModeInv
  PROVE  /\ Flushed \in [Place -> Page \cup {Blank}]
         /\ \A p \in 0 .. B - 1 : Flushed[p] = flash[p]
         /\ cache = None => Flushed = flash
<1>s. B \in Nat
  BY Sizes
<1>1. CASE cache = None
  BY <1>1 DEF Flushed, TypeOK
<1>2. CASE cache # None
  <2>1. cache \in [at : Place, page : Page] /\ cache.at \in Place /\ cache.page \in Page /\ cache.at >= B
    BY <1>2 DEF TypeOK, ModeInv
  <2>2. cache.at \in Nat /\ \A p \in 0 .. B - 1 : p # cache.at
    BY <2>1, <1>s DEF Place
  <2>3. Flushed = [flash EXCEPT ![cache.at] = cache.page] /\ flash \in [Place -> Page \cup {Blank}]
    BY <1>2 DEF Flushed, TypeOK
  <2>4. \A p \in 0 .. B - 1 : p \in Place
    BY <1>s, Sizes DEF Place
  <2> QED
    BY <1>2, <2>1, <2>2, <2>3, <2>4
<1> QED
  BY <1>1, <1>2

\* A write to the cache of a page.
LEMMA Writing ==
  ASSUME TypeOK, NEW at \in Place, NEW page \in Page,
         flash' = AfterWrite(at), cache' = [at |-> at, page |-> page]
  PROVE  /\ flash' \in [Place -> Page \cup {Blank}]
         /\ cache' \in [at : Place, page : Page] /\ cache' # None
         /\ Flushed' = [Flushed EXCEPT ![at] = page]
         /\ \A p \in Place \ {at} : flash'[p] = Flushed[p]
<1>1. cache' \in [at : Place, page : Page] /\ cache' # None /\ cache'.at = at /\ cache'.page = page
  BY BlankAssumption
<1>2. Flushed' = [flash' EXCEPT ![at] = page]
  BY <1>1 DEF Flushed
<1>3. flash \in [Place -> Page \cup {Blank}]
  BY DEF TypeOK
<1>4. CASE cache # None /\ cache.at = at
  <2>1. flash' = flash /\ Flushed = [flash EXCEPT ![at] = cache.page] /\ cache.page \in Page
    BY <1>4 DEF AfterWrite, Flushed, TypeOK
  <2> QED
    BY <1>1, <1>2, <1>3, <2>1
<1>5. CASE ~(cache # None /\ cache.at = at)
  <2>1. flash' = Flushed
    BY <1>5 DEF AfterWrite
  <2>2. Flushed \in [Place -> Page \cup {Blank}]
    BY <1>3 DEF Flushed, TypeOK
  <2> QED
    BY <1>1, <1>2, <2>1, <2>2
<1> QED
  BY <1>4, <1>5

-----------------------------------------------------------------------------
(* The invariant at the start and over steps that only turn a few variables. *)

LEMMA InvInit ==
  ASSUME SameSizes, Init
  PROVE  Inv
<1>s. /\ B \in Nat /\ B >= 2 /\ Pages \in Nat /\ First \in Image /\ LoaderOf[First] \in Loader
      /\ App[First] \in Nat /\ App[First] >= 1 /\ Length(First) = B + App[First] /\ Length(First) <= Pages
  BY Sizes, FlashAssumption
<1>1. flash \in [Place -> Page \cup {Blank}]
  <2>1. \A p \in Place : Content(First, p) \in Page
    BY <1>s, Contents DEF Place
  <2> QED
    BY <2>1 DEF Init
<1>2. \A p \in 0 .. Length(First) - 1 : flash[p] = Content(First, p)
  BY <1>s DEF Init, Place
<1>3. Holds(flash, 0, LoaderOf[First], B)
  BY <1>s, <1>2, Contents DEF Holds
<1>4. BootIsWhole /\ AppStart = B
  BY <1>s, <1>3, WholeBoot
<1>5. \A p \in 0 .. App[First] - 1 : flash[B + p] = Whole(First, p)
  <2>1. ASSUME NEW p \in 0 .. App[First] - 1 PROVE flash[B + p] = Whole(First, p)
    <3>1. B + p \in 0 .. Length(First) - 1 /\ B + p >= B /\ (B + p) - B = p /\ B + p \in Nat
      BY <1>s
    <3> QED
      BY <1>2, <3>1, <1>s, Contents
  <2> QED
    BY <2>1
<1>6. AppRuns
  <2>1. flash[B] = Whole(First, 0)
    BY <1>s, <1>5
  <2>2. flash[B] # Blank /\ flash[B].of = First
    BY <1>s, <2>1, WholePages
  <2> QED
    BY <1>s, <1>4, <1>5, <2>2 DEF AppRuns, AppIsWhole
<1>7. TypeOK
  BY <1>1, FlashAssumption DEF Init, TypeOK, NoSession
<1> QED
  BY <1>3, <1>4, <1>6, <1>7
     DEF Init, Inv, SizesKnown, NoSession, BootInv, ModeInv, BaseInv, StagingInv, CopyInv, AppInv

\* The session variables after the tests that precede a write of page p.
LEMMA Sessions ==
  ASSUME SameSizes, TypeOK, SizesKnown, BootIsWhole, NEW p \in Nat
  PROVE  LET s == Found(Begun(p))
         IN  /\ s \in [found : BOOLEAN, newApp : Nat, newBase : Nat, changed : BOOLEAN]
             /\ s.newApp = B /\ s.newBase = E
             /\ s.changed => session.changed /\ p # 0
             /\ session.newApp # 0 /\ p # 0 => s.changed = session.changed
             /\ IsTable(flash[B]) => s.found
<1>s. B \in Nat /\ B >= 2 /\ E \in Nat /\ \A l \in Loader : Boot[l] = B /\ Base[l] = E
  BY Sizes
<1>b. AppStart = B /\ Running \in Loader /\ Base[Running] = E
  BY WholeBoot
<1>1. /\ Begun(p) \in [found : BOOLEAN, newApp : Nat, newBase : Nat, changed : BOOLEAN]
      /\ Begun(p).newApp = B /\ Begun(p).newBase = E
      /\ Begun(p).changed => session.changed /\ p # 0
      /\ session.newApp # 0 /\ p # 0 => Begun(p).changed = session.changed
  <2>1. CASE session.newApp = 0 \/ p = 0
    BY <1>s, <1>b, <2>1 DEF Begun, Fresh
  <2>2. CASE ~(session.newApp = 0 \/ p = 0)
    BY <1>s, <2>2 DEF Begun, TypeOK, SizesKnown
  <2> QED
    BY <2>1, <2>2
<1> DEFINE b == Begun(p)
<1> HIDE DEF b
<1>2. CASE ~b.found /\ IsTable(flash[AppStart])
  <2>1. Staged \in Loader
    BY <1>2 DEF IsTable, Staged
  <2>2. Found(b) = [b EXCEPT !.found = TRUE, !.newApp = Boot[Staged], !.newBase = Base[Staged]]
    BY <1>2 DEF Found
  <2>3. Found(b) = [found |-> TRUE, newApp |-> B, newBase |-> E, changed |-> b.changed]
    BY <1>1, <1>s, <2>1, <2>2 DEF b
  <2> QED
    BY <1>1, <1>s, <2>3 DEF b
<1>3. CASE ~(~b.found /\ IsTable(flash[AppStart]))
  <2>1. Found(b) = b
    BY <1>3 DEF Found
  <2> QED
    BY <1>1, <1>3, <1>b, <2>1 DEF b
<1> QED
  BY <1>2, <1>3

-----------------------------------------------------------------------------
(* WRITE_FLASH_PAGE. *)

SessionType == [found : BOOLEAN, newApp : Nat, newBase : Nat, changed : BOOLEAN]

\* Page n goes to the cache as page "at".
Cached(at, page) ==
  /\ Written.flash = AfterWrite(at) /\ Written.cache = [at |-> at, page |-> page]
  /\ ~Written.session.changed

\* The five things that can become of a page.
LEMMA Outcomes ==
  ASSUME SameSizes, ImagesFit, Inv, IsSending
  PROVE  LET i == host.image
             l == LoaderOf[host.image]
             n == host.next
         IN  /\ i \in Image /\ l \in Loader /\ n \in Nat /\ n < Length(i)
             /\ Written.session \in SessionType
             /\ Written.session.newApp = B /\ Written.session.newBase = E
             /\ \/ n < B /\ Cached(B + n, Whole(l, n))
                \/ /\ n = B /\ Holds(flash, 0, l, B)
                   /\ Written.flash = Flushed /\ Written.cache = [at |-> B, page |-> Whole(i, 0)]
                   /\ ~Written.session.changed
                \/ /\ n = B /\ Written.session.changed /\ Written.cache = None
                   /\ Written.flash = [p \in Place |->
                        IF p \in 2 * B .. 2 * B + E - 1 THEN Flushed[p - B] ELSE Flushed[p]]
                \/ /\ n > B /\ Written.session.changed /\ session.changed
                   /\ Written.flash = flash /\ Written.cache = cache
                \/ n > B /\ ~session.changed /\ Cached(n, Whole(i, n - B))
<1> DEFINE i == host.image
<1> DEFINE l == LoaderOf[host.image]
<1> DEFINE n == host.next
<1> DEFINE s == Found(Begun(n))
<1> DEFINE page == Content(i, n)
<1>s. /\ B \in Nat /\ B >= 2 /\ E \in Nat /\ E >= 1 /\ E <= B /\ Pages \in Nat /\ 2 * B + E < Pages
      /\ \A k \in Image : LoaderOf[k] \in Loader /\ Length(k) \in Nat /\ Length(k) < Pages
  BY Sizes DEF ImagesFit
<1>1. host \in [image : Image, next : Nat] /\ mode = "bootloader" /\ n < Length(i)
  BY DEF IsSending, Connected, Inv, TypeOK
<1>2. i \in Image /\ l \in Loader /\ n \in Nat /\ n < Pages - 1
  BY <1>1, <1>s
<1>3. BootIsWhole /\ AppStart = B
  BY <1>1, WholeBoot DEF Inv, BootInv
<1>4. /\ s \in SessionType /\ s.newApp = B /\ s.newBase = E
      /\ s.changed => session.changed /\ n # 0
      /\ session.newApp # 0 /\ n # 0 => s.changed = session.changed
      /\ IsTable(flash[B]) => s.found
  BY <1>2, <1>3, Sessions DEF Inv, SessionType
<1>5. /\ n < B => page = Whole(l, n)
      /\ n >= B => page = Whole(i, n - B)
  BY <1>2, Contents
<1>6. host # None /\ n > 0 =>
        /\ session.newApp = B
        /\ n \in 2 .. B => flash[B] = Whole(l, 0)
        /\ n <= B => ~session.changed /\ Holds(Flushed, B, l, n)
  BY <1>1 DEF Inv, StagingInv
<1>7. host # None
  BY DEF IsSending, Connected
<1>8. Written = Outcome(n, page)
  BY DEF Written
<1>9. ASSUME NEW at \in Nat, at < Pages - 1, ~s.changed
      PROVE  Stored(s, at, page) = [flash |-> AfterWrite(at), cache |-> [at |-> at, page |-> page], session |-> s]
  <2>1. at \in Place /\ at # Pages - 1
    BY <1>9, <1>s DEF Place
  <2> QED
    BY <1>9, <2>1 DEF Stored, Accepted
<1> HIDE DEF s, page
<1>10. CASE n < B
  <2>0. StagedAt(n) = B + n
    BY <1>s, <1>2, <1>3 DEF StagedAt
  <2>1. Written = Stored(s, B + n, page)
    BY <1>4, <1>8, <1>10, <2>0 DEF Outcome, s
  <2>2. ~s.changed
    BY <1>s, <1>2, <1>4, <1>6, <1>7, <1>10
  <2>3. B + n \in Nat /\ B + n < Pages - 1
    BY <1>2, <1>s, <1>10
  <2>4. Written = [flash |-> AfterWrite(B + n), cache |-> [at |-> B + n, page |-> Whole(l, n)], session |-> s]
    BY <1>5, <1>9, <1>10, <2>1, <2>2, <2>3
  <2> QED
    BY <1>1, <1>2, <1>4, <1>10, <2>2, <2>4 DEF Cached
<1>11. CASE n = B
  <2>1. flash[B] = Whole(l, 0) /\ ~session.changed /\ Holds(Flushed, B, l, B) /\ session.newApp = B
    BY <1>s, <1>2, <1>6, <1>7, <1>11
  <2>2. s.found /\ ~s.changed
    BY <1>s, <1>2, <1>4, <1>11, <2>1, WholePages DEF IsTable
  <2>3. CASE IsIdentical(s)
    <3>1. \A q \in 0 .. B - 1 : flash[q] = Whole(l, q)
      <4>1. \A q \in 0 .. B - 1 : Flushed[B + q] = Flushed[q] /\ Flushed[q] = flash[q]
        BY <1>3, <1>4, <2>3, Flushing DEF IsIdentical, Inv
      <4> QED
        BY <2>1, <4>1 DEF Holds
    <3>2. Written = [flash |-> Flushed, cache |-> [at |-> n, page |-> page], session |-> s]
      <4>1. Accepted(n, page) = page
        BY <1>2, <1>s DEF Accepted
      <4> QED
        BY <1>s, <1>4, <1>8, <1>11, <2>2, <2>3, <4>1 DEF Outcome, s
    <3>3. page = Whole(i, 0)
      BY <1>s, <1>5, <1>11
    <3>4. Holds(flash, 0, l, B)
      BY <3>1, <1>s DEF Holds
    <3> QED
      BY <1>1, <1>2, <1>4, <1>11, <2>2, <3>2, <3>3, <3>4
  <2>4. CASE ~IsIdentical(s)
    <3>1. Written = [flash |-> WithBaseloader(s), cache |-> None, session |-> [s EXCEPT !.changed = TRUE]]
      BY <1>s, <1>4, <1>8, <1>11, <2>2, <2>4 DEF Outcome, s
    <3>2. WithBaseloader(s) = [p \in Place |->
            IF p \in 2 * B .. 2 * B + E - 1 THEN Flushed[p - B] ELSE Flushed[p]]
      <4>1. AppStart + s.newApp = 2 * B /\ s.newApp = B /\ s.newBase = E
        BY <1>s, <1>3, <1>4
      <4> QED
        BY <4>1 DEF WithBaseloader
    <3>3. [s EXCEPT !.changed = TRUE] \in SessionType
          /\ [s EXCEPT !.changed = TRUE].newApp = B /\ [s EXCEPT !.changed = TRUE].newBase = E
          /\ [s EXCEPT !.changed = TRUE].changed
      BY <1>4 DEF SessionType
    <3> QED
      BY <1>1, <1>2, <1>11, <3>1, <3>2, <3>3
  <2> QED
    BY <2>3, <2>4
<1>12. CASE n > B
  <2>0. n # 0 /\ n > 0 /\ ~(n < B) /\ n # B
    BY <1>s, <1>2, <1>12
  <2>1. s.changed = session.changed
    BY <1>s, <1>4, <1>6, <1>7, <2>0
  <2>2. Written = Stored(s, n, page)
    BY <1>4, <1>8, <2>0 DEF Outcome, s
  <2>3. CASE session.changed
    <3>1. Written = [flash |-> flash, cache |-> cache, session |-> s]
      BY <2>1, <2>2, <2>3 DEF Stored
    <3> QED
      BY <1>1, <1>2, <1>4, <1>12, <2>1, <2>3, <3>1
  <2>4. CASE ~session.changed
    <3>0. ~s.changed /\ page = Whole(i, n - B)
      BY <1>s, <1>2, <1>5, <1>12, <2>1, <2>4
    <3>1. Written = [flash |-> AfterWrite(n), cache |-> [at |-> n, page |-> Whole(i, n - B)], session |-> s]
      BY <1>2, <1>9, <2>2, <3>0
    <3> QED
      BY <1>1, <1>2, <1>4, <1>12, <2>1, <2>4, <3>1 DEF Cached
  <2> QED
    BY <2>3, <2>4
<1> QED
  BY <1>10, <1>11, <1>12, <1>2, <1>s

\* The rest of the invariant over a write.
LEMMA WriteFrame ==
  ASSUME SameSizes, ImagesFit, Inv, WritePage,
         flash' \in [Place -> Page \cup {Blank}],
         cache' \in [at : Place, page : Page] \cup {None},
         cache' # None => cache'.at >= B,
         \A p \in 0 .. B - 1 : flash'[p] = flash[p],
         session'.changed => cache' = None /\ ReadyToCopy',
         StagingInv'
  PROVE  Inv'
<1>1. /\ mode = "bootloader" /\ mode' = mode /\ bkp' = bkp /\ request' = request /\ copy' = copy
      /\ lost' = lost /\ spare' = spare /\ host # None /\ request = "none"
      /\ host' = [host EXCEPT !.next = @ + 1] /\ session' = Written.session /\ IsSending
  BY DEF WritePage, IsSending, Connected
<1>2. Written.session \in SessionType /\ Written.session.newApp = B /\ Written.session.newBase = E
  BY <1>1, Outcomes
<1>3. TypeOK'
  <2>1. host' \in [image : Image, next : Nat] \cup {None}
    BY <1>1 DEF Inv, TypeOK
  <2> QED
    BY <1>1, <1>2, <2>1 DEF Inv, TypeOK, SessionType
<1>4. SizesKnown'
  BY <1>1, <1>2 DEF SizesKnown, B, E
<1>5. BootInv'
  BY <1>1, BootStays DEF Inv, BootInv
<1>6. ModeInv'
  BY <1>1 DEF Inv, ModeInv, B
<1>7. BaseInv'
  BY <1>1 DEF Inv, BootInv, BaseInv
<1>8. CopyInv' /\ AppInv'
  BY <1>1 DEF CopyInv, AppInv, Inv, BootInv
<1> QED
  BY <1>3, <1>4, <1>5, <1>6, <1>7, <1>8 DEF Inv

LEMMA InvWritePage ==
  ASSUME SameSizes, ImagesFit, Inv, WritePage
  PROVE  Inv'
<1> DEFINE i == host.image
<1> DEFINE l == LoaderOf[host.image]
<1> DEFINE n == host.next
<1>s. /\ B \in Nat /\ B >= 2 /\ E \in Nat /\ E >= 1 /\ E <= B /\ Pages \in Nat /\ 2 * B + E < Pages
      /\ \A k \in Image : Length(k) \in Nat /\ Length(k) < Pages
  BY Sizes DEF ImagesFit
<1>1. /\ IsSending /\ flash' = Written.flash /\ cache' = Written.cache /\ session' = Written.session
      /\ host' = [host EXCEPT !.next = @ + 1]
      /\ mode = "bootloader" /\ mode' = mode /\ host # None
  BY DEF WritePage, IsSending, Connected
<1>2. /\ i \in Image /\ l \in Loader /\ n \in Nat /\ n < Length(i)
      /\ session'.newApp = B /\ session'.newBase = E
  BY <1>1, Outcomes
<1>3. host'.image = i /\ host'.next = n + 1 /\ n < Pages - 1
  <2>1. host \in [image : Image, next : Nat]
    BY <1>1 DEF Inv, TypeOK
  <2>2. host' \in [image : Image, next : Nat] /\ host'.image = i /\ host'.next = n + 1
    BY <1>1, <2>1
  <2>3. Length(i) \in Nat /\ Length(i) < Pages
    BY <1>2, <1>s
  <2> QED
    BY <1>2, <1>s, <2>2, <2>3
<1>4. /\ Flushed \in [Place -> Page \cup {Blank}]
      /\ \A p \in 0 .. B - 1 : Flushed[p] = flash[p] /\ p \in Place
  BY <1>s, Flushing DEF Inv, Place
<1>5. n > 0 /\ n <= B => Holds(Flushed, B, l, n)
  BY <1>1, <1>2 DEF Inv, StagingInv
<1>6. /\ Whole(l, n) \in Page /\ Whole(i, 0) \in Page
      /\ n > B => Whole(i, n - B) \in Page
  <2>1. n > B => n - B \in Nat
    BY <1>s, <1>2
  <2> QED
    BY <1>2, <2>1, WholePages
<1>7. /\ TypeOK
      /\ B + n < Pages \/ n >= B
      /\ n \in Place /\ B \in Place
  BY <1>s, <1>2, <1>3 DEF Inv, Place
<1>w. ASSUME NEW at \in Place, NEW page \in Page, at >= B, Cached(at, page)
      PROVE  /\ flash' \in [Place -> Page \cup {Blank}]
             /\ cache' \in [at : Place, page : Page] /\ cache'.at >= B
             /\ Flushed' = [Flushed EXCEPT ![at] = page]
             /\ \A p \in Place \ {at} : flash'[p] = Flushed[p]
             /\ \A p \in 0 .. B - 1 : flash'[p] = flash[p]
             /\ ~session'.changed
  <2>1. flash' = AfterWrite(at) /\ cache' = [at |-> at, page |-> page] /\ ~session'.changed
    BY <1>1, <1>w DEF Cached
  <2>2. /\ flash' \in [Place -> Page \cup {Blank}] /\ cache' \in [at : Place, page : Page]
        /\ Flushed' = [Flushed EXCEPT ![at] = page]
        /\ \A p \in Place \ {at} : flash'[p] = Flushed[p]
    BY <1>7, <2>1, Writing
  <2>3. at \in Nat /\ \A p \in 0 .. B - 1 : p # at
    BY <1>s, <1>w DEF Place
  <2>4. cache'.at = at
    BY <2>1
  <2> QED
    BY <1>4, <1>w, <2>1, <2>2, <2>3, <2>4
<1> HIDE DEF i, l, n
<1>10. CASE n < B /\ Cached(B + n, Whole(l, n))
  <2>0. B + n \in Place /\ B + n >= B
    BY <1>s, <1>2, <1>10 DEF Place
  <2>1. /\ flash' \in [Place -> Page \cup {Blank}]
        /\ cache' \in [at : Place, page : Page] /\ cache'.at >= B
        /\ Flushed' = [Flushed EXCEPT ![B + n] = Whole(l, n)]
        /\ \A p \in Place \ {B + n} : flash'[p] = Flushed[p]
        /\ \A p \in 0 .. B - 1 : flash'[p] = flash[p]
        /\ ~session'.changed
    BY <1>6, <1>10, <1>w, <2>0
  <2>2. Holds(Flushed', B, l, n + 1)
    <3>1. ASSUME NEW q \in 0 .. n PROVE Flushed'[B + q] = Whole(l, q)
      <4>0. B + q \in Place
        BY <1>s, <1>2, <1>10 DEF Place
      <4>1. CASE q = n
        BY <1>4, <2>0, <2>1, <4>1
      <4>2. CASE q # n
        <5>1. q \in 0 .. n - 1 /\ n > 0 /\ n <= B /\ B + q # B + n
          BY <1>s, <1>2, <1>10, <4>2
        <5>2. Flushed[B + q] = Whole(l, q)
          BY <1>5, <5>1 DEF Holds
        <5> QED
          BY <1>4, <2>1, <4>0, <5>1, <5>2
      <4> QED
        BY <4>1, <4>2
    <3> QED
      BY <1>2, <3>1 DEF Holds
  <2>3. n + 1 \in 2 .. B => flash'[B] = Whole(l, 0)
    <3>1. SUFFICES ASSUME n >= 1 PROVE flash'[B] = Whole(l, 0)
      BY <1>2, <1>s
    <3>2. Flushed[B] = Whole(l, 0)
      BY <1>2, <1>5, <1>10, <1>s, <3>1 DEF Holds
    <3>3. B # B + n
      BY <1>s, <1>2, <3>1
    <3> QED
      BY <1>7, <2>1, <3>2, <3>3
  <2>4. StagingInv'
    <3>1. ~(n + 1 > B)
      BY <1>s, <1>2, <1>10
    <3> QED
      BY <1>2, <1>3, <2>1, <2>2, <2>3, <3>1 DEF StagingInv, l, i, B
  <2> QED
    BY <2>1, <2>4, WriteFrame
<1>11. CASE /\ n = B /\ Holds(flash, 0, l, B)
            /\ Written.flash = Flushed /\ Written.cache = [at |-> B, page |-> Whole(i, 0)]
            /\ ~Written.session.changed
  <2>1. /\ flash' = Flushed /\ cache' = [at |-> B, page |-> Whole(i, 0)] /\ ~session'.changed
        /\ cache' \in [at : Place, page : Page] /\ cache' # None /\ cache'.at = B
    BY <1>1, <1>6, <1>7, <1>11, BlankAssumption
  <2>2. Flushed' = [Flushed EXCEPT ![B] = Whole(i, 0)]
    BY <2>1 DEF Flushed
  <2>3. Holds(flash', 0, l, B)
    BY <1>4, <1>11, <1>s, <2>1 DEF Holds
  <2>4. Holds(Flushed', B, i, 1)
    BY <1>4, <1>7, <1>s, <2>2 DEF Holds
  <2>5. StagingInv'
    <3>1. n + 1 > B /\ ~(n + 1 <= B) /\ (n + 1) - B = 1 /\ ~(n + 1 \in 2 .. B)
      BY <1>s, <1>11
    <3> QED
      BY <1>2, <1>3, <2>1, <2>3, <2>4, <3>1 DEF StagingInv, l, i, B
  <2> QED
    BY <1>4, <1>s, <2>1, <2>5, WriteFrame
<1>12. CASE /\ n = B /\ Written.session.changed /\ Written.cache = None
            /\ Written.flash = [p \in Place |->
                 IF p \in 2 * B .. 2 * B + E - 1 THEN Flushed[p - B] ELSE Flushed[p]]
  <2>1. /\ cache' = None /\ session'.changed
        /\ flash' = [p \in Place |->
                       IF p \in 2 * B .. 2 * B + E - 1 THEN Flushed[p - B] ELSE Flushed[p]]
    BY <1>1, <1>12
  <2>2. flash' \in [Place -> Page \cup {Blank}]
    <3>1. \A p \in Place : p \in 2 * B .. 2 * B + E - 1 => p - B \in Place
      BY <1>s DEF Place
    <3> QED
      BY <1>4, <2>1, <3>1
  <2>3. \A p \in 0 .. B - 1 : flash'[p] = flash[p]
    <3>1. \A p \in 0 .. B - 1 : p \notin 2 * B .. 2 * B + E - 1
      BY <1>s
    <3> QED
      BY <1>4, <2>1, <3>1
  <2>4. BootIsWhole /\ BootIsWhole'
    BY <1>1, <2>3, BootStays DEF Inv, BootInv
  <2>5. \A q \in 0 .. B - 1 : Flushed[B + q] = Whole(l, q)
    BY <1>5, <1>12, <1>s DEF Holds
  <2>6. \A q \in 0 .. B - 1 : flash'[B + q] = Whole(l, q)
    <3>1. \A q \in 0 .. B - 1 : B + q \in Place /\ B + q \notin 2 * B .. 2 * B + E - 1
      BY <1>s DEF Place
    <3> QED
      BY <2>1, <2>5, <3>1
  <2>7. \A q \in 0 .. E - 1 : flash'[2 * B + q] = Whole(l, q)
    <3>1. \A q \in 0 .. E - 1 : /\ 2 * B + q \in Place /\ 2 * B + q \in 2 * B .. 2 * B + E - 1
                                /\ (2 * B + q) - B = B + q /\ q \in 0 .. B - 1
      BY <1>s DEF Place
    <3> QED
      BY <2>1, <2>5, <3>1
  <2>8. ReadyToCopy'
    BY <1>2, <2>4, <2>6, <2>7 DEF ReadyToCopy, StagedAll, Holds, B, E
  <2>9. StagingInv'
    <3>1. ~(n + 1 <= B) /\ ~(n + 1 \in 2 .. B)
      BY <1>s, <1>12
    <3> QED
      BY <1>2, <1>3, <2>1, <3>1 DEF StagingInv, B
  <2> QED
    BY <2>1, <2>2, <2>3, <2>8, <2>9, WriteFrame
<1>13. CASE /\ n > B /\ Written.session.changed /\ session.changed
            /\ Written.flash = flash /\ Written.cache = cache
  <2>1. flash' = flash /\ cache' = cache /\ session'.changed /\ cache = None /\ ReadyToCopy
    BY <1>1, <1>13 DEF Inv, BaseInv
  <2>2. ReadyToCopy'
    BY <2>1 DEF ReadyToCopy, StagedAll, BootIsWhole
  <2>3. StagingInv'
    <3>1. ~(n + 1 <= B) /\ ~(n + 1 \in 2 .. B)
      BY <1>s, <1>2, <1>13
    <3> QED
      BY <1>2, <1>3, <2>1, <3>1 DEF StagingInv, B
  <2> QED
    BY <1>7, <2>1, <2>2, <2>3, WriteFrame DEF TypeOK
<1>14. CASE n > B /\ ~session.changed /\ Cached(n, Whole(i, n - B))
  <2>0. n >= B
    BY <1>s, <1>2, <1>14
  <2>1. /\ flash' \in [Place -> Page \cup {Blank}]
        /\ cache' \in [at : Place, page : Page] /\ cache'.at >= B
        /\ Flushed' = [Flushed EXCEPT ![n] = Whole(i, n - B)]
        /\ \A p \in 0 .. B - 1 : flash'[p] = flash[p]
        /\ ~session'.changed
    BY <1>6, <1>7, <1>14, <1>w, <2>0
  <2>2. Holds(flash, 0, l, B) /\ Holds(Flushed, B, i, n - B)
    BY <1>1, <1>2, <1>14, <1>s DEF Inv, StagingInv, l, i, n
  <2>3. Holds(flash', 0, l, B)
    BY <1>s, <2>1, <2>2 DEF Holds
  <2>4. Holds(Flushed', B, i, (n + 1) - B)
    <3>1. ASSUME NEW q \in 0 .. n - B PROVE Flushed'[B + q] = Whole(i, q)
      <4>0. q \in Nat /\ B + q \in Nat /\ B + q <= n /\ B + q \in Place
        BY <1>s, <1>2, <1>7, <1>14 DEF Place
      <4>1. CASE B + q = n
        <5>1. q = n - B
          BY <1>s, <1>2, <4>0, <4>1
        <5> QED
          BY <1>4, <1>7, <2>1, <4>1, <5>1
      <4>2. CASE B + q # n
        <5>1. q \in 0 .. (n - B) - 1
          BY <1>s, <1>2, <4>0, <4>2
        <5>2. Flushed[B + q] = Whole(i, q)
          BY <2>2, <5>1 DEF Holds
        <5> QED
          BY <1>4, <2>1, <4>0, <4>2, <5>2
      <4> QED
        BY <4>1, <4>2
    <3>2. ((n + 1) - B) - 1 = n - B
      BY <1>s, <1>2
    <3> QED
      BY <3>1, <3>2 DEF Holds
  <2>5. StagingInv'
    <3>1. ~(n + 1 <= B) /\ ~(n + 1 \in 2 .. B) /\ n + 1 > B
      BY <1>s, <1>2, <1>14
    <3> QED
      BY <1>2, <1>3, <2>1, <2>3, <2>4, <3>1 DEF StagingInv, l, i, B
  <2> QED
    BY <2>1, <2>5, WriteFrame
<1> QED
  BY <1>1, <1>10, <1>11, <1>12, <1>13, <1>14, Outcomes DEF i, l, n

-----------------------------------------------------------------------------
(* Steps that reset the processor. *)

\* What a step that ends in a reset has to show.
LEMMA IntoReset ==
  ASSUME SameSizes, TypeOK, Reset,
         flash' \in [Place -> Page \cup {Blank}],
         bkp' \in {"none", "base", "boot", "app"},
         lost' \subseteq {"reset", "stuck", "copying", "bootloader", "application"},
         spare' \in 0 .. Spare,
         ~BootIsWhole' => "copying" \in lost',
         bkp' = "base" => ReadyToCopy',
         lost' \subseteq {"application"} /\ bkp' \in {"none", "app"} => AppRuns'
  PROVE  Inv'
<1>1. /\ mode' = "reset" /\ cache' = None /\ session' = NoSession /\ request' = "none"
      /\ copy' = None /\ host' = None
  BY DEF Reset
<1>2. TypeOK'
  BY <1>1 DEF TypeOK, NoSession
<1> QED
  BY <1>1, <1>2
     DEF Inv, SizesKnown, NoSession, BootInv, ModeInv, BaseInv, StagingInv, CopyInv, AppInv

\* What is said of the flash alone stays as long as the flash does.
LEMMA FlashStays ==
  ASSUME flash' = flash
  PROVE  /\ BootIsWhole' = BootIsWhole /\ ReadyToCopy' = ReadyToCopy
         /\ AppRuns' = AppRuns /\ \A i \in Image : Installed(i)' = Installed(i)
BY DEF BootIsWhole, ReadyToCopy, StagedAll, Holds, AppRuns, Installed, AppIsWhole, AppStart, Running,
       B, E

LEMMA InstalledRuns ==
  ASSUME SameSizes, NEW i \in Image, Installed(i)
  PROVE  AppRuns
<1>1. App[i] \in Nat /\ App[i] >= 1 /\ LoaderOf[i] \in Loader /\ AppIsWhole(i) /\ Running = LoaderOf[i]
  BY Sizes DEF Installed
<1>2. AppStart \in Nat
  BY <1>1, Sizes DEF AppStart
<1>3. flash[AppStart] = Whole(i, 0)
  <2>1. 0 \in 0 .. App[i] - 1 /\ AppStart + 0 = AppStart
    BY <1>1, <1>2
  <2> QED
    BY <1>1, <2>1 DEF AppIsWhole
<1>4. flash[AppStart] # Blank /\ flash[AppStart].of = i
  BY <1>3, WholePages
<1> QED
  BY <1>1, <1>4 DEF AppRuns

LEMMA InvRestart ==
  ASSUME SameSizes, Inv, Restart \/ StartFlash
  PROVE  Inv'
<1>1. /\ Reset /\ flash' = flash /\ lost' = lost /\ spare' = spare
      /\ mode \in {"bootloader", "application"}
      /\ bkp' \in {"base", "boot", "app"}
      /\ bkp' \in {"base", "app"} => bkp' = request
  BY DEF Restart, StartFlash, Answers, Connected, Inv, TypeOK
<1>2. BootIsWhole
  BY <1>1 DEF Inv, BootInv
<1>3. bkp' = "base" => ReadyToCopy
  BY <1>1 DEF Inv, BaseInv
<1>4. bkp' = "app" => AppRuns
  BY <1>1, InstalledRuns DEF Inv, AppInv
<1> QED
  BY <1>1, <1>2, <1>3, <1>4, FlashStays, IntoReset DEF Inv, TypeOK

\* Losing power in the midst of writing the flash leaves the other pages alone.
LEMMA Tearing ==
  ASSUME flash \in [Place -> Page \cup {Blank}],
         NEW f \in [Place -> Page \cup {Blank}], NEW g \in Interrupted(f)
  PROVE  /\ g \in [Place -> Page \cup {Blank}]
         /\ \A q \in Place : f[q] = flash[q] => g[q] = flash[q]
<1>0. \A p, q : Torn(f, p, q) = IF q < p THEN f[q] ELSE flash[q]
  BY DEF Torn
<1>1. CASE \E p \in Place : /\ f[p] # flash[p]
                            /\ g = [q \in Place |-> IF q = p THEN Blank ELSE Torn(f, p, q)]
  BY <1>0, <1>1
<1>2. CASE \E p \in Place : /\ f[p] # flash[p] /\ f[p] # Blank
                            /\ g = [q \in Place |-> IF q = p THEN [f[p] EXCEPT !.whole = FALSE]
                                                             ELSE Torn(f, p, q)]
  <2>1. PICK p \in Place : /\ f[p] # flash[p] /\ f[p] # Blank
                           /\ g = [q \in Place |-> IF q = p THEN [f[p] EXCEPT !.whole = FALSE]
                                                            ELSE Torn(f, p, q)]
    BY <1>2
  <2>2. [f[p] EXCEPT !.whole = FALSE] \in Page
    BY <2>1 DEF Page
  <2> QED
    BY <1>0, <2>1, <2>2
<1> QED
  BY <1>1, <1>2 DEF Interrupted

\* What a write makes of the flash, whichever of the five outcomes it has.
LEMMA WritesAbove ==
  ASSUME SameSizes, ImagesFit, Inv, IsSending
  PROVE  /\ Written.flash \in [Place -> Page \cup {Blank}]
         /\ \A p \in 0 .. B - 1 : Written.flash[p] = flash[p]
<1>s. /\ B \in Nat /\ B >= 2 /\ E \in Nat /\ E >= 1 /\ E <= B /\ Pages \in Nat /\ 2 * B + E < Pages
  BY Sizes
<1>1. /\ flash \in [Place -> Page \cup {Blank}]
      /\ Flushed \in [Place -> Page \cup {Blank}]
      /\ \A p \in 0 .. B - 1 : Flushed[p] = flash[p] /\ p \in Place
  BY <1>s, Flushing DEF Inv, TypeOK, Place
<1>2. \A at : AfterWrite(at) \in {flash, Flushed}
  BY DEF AfterWrite
<1>3. \/ Written.flash \in {flash, Flushed}
      \/ Written.flash = [p \in Place |->
           IF p \in 2 * B .. 2 * B + E - 1 THEN Flushed[p - B] ELSE Flushed[p]]
  BY <1>2, Outcomes DEF Cached
<1>4. /\ \A p \in Place : p \in 2 * B .. 2 * B + E - 1 => p - B \in Place
      /\ \A p \in 0 .. B - 1 : p \notin 2 * B .. 2 * B + E - 1
  BY <1>s DEF Place
<1> QED
  BY <1>1, <1>3, <1>4

LEMMA InvLosePower ==
  ASSUME SameSizes, ImagesFit, Inv, LosePower
  PROVE  Inv'
<1>s. /\ B \in Nat /\ Pages \in Nat /\ \A p \in 0 .. B - 1 : p \in Place
      /\ \A l \in Loader : Boot[l] = B
  BY Sizes DEF Place
<1>1. /\ Reset /\ flash' \in Remains /\ bkp' \in {bkp, "none"}
      /\ lost' = lost \cup {mode} /\ spare' = spare - 1 /\ spare > 0 /\ mode # "dead"
  BY DEF LosePower
<1>2. /\ flash \in [Place -> Page \cup {Blank}]
      /\ Flushed \in [Place -> Page \cup {Blank}]
      /\ \A p \in 0 .. B - 1 : Flushed[p] = flash[p]
  BY Flushing DEF Inv, TypeOK
<1>3. CASE flash' = flash
  <2>1. ~BootIsWhole => "copying" \in lost'
    BY <1>1 DEF Inv, BootInv, TypeOK
  <2>2. bkp' = "base" => ReadyToCopy
    BY <1>1 DEF Inv, BaseInv
  <2>3. lost' \subseteq {"application"} /\ bkp' \in {"none", "app"} => AppRuns
    BY <1>1 DEF Inv, AppInv
  <2>4. spare' \in 0 .. Spare
    BY <1>1, FlashAssumption DEF Inv, TypeOK
  <2> QED
    BY <1>1, <1>3, <2>1, <2>2, <2>3, <2>4, FlashStays, IntoReset DEF Inv, TypeOK, BootInv
<1>4. CASE mode = "bootloader" /\ flash' # flash
  <2>1. PICK f \in {Flushed, Written.flash} :
          flash' \in Interrupted(f) /\ (f = Flushed \/ IsSending)
    BY <1>1, <1>4 DEF Remains
  <2>2. f \in [Place -> Page \cup {Blank}] /\ \A p \in 0 .. B - 1 : f[p] = flash[p]
    BY <1>2, <2>1, WritesAbove
  <2>3. /\ flash' \in [Place -> Page \cup {Blank}]
        /\ \A p \in 0 .. B - 1 : flash'[p] = flash[p]
    BY <1>s, <1>2, <2>1, <2>2, Tearing
  <2>4. BootIsWhole'
    BY <1>4, <2>3, BootStays DEF Inv, BootInv
  <2>5. bkp' # "base" /\ ~(lost' \subseteq {"application"}) /\ spare' \in 0 .. Spare
    BY <1>1, <1>4, FlashAssumption DEF Inv, BootInv, TypeOK
  <2>6. lost' \subseteq {"reset", "stuck", "copying", "bootloader", "application"}
        /\ bkp' \in {"none", "base", "boot", "app"}
    BY <1>1, <1>4 DEF Inv, TypeOK
  <2> QED
    BY <1>1, <2>3, <2>4, <2>5, <2>6, IntoReset DEF Inv
<1>5. CASE mode = "copying" /\ flash' # flash
  <2>1. ~IsSending
    BY <1>5 DEF IsSending
  <2>2. flash' \in Interrupted([flash EXCEPT ![copy.done] = flash[copy.from + copy.done]])
    BY <1>1, <1>5, <2>1 DEF Remains
  <2>3. copy.done \in Place /\ copy.from + copy.done \in Place
    BY <1>5, <1>s, Sizes DEF Inv, CopyInv, Place
  <2>4. [flash EXCEPT ![copy.done] = flash[copy.from + copy.done]] \in [Place -> Page \cup {Blank}]
    BY <1>2, <2>3
  <2>5. flash' \in [Place -> Page \cup {Blank}]
    BY <1>2, <2>2, <2>4, Tearing
  <2>6. bkp' # "base" /\ "copying" \in lost' /\ spare' \in 0 .. Spare
    BY <1>1, <1>5, FlashAssumption DEF Inv, CopyInv, TypeOK
  <2>7. lost' \subseteq {"reset", "stuck", "copying", "bootloader", "application"}
        /\ bkp' \in {"none", "base", "boot", "app"} /\ ~(lost' \subseteq {"application"})
    BY <1>1, <1>5, <2>6 DEF Inv, TypeOK
  <2> QED
    BY <1>1, <2>5, <2>6, <2>7, IntoReset DEF Inv
<1> QED
  <2>1. mode \notin {"bootloader", "copying"} => flash' = flash
    BY <1>1 DEF Remains, IsSending
  <2> QED
    BY <1>3, <1>4, <1>5, <2>1

-----------------------------------------------------------------------------
(* Start-up and the baseloader. *)

LEMMA InvStartUp ==
  ASSUME SameSizes, Inv, StartUp
  PROVE  Inv'
<1>s. /\ B \in Nat /\ B >= 2 /\ E \in Nat /\ E >= 1 /\ E <= B /\ Pages \in Nat /\ 2 * B + E < Pages
      /\ \A l \in Loader : Boot[l] = B /\ Base[l] = E
  BY Sizes
<1>1. /\ mode = "reset" /\ flash' = flash /\ cache' = cache /\ session' = session
      /\ request' = request /\ host' = host /\ lost' = lost /\ spare' = spare
  BY DEF StartUp
<1>2. host = None /\ request = "none" /\ cache = None /\ ~session.changed
  BY <1>1 DEF Inv, ModeInv, BaseInv
<1>3. CASE ~BootIsWhole
  <2>1. mode' = "dead" /\ bkp' = bkp /\ copy' = copy /\ "copying" \in lost /\ bkp # "base"
    BY <1>1, <1>3 DEF StartUp, Inv, BootInv, BaseInv, ReadyToCopy
  <2> QED
    BY <1>1, <1>2, <2>1
       DEF Inv, TypeOK, SizesKnown, BootInv, ModeInv, BaseInv, StagingInv, CopyInv, AppInv, B, E
<1>4. CASE BootIsWhole /\ bkp = "base"
  <2>1. PICK l \in Loader : StagedAll(l)
    BY <1>4 DEF Inv, BaseInv, ReadyToCopy
  <2>2. AppStart = B
    BY <1>4, WholeBoot
  <2>3. flash[B] = Whole(l, 0) /\ flash[2 * B] = Whole(l, 0)
    <3>1. 0 \in 0 .. B - 1 /\ 0 \in 0 .. E - 1 /\ B + 0 = B /\ 2 * B + 0 = 2 * B
      BY <1>s
    <3> QED
      BY <2>1, <3>1 DEF StagedAll, Holds
  <2>4. IsTable(flash[B]) /\ IsTable(flash[2 * B]) /\ Staged = l
    BY <2>2, <2>3, WholePages DEF IsTable, Staged
  <2>5. IsFetched
    <3>1. AppStart + Boot[Staged] = 2 * B /\ 2 * B + 1 < Pages
      BY <1>s, <2>2, <2>4
    <3> QED
      BY <2>2, <2>4, <3>1 DEF IsFetched
  <2>6. /\ mode' = "copying" /\ bkp' = "boot"
        /\ copy' = [from |-> B, size |-> B, done |-> 0, erased |-> FALSE]
    <3>1. copy' = [from |-> AppStart, size |-> Boot[Staged], done |-> 0, erased |-> FALSE]
          /\ mode' = "copying" /\ bkp' = "boot"
      BY <1>1, <1>4, <2>5 DEF StartUp, ModeAfterBaseloader
    <3> QED
      BY <1>s, <2>2, <2>4, <3>1
  <2>7. TypeOK'
    BY <1>1, <1>s, <2>6 DEF Inv, TypeOK
  <2>8. CopyInv'
    <3>1. copy' \in [from : {B}, size : {B}, done : 0 .. B - 1, erased : BOOLEAN]
          /\ copy'.done = 0
      BY <1>s, <2>6
    <3>2. StagedAll(l)' /\ Holds(flash', 0, l, 0)
      BY <1>1, <2>1 DEF StagedAll, Holds, B, E
    <3> QED
      BY <2>6, <3>1, <3>2 DEF CopyInv, B
  <2> QED
    BY <1>1, <1>2, <1>4, <2>6, <2>7, <2>8
       DEF Inv, SizesKnown, BootInv, ModeInv, BaseInv, StagingInv, AppInv, B, E
<1>5. CASE BootIsWhole /\ bkp # "base"
  <2>1. /\ bkp' = "none" /\ copy' = copy
        /\ mode' = IF bkp = "boot" \/ ~AppIsValid THEN "bootloader" ELSE "application"
    BY <1>1, <1>5 DEF StartUp
  <2>2. mode' \in {"bootloader", "application"} /\ (mode' = "application" => bkp \in {"none", "app"})
    BY <1>5, <2>1 DEF Inv, TypeOK
  <2>3. lost \subseteq {"application"} /\ mode' = "application" => AppRuns'
    BY <1>1, <2>2, FlashStays DEF Inv, AppInv
  <2>4. BootIsWhole'
    BY <1>1, <1>5, FlashStays
  <2> QED
    BY <1>1, <1>2, <2>1, <2>2, <2>3, <2>4
       DEF Inv, TypeOK, SizesKnown, BootInv, ModeInv, BaseInv, StagingInv, CopyInv, AppInv, B, E
<1> QED
  BY <1>3, <1>4, <1>5

\* A page of the old bootloader is replaced: what is staged is still there.
LEMMA StagedStays ==
  ASSUME SameSizes, flash \in [Place -> Page \cup {Blank}], NEW l \in Loader, StagedAll(l),
         NEW d \in 0 .. B - 1, NEW page, flash' = [flash EXCEPT ![d] = page],
         Holds(flash, 0, l, d)
  PROVE  /\ StagedAll(l)' /\ Holds(flash', 0, l, d) /\ flash'[d] = page
         /\ flash[B + d] = Whole(l, d)
<1>s. /\ B \in Nat /\ B >= 2 /\ E \in Nat /\ E >= 1 /\ E <= B /\ Pages \in Nat /\ 2 * B + E < Pages
  BY Sizes
<1>1. /\ \A q \in 0 .. B - 1 : B + q \in Place /\ B + q # d
      /\ \A q \in 0 .. E - 1 : 2 * B + q \in Place /\ 2 * B + q # d
      /\ \A q \in 0 .. d - 1 : 0 + q \in Place /\ 0 + q # d
      /\ d \in Place
  BY <1>s DEF Place
<1>2. \A p \in Place : p # d => flash'[p] = flash[p]
  OBVIOUS
<1> QED
  BY <1>1, <1>2 DEF StagedAll, Holds, B, E

LEMMA InvCopyErase ==
  ASSUME SameSizes, Inv, CopyErase
  PROVE  Inv'
<1>1. /\ mode = "copying" /\ mode' = mode /\ bkp' = bkp /\ bkp = "boot"
      /\ flash' = [flash EXCEPT ![copy.done] = Blank]
      /\ copy' = [copy EXCEPT !.erased = TRUE]
      /\ cache' = cache /\ session' = session /\ request' = request /\ host' = host
      /\ lost' = lost /\ spare' = spare
      /\ copy \in [from : {B}, size : {B}, done : 0 .. B - 1, erased : BOOLEAN]
  BY DEF CopyErase, Inv, CopyInv
<1>2. PICK l \in Loader : StagedAll(l) /\ Holds(flash, 0, l, copy.done)
  BY <1>1 DEF Inv, CopyInv
<1>3. flash \in [Place -> Page \cup {Blank}]
  BY DEF Inv, TypeOK
<1>4. StagedAll(l)' /\ Holds(flash', 0, l, copy.done)
  BY <1>1, <1>2, <1>3, StagedStays
<1>5. copy' \in [from : {B}, size : {B}, done : 0 .. B - 1, erased : BOOLEAN]
      /\ copy'.done = copy.done
  BY <1>1
<1>6. TypeOK'
  <2>1. flash' \in [Place -> Page \cup {Blank}]
    BY <1>1, <1>3
  <2>2. copy' \in [from : Nat, size : Nat, done : Nat, erased : BOOLEAN]
    BY <1>5, Sizes
  <2> QED
    BY <1>1, <2>1, <2>2 DEF Inv, TypeOK
<1>7. CopyInv'
  BY <1>1, <1>4, <1>5 DEF CopyInv, B
<1> QED
  BY <1>1, <1>6, <1>7
     DEF Inv, SizesKnown, BootInv, ModeInv, BaseInv, StagingInv, AppInv, B, E

LEMMA InvCopyProgram ==
  ASSUME SameSizes, Inv, CopyProgram
  PROVE  Inv'
<1>s. B \in Nat /\ B >= 2 /\ Pages \in Nat /\ 2 * B < Pages
  BY Sizes
<1>1. /\ mode = "copying" /\ bkp' = bkp /\ bkp = "boot"
      /\ flash' = [flash EXCEPT ![copy.done] = flash[B + copy.done]]
      /\ lost' = lost /\ spare' = spare
      /\ copy \in [from : {B}, size : {B}, done : 0 .. B - 1, erased : BOOLEAN]
  BY DEF CopyProgram, Inv, CopyInv
<1>2. PICK l \in Loader : StagedAll(l) /\ Holds(flash, 0, l, copy.done)
  BY <1>1 DEF Inv, CopyInv
<1>3. flash \in [Place -> Page \cup {Blank}]
  BY DEF Inv, TypeOK
<1>4. StagedAll(l)' /\ Holds(flash', 0, l, copy.done) /\ flash'[copy.done] = Whole(l, copy.done)
  <2> DEFINE d == copy.done
             page == flash[B + d]
  <2>1. /\ d \in 0 .. B - 1 /\ flash' = [flash EXCEPT ![d] = page]
        /\ StagedAll(l) /\ Holds(flash, 0, l, d) /\ page = flash[B + d]
    BY <1>1, <1>2
  <2> HIDE DEF d, page
  <2>2. /\ StagedAll(l)' /\ Holds(flash', 0, l, d) /\ flash'[d] = page
        /\ flash[B + d] = Whole(l, d)
    BY <1>3, <2>1, StagedStays
  <2> QED
    BY <2>1, <2>2 DEF d
<1>5. Holds(flash', 0, l, copy.done + 1)
  <2>1. \A q \in 0 .. copy.done : q \in 0 .. copy.done - 1 \/ q = copy.done
    BY <1>1, <1>s
  <2>2. (copy.done + 1) - 1 = copy.done /\ 0 + copy.done = copy.done
    BY <1>1, <1>s
  <2> QED
    BY <1>4, <2>1, <2>2 DEF Holds
<1>6. flash' \in [Place -> Page \cup {Blank}]
  <2>1. B + copy.done \in Place
    BY <1>1, <1>s, Sizes DEF Place
  <2> QED
    BY <1>1, <1>3, <2>1
<1>7. CASE copy.done + 1 < copy.size
  <2>1. /\ copy' = [copy EXCEPT !.done = @ + 1, !.erased = FALSE]
        /\ mode' = mode /\ cache' = cache /\ session' = session /\ request' = request /\ host' = host
    BY <1>1, <1>7, <1>s DEF CopyProgram
  <2>2. copy' \in [from : {B}, size : {B}, done : 0 .. B - 1, erased : BOOLEAN]
        /\ copy'.done = copy.done + 1
    <3>1. copy.done + 1 \in 0 .. B - 1
      BY <1>1, <1>7, <1>s
    <3> QED
      BY <1>1, <2>1, <3>1
  <2>3. TypeOK'
    <3>1. copy' \in [from : Nat, size : Nat, done : Nat, erased : BOOLEAN]
      BY <2>2, <1>s
    <3> QED
      BY <1>1, <1>6, <2>1, <3>1 DEF Inv, TypeOK
  <2>4. CopyInv'
    BY <1>1, <1>4, <1>5, <2>1, <2>2 DEF CopyInv, B
  <2> QED
    BY <1>1, <2>1, <2>3, <2>4
       DEF Inv, SizesKnown, BootInv, ModeInv, BaseInv, StagingInv, AppInv, B, E
<1>8. CASE ~(copy.done + 1 < copy.size)
  <2>1. Reset /\ copy.done + 1 = B
    BY <1>1, <1>8 DEF CopyProgram
  <2>2. BootIsWhole'
    <3>1. \A q \in 0 .. B - 1 : flash'[q] = Whole(l, q)
      BY <1>5, <1>s, <2>1 DEF Holds
    <3>2. flash'[0] \in Page /\ flash'[0].of = l /\ Boot[l] = B
      BY <1>s, <3>1, WholePages, Sizes
    <3> QED
      BY <3>1, <3>2 DEF BootIsWhole
  <2> QED
    BY <1>1, <1>6, <2>1, <2>2, IntoReset DEF Inv, TypeOK
<1> QED
  BY <1>7, <1>8

-----------------------------------------------------------------------------
(* The other commands of the host. *)

\* Steps that turn only what belongs to the connection.
LEMMA InvConnection ==
  ASSUME SameSizes, Inv, (\E i \in Image : Connect(i)) \/ RefuseWrite \/ ResetIntoBootloader \/ Disconnect
  PROVE  Inv'
<1>1. /\ flash' = flash /\ cache' = cache /\ mode' = mode /\ bkp' = bkp /\ session' = session
      /\ copy' = copy /\ lost' = lost
      /\ spare' \in 0 .. Spare
  <2>1. spare' = spare \/ (spare > 0 /\ spare' = spare - 1)
    BY DEF Connect, RefuseWrite, ResetIntoBootloader, Disconnect
  <2>2. spare \in 0 .. Spare /\ Spare \in Nat
    BY FlashAssumption DEF Inv, TypeOK
  <2> QED
    BY <2>1, <2>2 DEF Connect, RefuseWrite, ResetIntoBootloader, Disconnect
<1>2. /\ Flushed' = Flushed /\ BootIsWhole' = BootIsWhole /\ ReadyToCopy' = ReadyToCopy
      /\ AppRuns' = AppRuns /\ \A i \in Image : Installed(i)' = Installed(i)
  BY <1>1, FlashStays DEF Flushed
<1>3. SizesKnown' /\ BootInv' /\ CopyInv'
  BY <1>1, <1>2 DEF Inv, SizesKnown, BootInv, CopyInv, StagedAll, Holds, B, E
<1>4. CASE \E i \in Image : Connect(i)
  <2>1. PICK i \in Image : Connect(i)
    BY <1>4
  <2>2. /\ host' = [image |-> i, next |-> 0] /\ request' = request
        /\ mode \in {"bootloader", "application"}
    BY <2>1 DEF Connect, Answers
  <2>3. TypeOK'
    BY <1>1, <2>2 DEF Inv, TypeOK
  <2>4. Length(i) # 0 /\ \A j \in Image : Length(j) # 0
    <3>1. \A j \in Image : B \in Nat /\ App[j] \in Nat /\ App[j] >= 1 /\ Length(j) = B + App[j]
      BY Sizes
    <3> QED
      BY <3>1
  <2>5. StagingInv' /\ ModeInv' /\ BaseInv'
    BY <1>1, <1>2, <2>2 DEF Inv, StagingInv, ModeInv, BaseInv, B
  <2>6. AppInv'
    BY <1>1, <1>2, <2>2, <2>4 DEF Inv, AppInv
  <2> QED
    BY <1>3, <2>3, <2>5, <2>6 DEF Inv
<1>5. CASE RefuseWrite
  <2>1. host' = host /\ request' = "boot" /\ mode = "application"
    BY <1>5 DEF RefuseWrite
  <2>2. TypeOK' /\ StagingInv' /\ ModeInv' /\ BaseInv' /\ AppInv'
    BY <1>1, <1>2, <2>1 DEF Inv, TypeOK, StagingInv, ModeInv, BaseInv, AppInv, B
  <2> QED
    BY <1>3, <2>2 DEF Inv
<1>6. CASE ResetIntoBootloader
  <2>1. /\ host' = host /\ request' = RequestForBootloader
        /\ mode \in {"bootloader", "application"}
    BY <1>6 DEF ResetIntoBootloader, Connected, Answers
  <2>2. request' \in {"base", "boot"} /\ (request' = "base" => mode = "bootloader" /\ ReadyToCopy)
    BY <2>1 DEF RequestForBootloader, Inv, BaseInv
  <2>3. StagingInv'
    <3>1. mode' = mode /\ host' = host /\ session' = session /\ flash' = flash /\ Flushed' = Flushed
      BY <1>1, <1>2, <2>1
    <3> QED
      BY <3>1 DEF Inv, StagingInv, Holds, B
  <2>4. TypeOK' /\ ModeInv' /\ BaseInv' /\ AppInv'
    BY <1>1, <1>2, <2>1, <2>2 DEF Inv, TypeOK, ModeInv, BaseInv, AppInv, B
  <2> QED
    BY <1>3, <2>3, <2>4 DEF Inv
<1>7. CASE Disconnect
  <2>1. host' = None /\ request' = request
    BY <1>7 DEF Disconnect
  <2>2. TypeOK' /\ StagingInv' /\ ModeInv' /\ BaseInv' /\ AppInv'
    BY <1>1, <1>2, <2>1 DEF Inv, TypeOK, StagingInv, ModeInv, BaseInv, AppInv, B
  <2> QED
    BY <1>3, <2>2 DEF Inv
<1> QED
  BY <1>4, <1>5, <1>6, <1>7

LEMMA InvResetIntoApp ==
  ASSUME SameSizes, Inv, ResetIntoApp
  PROVE  Inv'
<1> DEFINE i == host.image
<1> DEFINE l == LoaderOf[host.image]
<1>1. /\ mode = "bootloader" /\ mode' = mode /\ host # None /\ host' = host
      /\ host.next = Length(i) /\ flash' = Flushed /\ cache' = None
      /\ request' = RequestForApp /\ bkp' = bkp /\ session' = session /\ copy' = copy
      /\ lost' = lost /\ spare' = spare
  BY DEF ResetIntoApp, Connected
<1>2. /\ B \in Nat /\ B >= 2 /\ i \in Image /\ l \in Loader /\ Boot[l] = B
      /\ App[i] \in Nat /\ App[i] >= 1 /\ Length(i) = B + App[i] /\ Length(i) <= Pages /\ Pages \in Nat
  <2>1. i \in Image
    BY <1>1 DEF Inv, TypeOK
  <2> QED
    BY <2>1, Sizes
<1>3. /\ Flushed \in [Place -> Page \cup {Blank}]
      /\ \A p \in 0 .. B - 1 : flash'[p] = flash[p]
      /\ Flushed' = flash'
      /\ session.changed => flash' = flash
  BY <1>1, Flushing DEF Inv, BaseInv, Flushed
<1>4. BootIsWhole'
  BY <1>1, <1>3, BootStays DEF Inv, BootInv
<1>5. session.changed => ReadyToCopy'
  BY <1>3, FlashStays DEF Inv, BaseInv
<1>6. ~session.changed => Installed(i)'
  <2> SUFFICES ASSUME ~session.changed PROVE Installed(i)'
    OBVIOUS
  <2>1. Holds(flash, 0, l, B) /\ Holds(Flushed, B, i, Length(i) - B) /\ Length(i) - B = App[i]
    <3>1. host.next > 0 /\ host.next > B
      BY <1>1, <1>2
    <3> QED
      BY <1>1, <1>2, <3>1 DEF Inv, StagingInv
  <2>2. \A q \in 0 .. B - 1 : flash'[q] = Whole(l, q)
    BY <1>2, <1>3, <2>1 DEF Holds
  <2>3. flash'[0] # Blank /\ flash'[0].of = l
    BY <1>2, <2>2, WholePages
  <2>4. \A q \in 0 .. App[i] - 1 : flash'[B + q] = Whole(i, q)
    BY <1>1, <2>1 DEF Holds
  <2> QED
    BY <1>1, <1>2, <2>3, <2>4 DEF Installed, AppIsWhole, AppStart, Running
<1>7. request' = (IF session.changed THEN "base" ELSE "app")
  BY <1>1 DEF RequestForApp
<1>8. TypeOK'
  BY <1>1, <1>3, <1>7 DEF Inv, TypeOK
<1>9. SizesKnown' /\ BootInv' /\ ModeInv' /\ BaseInv' /\ CopyInv'
  BY <1>1, <1>4, <1>5, <1>7 DEF Inv, SizesKnown, BootInv, ModeInv, BaseInv, CopyInv, B, E
<1>10. StagingInv'
  <2>1. ~(Length(i) <= B) /\ Length(i) \notin 2 .. B /\ Length(i) > 0 /\ Length(i) > B
    BY <1>2
  <2>2. session.newApp = B
    BY <1>1, <2>1 DEF Inv, StagingInv
  <2>3. ~session.changed => Holds(flash', 0, l, B) /\ Holds(Flushed', B, i, Length(i) - B)
    BY <1>1, <1>2, <1>3, <2>1 DEF Inv, StagingInv, Holds
  <2> QED
    BY <1>1, <2>1, <2>2, <2>3 DEF StagingInv, B
<1>11. AppInv'
  BY <1>1, <1>2, <1>6, <1>7 DEF AppInv
<1> QED
  BY <1>8, <1>9, <1>10, <1>11 DEF Inv

-----------------------------------------------------------------------------
LEMMA InvStep ==
  ASSUME SameSizes, ImagesFit, Inv, [Next]_vars
  PROVE  Inv'
<1>1. CASE UNCHANGED vars
  <2>1. /\ flash' = flash /\ cache' = cache /\ mode' = mode /\ bkp' = bkp /\ session' = session
        /\ request' = request /\ copy' = copy /\ host' = host /\ lost' = lost /\ spare' = spare
    BY <1>1 DEF vars
  <2>2. /\ Flushed' = Flushed /\ BootIsWhole' = BootIsWhole /\ ReadyToCopy' = ReadyToCopy
        /\ AppRuns' = AppRuns /\ \A i \in Image : Installed(i)' = Installed(i)
    BY <2>1, FlashStays DEF Flushed
  <2>3. StagingInv'
    BY <2>1, <2>2 DEF Inv, StagingInv, Holds, B
  <2>4. TypeOK' /\ SizesKnown' /\ BootInv' /\ ModeInv' /\ BaseInv'
    BY <2>1, <2>2 DEF Inv, TypeOK, SizesKnown, BootInv, ModeInv, BaseInv, B, E
  <2>5. CopyInv'
    BY <2>1 DEF Inv, CopyInv, StagedAll, Holds, B, E
  <2>6. AppInv'
    <3>1. request' = "app" => host' = host /\ \E i \in Image : Installed(i)'
      BY <2>1, <2>2 DEF Inv, AppInv
    <3>2. ASSUME request' = "app", host' # None, host'.next = Length(host'.image)
          PROVE  Installed(host.image)'
      <4>1. host.image \in Image /\ Installed(host.image)
        BY <2>1, <3>2 DEF Inv, TypeOK, AppInv
      <4> QED
        BY <2>1, <2>2, <4>1 DEF Installed, AppIsWhole, AppStart, Running
    <3>3. lost' \subseteq {"application"} =>
            (mode' = "application" \/ (mode' = "reset" /\ bkp' \in {"none", "app"}) => AppRuns')
      BY <2>1, <2>2 DEF Inv, AppInv
    <3> QED
      BY <3>1, <3>2, <3>3 DEF AppInv
  <2> QED
    BY <2>3, <2>4, <2>5, <2>6 DEF Inv
<1>2. CASE Next
  BY <1>2, InvStartUp, InvCopyErase, InvCopyProgram, InvConnection, InvRestart, InvWritePage,
     InvResetIntoApp, InvLosePower DEF Next
<1> QED
  BY <1>1, <1>2

LEMMA InvHolds ==
  ASSUME SameSizes, ImagesFit
  PROVE  Spec => []Inv
<1>1. Init => Inv
  BY InvInit
<1>2. Inv /\ [Next]_vars => Inv'
  BY InvStep
<1> QED
  BY <1>1, <1>2, PTL DEF Spec

-----------------------------------------------------------------------------
(* The theorems. *)

\* The variables of the start-up code, hf2.c, ghostfat.c and the baseloader keep
\* to their types.
THEOREM TypeCorrect ==
  ASSUME SameSizes, ImagesFit
  PROVE  Spec => []TypeOK
<1>1. Inv => TypeOK
  BY DEF Inv
<1> QED
  BY <1>1, InvHolds, PTL

\* baseloader_start copies one whole bootloader with its own baseloader, whatever
\* the host sent and broke off before and wherever power was lost.
THEOREM CopiesOneBootloader ==
  ASSUME SameSizes, ImagesFit
  PROVE  Spec => []CopiesWhole
<1>1. Inv => CopiesWhole
  <2> SUFFICES ASSUME Inv, mode = "copying"
               PROVE  \E l \in Loader :
                        /\ copy.size = Boot[l]
                        /\ \A p \in copy.done .. Boot[l] - 1 : flash[copy.from + p] = Whole(l, p)
                        /\ \A p \in 0 .. copy.done - 1 : flash[p] = Whole(l, p)
                        /\ \A p \in 0 .. Base[l] - 1 : flash[copy.from + Boot[l] + p] = Whole(l, p)
    BY DEF CopiesWhole
  <2>1. copy \in [from : {B}, size : {B}, done : 0 .. B - 1, erased : BOOLEAN]
    BY DEF Inv, CopyInv
  <2>2. PICK l \in Loader : StagedAll(l) /\ Holds(flash, 0, l, copy.done)
    BY DEF Inv, CopyInv
  <2>3. Boot[l] = B /\ Base[l] = E /\ B \in Nat /\ E \in Nat
    BY Sizes
  <2>4. copy.from = B /\ copy.size = B /\ copy.done \in 0 .. B - 1
    BY <2>1
  <2>5. /\ \A p \in copy.done .. B - 1 : flash[B + p] = Whole(l, p)
        /\ \A p \in 0 .. E - 1 : flash[2 * B + p] = Whole(l, p)
    BY <2>2, <2>3, <2>4 DEF StagedAll, Holds
  <2>6. \A p \in 0 .. copy.done - 1 : flash[p] = Whole(l, p)
    BY <2>2, <2>3, <2>4 DEF Holds
  <2>7. B + B = 2 * B
    BY <2>3
  <2> QED
    BY <2>3, <2>4, <2>5, <2>6, <2>7
<1> QED
  BY <1>1, InvHolds, PTL

\* A device without a bootloader to start lost power while baseloader_start was
\* copying one, and at no other time.
THEOREM BricksOnlyWhileCopying ==
  ASSUME SameSizes, ImagesFit
  PROVE  Spec => []OnlyCopyingBricks
<1>1. Inv => OnlyCopyingBricks
  BY DEF Inv, BootInv, OnlyCopyingBricks
<1> QED
  BY <1>1, InvHolds, PTL

\* bootloader_start starts an application only if all of it is there, unless
\* power was lost in the midst of an update.
THEOREM StartsWhole ==
  ASSUME SameSizes, ImagesFit
  PROVE  Spec => []StartsWholeApp
<1>1. Inv => StartsWholeApp
  BY DEF Inv, AppInv, StartsWholeApp
<1> QED
  BY <1>1, InvHolds, PTL

\* Once RESET_INTO_APP has been acknowledged after the last page, the bootloader
\* and the application of the image are in the flash.
THEOREM AcknowledgedIsThere ==
  ASSUME SameSizes, ImagesFit
  PROVE  Spec => []AcknowledgedIsFlashed
<1>1. Inv => AcknowledgedIsFlashed
  BY DEF Inv, AppInv, AcknowledgedIsFlashed
<1> QED
  BY <1>1, InvHolds, PTL

\* A restart into the baseloader finds the staged bootloader and the copy of the
\* baseloader behind it, whatever came between the request and the restart.
THEOREM BaseloaderIsThere ==
  ASSUME SameSizes, ImagesFit
  PROVE  Spec => []BaseloaderIsFound
<1>1. Inv => BaseloaderIsFound
  BY DEF Inv, BootInv, BaseloaderIsFound
<1> QED
  BY <1>1, InvHolds, PTL
=============================================================================
