-------------------------------- MODULE Crt ---------------------------------
(* The screen of host/crt/crt.c: one thread reads dots from the front end  *)
(* and queues them, another draws what is queued and lets it fade.  Only   *)
(* the queue is under the lock.                                            *)
(*                                                                         *)
(* Brightness is 0, Dim (below pixelSustainMin) or Bright for the blue     *)
(* phosphor, a level of Glow for the green one, 0 when it is below         *)
(* phos2MinVal.  How bright a halo is, what a trace starts with and how    *)
(* far it fades in a frame are any value, smaller than before in a fade.   *)
(* A list is the number of times it holds each pixel.                      *)
EXTENDS Naturals

CONSTANTS Pixels,
          Halo,         \* pixels a dot at a pixel shines on
          Intensities,  \* pxintensity[]: none is 0
          MaxGlow,
          NoDot

ASSUME HaloAssumption == Halo \in [Pixels -> SUBSET Pixels]
ASSUME IntensitiesAssumption == Intensities \subseteq Nat \ {0}
ASSUME GlowAssumption == MaxGlow \in Nat

VARIABLES
  dot,                    \* what pixelthread() has read
  pxlist, pxvals,         \* the queue
  phos1List, phos1vals, phos2List, phos2vals, clearList,
  pixels,                 \* "bg" or "lit"
  frame                   \* what renderthread() does next

queue == <<pxlist, pxvals>>
phosphor1 == <<phos1List, phos1vals>>
phosphor2 == <<phos2List, phos2vals>>
crtVars == <<dot, queue, phosphor1, phosphor2, clearList, pixels, frame>>

Dim == 1
Bright == 2
Dark == [p \in Pixels |-> 0]

CrtTypeOK ==
  /\ dot = NoDot \/ dot \in [p : Pixels, intensity : Intensities, v : Intensities \cup {0}]
  /\ pxvals \in [Pixels -> Intensities \cup {0}]
  /\ phos1vals \in [Pixels -> 0 .. Bright] /\ phos2vals \in [Pixels -> 0 .. MaxGlow]
  /\ pixels \in [Pixels -> {"bg", "lit"}]
  /\ frame \in {"renderpixels", "clear", "phosphor 1", "fade"}

CrtInit ==
  /\ dot = NoDot
  /\ pxlist = Dark /\ pxvals = Dark
  /\ phos1List = Dark /\ phos1vals = Dark /\ phos2List = Dark /\ phos2vals = Dark
  /\ clearList = Dark /\ pixels = [p \in Pixels |-> "bg"]
  /\ frame = "renderpixels"

-----------------------------------------------------------------------------
(* pixelthread(): pxvals is read before the lock.                          *)

ReadDot(p, intensity) ==
  /\ dot = NoDot
  /\ dot' = [p |-> p, intensity |-> intensity, v |-> pxvals[p]]
  /\ UNCHANGED <<queue, phosphor1, phosphor2, clearList, pixels, frame>>

(* Fault: a brighter dot is queued again.                                  *)
IsNewBrighter == dot.v < dot.intensity
IsNew == dot.v = 0

QueuePixel ==
  /\ dot # NoDot
  /\ dot' = NoDot
  /\ pxlist' = IF IsNew THEN [pxlist EXCEPT ![dot.p] = @ + 1] ELSE pxlist
  /\ pxvals' = IF IsNew \/ dot.intensity > dot.v
               THEN [pxvals EXCEPT ![dot.p] = dot.intensity] ELSE pxvals
  /\ UNCHANGED <<phosphor1, phosphor2, clearList, pixels, frame>>

-----------------------------------------------------------------------------
(* render().                                                               *)

Queued == {p \in Pixels : pxlist[p] > 0}

(* A queued pixel shines brightly, those around it more than before or not *)
(* at all: phos1vals after the calls of renderpixel().                     *)
renderpixel(lit) ==
  {v \in [Pixels -> 0 .. Bright] :
     \A p \in Pixels :
       CASE p \in lit -> v[p] = Bright
         [] p \notin lit /\ p \in UNION {Halo[q] : q \in lit} -> v[p] >= phos1vals[p]
         [] OTHER -> v[p] = phos1vals[p]}

renderpixels ==
  /\ frame = "renderpixels" /\ frame' = "clear"
  /\ phos1vals' \in renderpixel(Queued)
  /\ phos1List' = [p \in Pixels |->
       IF phos1vals[p] = 0 /\ phos1vals'[p] # 0 THEN phos1List[p] + 1 ELSE phos1List[p]]
  /\ pxvals' = [p \in Pixels |-> IF p \in Queued THEN 0 ELSE pxvals[p]]
  /\ pxlist' = Dark
  /\ UNCHANGED <<dot, phosphor2, clearList, pixels>>

(* The pixels cleared here are those of the frame before.                  *)
ClearAndDrawGlow ==
  /\ frame = "clear" /\ frame' = "phosphor 1"
  /\ pixels' = [p \in Pixels |-> IF phos2List[p] > 0 THEN "lit"
                                 ELSE IF clearList[p] > 0 THEN "bg" ELSE pixels[p]]
  /\ clearList' = Dark
  /\ UNCHANGED <<dot, queue, phosphor1, phosphor2>>

(* Fault: a pixel is cleared only if it was bright.                        *)
ToClearBright(p) == phos1vals[p] = Bright /\ phos2vals[p] = 0
ToClear(p) == phos1vals[p] = Dim /\ phos2vals[p] = 0

Phosphor1 ==
  LET trace == {p \in Pixels : phos1List[p] > 0 /\ phos1vals[p] = Bright}
  IN  /\ frame = "phosphor 1" /\ frame' = "fade"
      /\ \E u \in [Pixels -> 1 .. MaxGlow] :
           phos2vals' = [p \in Pixels |->
             IF p \in trace /\ phos2vals[p] < u[p] THEN u[p] ELSE phos2vals[p]]
      /\ phos2List' = [p \in Pixels |->
           IF p \in trace /\ phos2vals[p] = 0 THEN phos2List[p] + 1 ELSE phos2List[p]]
      /\ clearList' = [p \in Pixels |->
           IF phos1List[p] > 0 /\ ToClear(p) THEN clearList[p] + 1 ELSE clearList[p]]
      /\ pixels' = [p \in Pixels |-> IF phos1List[p] > 0 THEN "lit" ELSE pixels[p]]
      /\ phos1vals' = [p \in Pixels |-> IF phos1List[p] > 0 THEN 0 ELSE phos1vals[p]]
      /\ phos1List' = Dark
      /\ UNCHANGED <<dot, queue>>

FadePhosphor2 ==
  /\ frame = "fade" /\ frame' = "renderpixels"
  /\ phos2vals' \in {v \in [Pixels -> 0 .. MaxGlow] :
       \A p \in Pixels : IF phos2List[p] > 0 THEN v[p] < phos2vals[p] ELSE v[p] = phos2vals[p]}
  /\ phos2List' = [p \in Pixels |-> IF phos2vals'[p] > 0 THEN phos2List[p] ELSE 0]
  /\ pixels' = [p \in Pixels |->
       IF phos2List[p] > 0 /\ phos2vals'[p] = 0 THEN "bg" ELSE pixels[p]]
  /\ UNCHANGED <<dot, queue, phosphor1, clearList>>

render == renderpixels \/ ClearAndDrawGlow \/ Phosphor1 \/ FadePhosphor2
AnyDot == dot = NoDot /\ dot' # NoDot

-----------------------------------------------------------------------------

(* A list holds a pixel once, so it never outgrows its 1024*1024 places,   *)
(* and a pixel that still shines is on the list that will let it fade.     *)
OnePlace ==
  \A p \in Pixels :
    /\ pxlist[p] <= 1 /\ clearList[p] <= 1
    /\ phos1List[p] = (IF phos1vals[p] = 0 THEN 0 ELSE 1)
    /\ phos2List[p] = (IF phos2vals[p] = 0 THEN 0 ELSE 1)

(* Once no dots come any more, the screen becomes dark and stays so.       *)
GoesDark ==
  <>[][~AnyDot]_crtVars => <>[](\A p \in Pixels : pixels[p] = "bg")

(* "Queue pixel to display": between two dots, a pixel with an intensity   *)
(* is queued.  One that is not is not queued by later dots either, as its  *)
(* intensity is not 0.                                                     *)
QueuedToDisplay == dot = NoDot => \A p \in Pixels : pxvals[p] # 0 => pxlist[p] > 0
=============================================================================
