----------------------------- MODULE EnhancePanel -----------------------------
(***************************************************************************)
(* "Improve": a photograph is measured, proposals are made from the        *)
(* measurement (lib/enhance.ts), and the ones left ticked are added to the *)
(* adjustments in effect (components/EnhancePanel.tsx, store/editor.ts).   *)
(*                                                                         *)
(* Abstracted: a histogram is what it holds at a few marks; means and      *)
(* chroma are hundredths, detail is thousandths; of the exposure, which is *)
(* a logarithm, only the direction is kept.                                *)
(***************************************************************************)
EXTENDS Integers, FiniteSets, FiniteSetsExt, Sequences, SequencesExt

CONSTANTS
  Marks,      \* levels a histogram holds something at
  Pictures,   \* measurements: histogram, red, green, blue, chroma, detail
  Others,     \* bound: the ones opened later
  Even,       \* the measurement of a picture spread evenly
  NoOffer,    \* null
  Doubted,    \* bound: proposals whose tick is clicked
  MaxMeasured \* bound: measurements asked for

ASSUME EnhanceAssumption ==
  /\ Marks \subseteq 0 .. 255 /\ Others \subseteq Pictures /\ Even \in Pictures /\ MaxMeasured \in Nat
  /\ \A p \in Pictures : p.histogram \in [Marks -> Nat]

VARIABLES
  photo,      \* the measurement the document on screen would get
  measuring,  \* documents being measured
  analysing,  \* busy says so
  offered,    \* suggestions
  ticked,     \* chosen
  corrected,  \* the sliders, as far as proposals moved them
  rounds      \* measurements asked for

enhanceVars == <<photo, measuring, analysing, offered, ticked, corrected, rounds>>

-----------------------------------------------------------------------------
(* Proposals.                                                              *)

\* share, as a count of pixels.
Share(h, low, high) == SumFunctionOnSet(h, {m \in Marks : low <= m /\ m <= high})
Pixels(h) == Share(h, 0, 255)

\* Broken variant: the level has to pass the fraction.
PercentilePast(h, n, d) ==
  Min({255} \cup {m \in Marks \cup {0} : d * Share(h, 0, m) > n * Pixels(h)})

\* percentile, at n / d.
Percentile(h, n, d) ==
  Min({255} \cup {m \in Marks \cup {0} : d * Share(h, 0, m) >= n * Pixels(h)})

Between(low, high, x) == Max({low, Min({high, x})})

\* Math.round(n / d)
Rounded(n, d) == (2 * n + d) \div (2 * d)

Proposal(id, slider, by) == {[id |-> id, slider |-> slider, by |-> by]}

\* A quarter of a stop from middle grey; nothing is said of a black median.
Light(h) ==
  LET median == Percentile(h, 1, 2)
  IN  CASE median \in 1 .. 108 -> Proposal("light", "exposure", 1)
        [] median >= 128       -> Proposal("light", "exposure", -1)
        [] OTHER               -> {}

\* END_HEAVY: an end denser than the middle by three tenths.
EndHeavy(h, held, levels) == held * 174 * 10 > Share(h, 41, 214) * levels * 13

Shadows(h) ==
  LET dark == Share(h, 1, 40)
  IN  IF dark * 10 > Pixels(h) /\ EndHeavy(h, dark, 40) /\ Share(h, 0, 0) * 10 < Pixels(h)
      THEN Proposal("shadows", "shadows", Between(15, 65, Rounded(dark * 160, Pixels(h))))
      ELSE {}

Highlights(h) ==
  LET bright == Share(h, 225, 254)
  IN  IF bright * 25 > Pixels(h) /\ EndHeavy(h, bright, 30) /\ Share(h, 255, 255) * 20 < Pixels(h)
      THEN Proposal("highlights", "highlights",
                    -Between(15, 60, Rounded(bright * 320, Pixels(h))))
      ELSE {}

Contrast(h) ==
  LET range == Percentile(h, 199, 200) - Percentile(h, 1, 200)
  IN  IF range < 205
      THEN Proposal("contrast", "contrast", Between(8, 45, Rounded((235 - range) * 45, 100)))
      ELSE {}

Cast(p) ==
  LET means == {p.red, p.green, p.blue}
  IN  IF Max(means) - Min(means) > 6
      THEN Proposal("cast", "temperature", -Between(-35, 35, Rounded((p.red - p.blue) * 12, 10)))
      ELSE {}

Colour(p) ==
  IF p.chroma < 14
  THEN Proposal("colour", "vibrance", Between(10, 40, Rounded((14 - p.chroma) * 32, 10))) ELSE {}

Detail(p) ==
  IF p.detail < 20
  THEN Proposal("detail", "sharpen", Between(15, 50, Rounded((20 - p.detail) * 24, 10))) ELSE {}

\* proposeEnhancements
Proposals(p) ==
  LET h == p.histogram
  IN  IF Pixels(h) = 0 THEN {}
      ELSE UNION {Light(h), Shadows(h), Highlights(h), Contrast(h), Cast(p), Colour(p), Detail(p)}

Named(proposals) == {x.id : x \in proposals}

-----------------------------------------------------------------------------
(* The panel.                                                              *)

Sliders == {"exposure", "shadows", "highlights", "contrast", "temperature", "vibrance", "sharpen"}
Uncorrected == [s \in Sliders |-> 0]

EnhanceInit ==
  /\ photo \in Pictures
  /\ measuring = <<>> /\ analysing = FALSE /\ offered = NoOffer /\ ticked = {}
  /\ corrected = Uncorrected /\ rounds = 0

\* analyse
Analyse ==
  /\ offered = NoOffer /\ ~analysing /\ rounds < MaxMeasured
  /\ measuring' = Append(measuring, photo) /\ analysing' = TRUE /\ rounds' = rounds + 1
  /\ UNCHANGED <<photo, offered, ticked, corrected>>

\* Broken variant: what was ticked stays ticked.
OfferKeepingTicks(proposals) == offered' = proposals /\ UNCHANGED ticked

\* The list is shown with everything ticked.
Offer(proposals) == offered' = proposals /\ ticked' = Named(proposals)

\* The measurement comes, of whatever document it was asked for, or fails.
Measured ==
  /\ measuring # <<>>
  /\ \E i \in DOMAIN measuring :
       /\ measuring' = RemoveAt(measuring, i)
       /\ \/ Offer(Proposals(measuring[i]))
          \/ UNCHANGED <<offered, ticked>>
  /\ analysing' = FALSE
  /\ UNCHANGED <<photo, corrected, rounds>>

\* Another operation ends and says that nothing is being done.
BusyElsewhere ==
  /\ analysing
  /\ analysing' = FALSE
  /\ UNCHANGED <<photo, measuring, offered, ticked, corrected, rounds>>

Tick(id) ==
  /\ offered # NoOffer /\ id \in Named(offered)
  /\ ticked' = (ticked \cup {id}) \ (ticked \cap {id})
  /\ UNCHANGED <<photo, measuring, analysing, offered, corrected, rounds>>

\* dismissSuggestions
Dismiss ==
  /\ offered # NoOffer
  /\ offered' = NoOffer /\ ticked' = {}
  /\ UNCHANGED <<photo, measuring, analysing, corrected, rounds>>

\* applySuggestions: added to what is there.
Improved == [s \in Sliders |-> corrected[s] +
               MapThenSumSet(LAMBDA x : x.by, {x \in offered : x.slider = s /\ x.id \in ticked})]

\* applyEnhancements
ApplyTicked ==
  /\ offered # NoOffer /\ ticked # {}
  /\ corrected' = Improved
  /\ offered' = NoOffer /\ ticked' = {}
  /\ UNCHANGED <<photo, measuring, analysing, rounds>>

\* Another photograph is opened.  The list stays, with everything ticked again.
OpenAnother(p) ==
  /\ photo' = p /\ corrected' = Uncorrected
  /\ ticked' = IF offered = NoOffer THEN {} ELSE Named(offered)
  /\ UNCHANGED <<measuring, analysing, offered, rounds>>

EnhanceNext ==
  \/ Analyse \/ Measured \/ BusyElsewhere \/ Dismiss \/ ApplyTicked
  \/ \E id \in Doubted : Tick(id)
  \/ \E p \in Others : OpenAnother(p)

-----------------------------------------------------------------------------
\* The pixels in order, from the darkest; and the one a fraction n / d of them
\* comes up to.
InOrder(h) ==
  LET levels == SetToSortSeq(Marks, <)
  IN  FlattenSeq([i \in DOMAIN levels |-> [k \in 1 .. h[levels[i]] |-> levels[i]]])
Ranked(h, n, d) == InOrder(h)[(n * Pixels(h) + d - 1) \div d]

\* What is offered is arguable and not absurd: a percentile is the pixel of that
\* rank; a slider is moved by one proposal at most and by no more than its rule
\* allows; an end that is crushed or blown is left alone; a picture spread evenly
\* "wants nothing done to it" (enhance.ts:73); and only what is offered is ticked.
ProposalsAreArguable ==
  /\ rounds = 0 /\ Pixels(photo.histogram) > 0 =>
       \A f \in {<<1, 2>>, <<1, 200>>, <<199, 200>>} :
         Percentile(photo.histogram, f[1], f[2]) = Ranked(photo.histogram, f[1], f[2])
  /\ photo = Even /\ offered # NoOffer /\ rounds = 1 =>
       Named(offered) \subseteq {"cast", "colour", "detail"}
  /\ IF offered = NoOffer THEN ticked = {}
     ELSE /\ ticked \subseteq Named(offered)
          /\ \A x, y \in offered : x.slider = y.slider => x = y
          /\ \A x \in offered : x.by \in -60 .. 65
=============================================================================
