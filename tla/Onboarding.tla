----------------------------- MODULE Onboarding -----------------------------
(***************************************************************************)
(* A clipper's way into a campaign for humans: the join page with its      *)
(* three steps and the page that registers a clip.  The pages show what    *)
(* they last read of the contract.  They read again when they are opened   *)
(* and after a write that succeeded, not after one that failed.            *)
(*                                                                         *)
(* A person may be verified with a proof of identity, or be registered by  *)
(* the relayer; a registration under way does not disable the proof.       *)
(***************************************************************************)
EXTENDS Client

Button == {"verify", "demo", "join", "register"}

VARIABLES
    shown,  \* per wallet: what its pages show, human and joined
    uses    \* bound: the buttons each wallet's owner ever presses

OnboardingInit == shown = [w \in Wallet |-> [human |-> FALSE, joined |-> FALSE]]

IsSo(w) == [human |-> IsVerified(Home, w), joined |-> w \in joined[Home]]

Forgotten(w) == IF InHand(w) THEN asked[w] ELSE None

\* After a success, or when the page is opened again.  What the step before was
\* told goes with it.
Refresh(w) ==
    /\ Exists(Home)
    /\ shown[w] # IsSo(w)
    /\ Resting(w)
    /\ shown' = [shown EXCEPT ![w] = IsSo(w)]
    /\ press' = [press EXCEPT ![w] = NoPress]
    /\ asked' = [asked EXCEPT ![w] = Forgotten(w)]
    /\ UNCHANGED <<contract, network, queue, sending, lastSeq, proving, attesting, faults>>

\* A page closed in the middle of a write: its outcome is not heard of.
Leave(w) ==
    /\ ~Resting(w)
    /\ Fault
    /\ Ends(w, "unsure")
    /\ NoLongerAwaited(w)
    /\ Forsake(w, w)
    /\ UNCHANGED <<contract, seq, seen, dropped, relaying, entry, attesting, shown>>

ToBeVerified(w) == Exists(Home) /\ ~shown[w].human

PressVerify(w) ==
    /\ "verify" \in uses[w]
    /\ ToBeVerified(w)
    /\ VerifyByProof(w)
    /\ UNCHANGED shown

\* Its button is off while it is pending, and is not there during a proof.
PressDemo(w) ==
    /\ "demo" \in uses[w]
    /\ ToBeVerified(w)
    /\ Resting(w)
    /\ ~InHand(w)
    /\ Ask(w)
    /\ UNCHANGED <<contract, network, sending, lastSeq, proving, attesting, press, shown,
                   faults>>

PressJoin(w) ==
    /\ "join" \in uses[w]
    /\ Exists(Home)
    /\ shown[w].human /\ ~shown[w].joined
    /\ WriteDirectly(w, Call("join", w, Nobody))
    /\ UNCHANGED shown

\* A success takes the place of the form.
FormShown(w) ==
    /\ shown[w].joined
    /\ press[w].call.fn = "register_clip" => press[w].told # "done"

\* The form asks whether the code is in the description; it cannot tell.
PressRegister(w) ==
    /\ "register" \in uses[w]
    /\ w \in DOMAIN VideoOf
    /\ FormShown(w)
    /\ ProveAndRegister(w)
    /\ UNCHANGED shown

\* The code is known once the page has shown it.
ShowCode(w) ==
    /\ w \in DOMAIN VideoOf
    /\ shown[w].joined
    /\ Edit(VideoOf[w], w)
    /\ UNCHANGED <<contract, network, relaying, proving, press, shown, faults>>

OnboardingNext ==
    /\ \E w \in Wallet : \/ Refresh(w) \/ Leave(w) \/ PressVerify(w) \/ PressDemo(w)
                         \/ PressJoin(w) \/ PressRegister(w) \/ ShowCode(w)
    /\ UNCHANGED uses

=============================================================================
