--------------------------- MODULE MCCreatorTools ---------------------------
(* What a creator works with, for TLC: signing in, the navigation, the       *)
(* dashboard's numbers, the preview of a pasted link, the editor's product   *)
(* list and the look of its cart, the share form, and the feedback form.     *)
(* They share no state that one reads of another; `scene` runs one of them.  *)
(* Three are two scenes each.  Logging clicks and loading the dashboard read *)
(* nothing of each other.  Product calls, which overlap and then run alone,  *)
(* need one call more than a row that is edited or a cart that is deleted    *)
(* under them.  And the cover picker with its uploads is one scene, and the  *)
(* visibility, the colour and the product calls that bring an older look     *)
(* back are the other.                                                       *)
EXTENDS SignIn, Chrome, ClickCounts, PastePreview, ProductList, CartLook, AddForm, Feedback, TLC

VARIABLE scene

vars == <<scene, signInVars, chromeVars, clickVars, pasteVars, listVars, lookVars, formVars,
          feedbackVars>>

Init ==
  /\ scene \in {"sign-in", "chrome", "clicks", "dashboard", "paste", "products", "rows",
                "cover", "look", "share", "feedback"}
  /\ SignInInit /\ ChromeInit /\ ClicksInit /\ PasteInit /\ ListInit /\ LookInit
  /\ FormInit /\ FeedbackInit
  /\ scene # "chrome" => session = Anonymous /\ doc.page = "home" /\ ~stale
  /\ scene \notin {"products", "rows"} => rows = << >>
  /\ scene \notin {"cover", "look"} => at = "new"
  /\ scene = "look" => at = "away" /\ stored.cover \notin Curated
  /\ scene # "share" => made = {}

\* What the other scenes leave alone.
Editing == <<clickVars, pasteVars, listVars, lookVars>>
Sending == <<formVars, feedbackVars>>
Visiting == <<signInVars, chromeVars>>

Next ==
  \/ scene = "sign-in" /\ SignInNext /\ UNCHANGED <<scene, chromeVars, Editing, Sending>>
  \/ scene = "chrome" /\ ChromeNext /\ UNCHANGED <<scene, signInVars, Editing, Sending>>
  \/ /\ \/ scene = "clicks" /\ ClicksNext /\ UNCHANGED dash
        \/ scene = "dashboard" /\ ClicksNext /\ UNCHANGED logVars
     /\ UNCHANGED <<scene, Visiting, pasteVars, listVars, lookVars, Sending>>
  \/ /\ scene = "paste" /\ PasteNext
     /\ UNCHANGED <<scene, Visiting, clickVars, listVars, lookVars, Sending>>
  \/ /\ \/ scene = "products" /\ ListNext /\ UNCHANGED <<editing, deletion>>
        \/ scene = "rows" /\ ListNext /\ calls' < MaxCalls
     /\ UNCHANGED <<scene, Visiting, clickVars, pasteVars, lookVars, Sending>>
  \/ /\ \/ scene = "cover" /\ LookNext /\ UNCHANGED echo /\ {unsent'.accent, unsent'.visibility} = {Keep}
        \/ scene = "look" /\ LookNext /\ UNCHANGED <<upload, library>> /\ look'.cover \notin Curated
     /\ UNCHANGED <<scene, Visiting, clickVars, pasteVars, listVars, Sending>>
  \/ scene = "share" /\ FormNext /\ UNCHANGED <<scene, Visiting, Editing, feedbackVars>>
  \/ scene = "feedback" /\ FeedbackNext /\ UNCHANGED <<scene, Visiting, Editing, formVars>>

Spec == Init /\ [][Next]_vars

\* The part that runs keeps its types; the others keep their initial values.
TypeOK ==
  /\ scene = "sign-in" => SignInTypeOK
  /\ scene = "chrome" => ChromeTypeOK
  /\ scene \in {"clicks", "dashboard"} => ClicksTypeOK
  /\ scene = "paste" => PasteTypeOK
  /\ scene \in {"products", "rows"} => ListTypeOK
  /\ scene \in {"cover", "look"} => LookTypeOK
  /\ scene = "share" => FormTypeOK
  /\ scene = "feedback" => FeedbackTypeOK

\* The two forms that are sent, the share form and the feedback form: what is sent is
\* stored once, and once more for every lost answer that was tried again; and the share form
\* sends nothing of the product before, but a photo that was still being uploaded.
SentOnce == AddedOnce /\ FeedbackHeardOnce

\* What the editor shows is the cart: its products in their order, and its look.
EditorShowsTheCart == ListIsTheCart /\ LookIsTheCart

\* No property here is a liveness property, and nobody picks one of these.
Alike == Permutations(Calls) \cup Permutations(Titles)
=============================================================================
