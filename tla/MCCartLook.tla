------------------------------ MODULE MCCartLook ------------------------------
(* Instance of CartLook for TLC, with a second colour to choose.             *)
EXTENDS CartLook, TLC

\* web/lib/types.ts:71 says of accentHex that it "overrides --accent on /c/{slug}": the
\* colour the editor has saved is the one of the public page.
AccentIsKept ==
  at = "editor" /\ astray = {} /\ unsent = NothingNew /\ patch = NoPatch /\ PublicPage.found =>
    PublicPage.accent = CartPreview.accent
=============================================================================
