--------------------------- MODULE MCEditorSave ---------------------------
(* Instances of EditorSave for TLC. *)
EXTENDS EditorSave, TLC

\* editor.tsx:61-65: "local state is the source of truth while editing [...] we
\* DON'T overwrite local state with the server echo": what the open editor shows
\* of a field changes only to what the user types there.
OnlyTypingChangesFields ==
  [][open => \A f \in Fields : cart'[f] # cart[f] => cart'[f] = typed'[f]]_vars
=============================================================================
