--------------------------- MODULE MCConfigStore ---------------------------
(* An instance of ConfigStore for TLC: servers and hand-written files. *)
EXTENDS ConfigStore

CONSTANTS gopls, custom, pyright, go, py

Of(n, e, l) == [name |-> n, command |-> TRUE, exts |-> e, lang |-> l, interpreter |-> FALSE]

SomePresets == {Of(gopls, {go}, gopls), Of(pyright, {py}, Python)}

(* Without --lang, with an empty one, and without a word in --command. *)
SomeCustoms ==
    {Of(custom, {go, py}, Unset), [Of(custom, {py}, custom) EXCEPT !.command = FALSE]}

SomeFiles ==
    {<<>>,
     <<Of(custom, {go, py}, Unset)>>,
     <<Of(pyright, {py}, Python), Of(custom, {go, py}, Python)>>,
     <<Of(custom, {py}, custom), Of(gopls, {go}, gopls), Of(pyright, {py}, Python)>>}
============================================================================
