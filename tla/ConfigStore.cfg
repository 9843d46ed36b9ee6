\* Two commands that overlap anywhere, four commands in all: a preset, a custom
\* server with and one without a command, over files with up to three servers.
CONSTANTS
    gopls = gopls  custom = custom  pyright = pyright
    go = go  py = py
    Python = Python
    Unset = Unset
    Names = {gopls, custom, pyright}
    Exts = {go, py}
    Commands = {c1, c2}
    Presets <- SomePresets
    Customs <- SomeCustoms
    HandWritten <- SomeFiles
    MaxOps = 4
SPECIFICATION Spec
INVARIANTS NamesDistinct LoadsBack ChoiceKept
PROPERTY ImplementsRegistry
\* The behaviour ends when the budget of commands is used up.
CHECK_DEADLOCK FALSE
