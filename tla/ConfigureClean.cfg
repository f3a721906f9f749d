SPECIFICATION Spec
CONSTANTS
    a = a
    b = b
    c = c
    f = f
    Root = Root
    Sub = Sub
    None = None
    Name = {a, b, c}
    File = {f}
    Location = {Root, Sub}
    Scripts <- CleanScripts
INVARIANTS
    BuilderAccepts
    StreamWellFormed
    DeclarationsKept
    UsageExact
    AskedIsOrdered
    DraftSound
