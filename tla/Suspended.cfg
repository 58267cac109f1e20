SPECIFICATION Spec
CONSTANTS
    plain = plain
    coro = coro
    agen = agen
    first = first
    second = second
    third = third
    default = default
    Generators = {coro, agen}
    Kind <- MCKind
    Operations = {first, second, third}
    Receiver <- MCReceiver
    Protocol <- MCProtocol
    Defaults = {default}
    Wrapped <- MCWrapped
    Io = Io
    MaxExceptions = 4
    MaxHandled = 1
    MaxCalls = 4
    Exposed = {}
INVARIANTS 
  HeldAlive
  CallerStateKept
  OneOwner
