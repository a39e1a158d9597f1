SPECIFICATION Spec
CONSTANTS
  Names = {n1, n2, n3}
  None = None
  MaxLen = 3
  HSize = 2
  Channels = {"chat", "music"}
  Version = "v2"
  Letters <- SmallLetters
  Players = {"ann", "bob"}
  Few = 2
  Wraps <- SmallWraps
  Inputs <- SmallInputs
  Streams <- SmallStreams
  Handovers <- SmallHandovers
  Shakes <- SmallShakes
  Completions <- SmallCompletions
  Games <- SmallGames
INVARIANTS
  RightCopies 
  LinesKeepText CursorInView
  StreamInStep HandshakeAgrees CompletesWhatWasTyped FairGame
