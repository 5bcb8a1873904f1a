SPECIFICATION Spec
CONSTANTS
  Providers = {cloudflare, custom}
  NoHTTPS = {custom}
  PlainLists <- ManyLists
  DefaultPlain <- Defaults
  Installed <- BothStubs
  Environments <- AllFive
  Off = Off
INVARIANTS PlainRestoredAfterFailures StashKept EncryptedInOrder SomeServerAnswers
PROPERTY CompletionRepairs
