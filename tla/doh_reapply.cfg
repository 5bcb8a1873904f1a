SPECIFICATION Spec
CONSTANTS
  Providers = {cloudflare}
  NoHTTPS = {}
  PlainLists <- OnePlain
  DefaultPlain <- Defaults
  Installed <- BothStubs
  Environments <- Reapplied
  Off = Off
INVARIANT PlainRestored
