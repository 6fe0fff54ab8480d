SPECIFICATION Spec
CONSTANTS
  old = old
  new = new
  unsafe = unsafe
  garbage = garbage
  runtime = runtime
  policy = policy
  NoPointer = NoPointer
  NoBlob = NoBlob
  Missing = Missing
  Blobs = {old, new, unsafe, garbage}
  Names = {runtime, policy}
  Entrypoint = runtime
  Files <- MCFiles
  Rejected = {unsafe}
  Pinnable = {old, new, unsafe}
  NGateways = 2
PROPERTY FallsBack
CHECK_DEADLOCK FALSE
