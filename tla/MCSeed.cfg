SPECIFICATION Spec
CONSTANTS
  old = old
  new = new
  unsafe = unsafe
  garbage = garbage
  runtime = runtime
  policy = policy
  NoPointer = NoPointer
  NoBlob = NoBlob
  Missing = Missing
  Blobs = {old, new, unsafe, garbage}
  Names = {runtime, policy}
  Entrypoint = runtime
  Files <- MCFiles
  Rejected = {unsafe}
  Pinnable = {old, new, unsafe}
  NGateways = 2
INVARIANT DiskHoldsPinned
INVARIANT RunsWhatWasPinned
CHECK_DEADLOCK FALSE
