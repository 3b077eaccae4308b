SPECIFICATION FairSpec
CONSTANTS
    Msgs = {m1, m2}
    Undated = {m2}
    Ignored = {}
    Replies = {r1}
    Chunks = 2
    MaxRetries = 2
    MaxLog = 3
    Torn = Torn
INVARIANTS HandledOnce FilesFollow ChunksInOrder
PROPERTIES MessagesHandled RepliesEnd
