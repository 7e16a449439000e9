CONSTANTS
    Star = Star
    Dollar = Dollar
    Plus = Plus
    Minus = Minus
    Colon = Colon
    Space = Space
    Eol = Eol
    a = a
    b = b
    set = set
    get = get
    llen = llen
    lget = lget
    lindex = lindex
    expire = expire
    hgetall = hgetall
    echo = echo
    Letters <- MCLetters
    Commands <- MCCommands
    Echo <- MCEcho
    Numeric <- MCNumeric
    Expire <- MCExpire
    Replies <- MCReplies
    RecvSize = 16
    SendRoom = 20
    MaxRequests = 1
CHECK_DEADLOCK FALSE
SPECIFICATION Spec
INVARIANT ExecutedIsSent
