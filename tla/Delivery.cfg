\* Four messages, one long and one for another channel, over queues of one; two
\* questions and repliers; two streams; two deliveries; three parts; four dials.
CONSTANTS
    TextMsgs = {t1, t2, o1}
    LongMsgs = {t1}
    MediaMsgs = {}
    OtherMsgs = {o1}
    DirectMsgs = {d1}
    NoChMsg = NoChMsg
    ChQueueSize = 1
    MaxRetries = 1
    Questions = {q1, q2}
    VoiceQuestions = {q2}
    Repliers = {r1, r2}
    NoQuestion = NoQuestion
    Streams = {s1, s2}
    WsAnswers = {x1, x2}
    Pollers = {p1}
    WithURL = {s1}
    NoStream = NoStream
    NoAnswer = NoAnswer
    AiDeliveries = {1, 2}
    AoMaxParts = 3
    AoMaxRetries = 2
    MaxDials = 4
    MaxReads = 3
SPECIFICATION Suite
INVARIANTS   WsInv  AoInv ClInv
 
CHECK_DEADLOCK FALSE
