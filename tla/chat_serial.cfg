SPECIFICATION ChatSpec
CONSTANTS
    Procs = {p1, p2}
    Users = {ann, bob}
    Admins = {ann, bob}
    Sessions = {s1}
    Challenges = {c1, c2}
    MaxMessages = 2
    TurnBound = 3
    Hazards = {}
    Nothing = Nothing
SYMMETRY MCSymmetry
INVARIANTS
    MessagesAreOwners
    
    CountCoversHistory
    AnswersFollowQuestions
    LiveIsListed
    DeletedIsGone
    OnlyConfirmedActs
    ConfirmedOnce
