\* sessions of two actors, whose chains end in a chat or unheard
SPECIFICATION FairSpec
CONSTANTS
  s1 = s1  s2 = s2  s3 = s3  e1 = e1  e2 = e2  e3 = e3
  Session = {s1, s2, s3}
  EndCall = {e1, e2, e3}
  ActorOf <- MCActorOf
CHECK_DEADLOCK FALSE
INVARIANTS
  TypeOK
  EndAnsweredByItsSession
PROPERTIES
  EndIsAnswered
