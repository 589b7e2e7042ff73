\* One subscriber of one topic, two posts, two minutes.
SPECIFICATION SubsSpec
CONSTANTS
    Addresses = {ann}
    Posts = {p1, p2}
    Topics = {incident}
    TopicOf <- SoleTopic
    MaxSubs = 1
    NoticeLimit = 1
    MaxMinute = 2
INVARIANTS
    NothingSteppedOver
CHECK_DEADLOCK FALSE
