SPECIFICATION Spec
CHECK_DEADLOCK FALSE
CONSTANTS
  draft = draft
  review = review
  publish = publish
  absent = absent
  Tasks = {draft, review, publish}
  Plans <- MCPlans
  RequiresApproval = {draft, review}
  Impatient = {draft}
  Optional = {review, publish}
  RetryCount <- MCRetryCount
  MaxParallel = 2
INVARIANT OptionalMayFail
